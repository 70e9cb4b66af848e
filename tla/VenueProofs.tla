----------------------------- MODULE VenueProofs -----------------------------
(***************************************************************************)
(* The calls to the exchanges, for any number of orders, threads and       *)
(* accounts, any quantities, commissions and windows, and any number of    *)
(* polls.                                                                  *)
(*                                                                         *)
(* RemoteOrders, at both venues: an order reported as accepted is final,   *)
(* a complete snapshot that lists all open orders misses none, it counts   *)
(* no purchase twice, and a call answered at once reports what the account *)
(* received.  All rest on the same fact: an order the venue has closed     *)
(* never changes again, because the venue only moves open orders and a     *)
(* call posts its order once (PostsOnce).                                  *)
(*                                                                         *)
(* Gateway: a throttle in force is never cleared, and a backoff is within  *)
(* its bounds.                                                             *)
(***************************************************************************)
EXTENDS RemoteOrders, TLAPS

CONSTANTS Threads, Accounts, Degraded, Windows, BaseBackoff, MaxBackoff, Jitter, MaxTime,
          MaxCalls

VARIABLES now, begun, registry, client, th, limitedUntil

Gate == INSTANCE Gateway WITH calls <- begun
-----------------------------------------------------------------------------

Statuses == {"none"} \cup OpenStatuses \cup ClosedStatuses
IsClosed(id) == orders[id].status \in ClosedStatuses

OrderType == [status: Statuses, size: Nat, executed: Nat, fee: Nat]
PayloadType == [status: Statuses, executed: Nat, fills: Nat]
CallType == [pc: {"submit", "decide", "poll", "done"}, attempt: Nat, request: Nat,
             payload: PayloadType, result: [ok: BOOLEAN, quantity: Nat]]
SnapshotType == [read: Nat, known: SUBSET Ids, open: SUBSET Ids, unlisted: SUBSET Ids,
                 positions: [Ids -> Int], balances: [Ids -> Int]]

\* The types, and fees that never exceed what was executed.
Types ==
    /\ orders \in [Ids -> OrderType]
    /\ calls \in [Ids -> CallType]
    /\ snap \in SnapshotType /\ snap.read <= Len(Requests)
    /\ \A id \in Ids: orders[id].fee <= orders[id].executed

\* A call that has not posted has no order at the venue.
PostsOnce == \A id \in Ids: Running(id, "submit") => orders[id].status = "none"

\* A terminal status in hand means that the order is closed, and that the
\* answer tells what was executed; its fills list the whole fee or nothing.
AnswersAreFinal ==
    \A id \in Ids: calls[id].payload.status \in ClosedStatuses =>
        /\ IsClosed(id)
        /\ calls[id].payload.executed = orders[id].executed
        /\ calls[id].payload.fills \in {0, orders[id].fee}

\* An order known to the snapshot was placed, and was closed when it was not
\* among the open orders, if these were listed in full; once positions are
\* read, it is in them.
SnapshotInv ==
    /\ snap.read > 0 /\ snap.unlisted = {} =>
          \A id \in snap.known: IsPlaced(id) /\ (id \in snap.open \/ IsClosed(id))
    /\ snap.read > 1 /\ snap.unlisted = {} =>
          \A id \in snap.known: id \in snap.open \/ snap.positions[id] = Received(id)

Inv == Types /\ PostsOnce /\ AnswersAreFinal /\ AcceptedOrderIsFinal /\ SnapshotInv

-----------------------------------------------------------------------------
\* What a step may do to orders as a whole: a placed order stays placed and a
\* closed one stays as it is.
OrdersOnlyGrow ==
    \A id \in Ids: /\ IsPlaced(id) => IsPlaced(id)'
                   /\ IsClosed(id) => orders'[id] = orders[id]

(* The statuses of the model that either connector takes for terminal are the
   venue's closed ones (alpaca_order_status_is_terminal and
   binance_order_status_is_terminal). *)
LEMMA TerminalIsClosed ==
    ASSUME NEW payload \in PayloadType
    PROVE  IsTerminal(payload) => payload.status \in ClosedStatuses
BY Zenon DEF IsTerminal, AlpacaTerminal, BinanceTerminal, PayloadType, Statuses,
             OpenStatuses, ClosedStatuses

(* Alpaca is asked three times for a snapshot and Binance twice. *)
LEMMA RequestsLength ==
    /\ Venue = "alpaca" => Len(Requests) = 3
    /\ Venue = "binance" => Len(Requests) = 2
    /\ Len(Requests) \in Nat /\ Len(Requests) > 1
BY DEF Requests

(* The quantity taken from the payload of a closed order lies between what the
   account received and what was executed. *)
LEMMA AcceptedQuantityBounds ==
    ASSUME NEW payload \in PayloadType, NEW side, NEW fee \in Nat,
           payload.fills \in {0, fee}, fee <= payload.executed
    PROVE  /\ AcceptedQuantity(payload, side) \in Nat
           /\ AcceptedQuantity(payload, side) > 0 =>
                 AcceptedQuantity(payload, side) \in (payload.executed - fee)..payload.executed
<1>1. payload.executed \in Nat /\ payload.fills \in Nat
  BY DEF PayloadType
<1> QED
  BY <1>1, SMTT(30) DEF AcceptedQuantity, AlpacaQuantity, BinanceNetQuantity

(* Executing part of an open order gives an order again, never an unplaced one
   (the venue). *)
LEMMA ExecutedType ==
    ASSUME NEW o \in OrderType, NEW n \in Nat, NEW f \in Nat, f <= n, o.fee <= o.executed
    PROVE  /\ Executed(o, n, f) \in OrderType
           /\ Executed(o, n, f).status # "none"
           /\ Executed(o, n, f).fee <= Executed(o, n, f).executed
<1>1. /\ o.size \in Nat /\ o.executed \in Nat /\ o.fee \in Nat
  BY DEF OrderType
<1> DEFINE s == IF o.executed + n = o.size THEN "filled"
                ELSE IF o.executed + n > 0 THEN "partially_filled" ELSE "new"
<1>2. Executed(o, n, f) =
        [status |-> s, size |-> o.size, executed |-> o.executed + n, fee |-> o.fee + f]
  BY DEF Executed
<1>3. s \in Statuses /\ s # "none"
  BY DEF Statuses, OpenStatuses, ClosedStatuses
<1>4. o.executed + n \in Nat /\ o.fee + f \in Nat /\ o.fee + f <= o.executed + n
  BY <1>1
<1> HIDE DEF s
<1> QED
  BY <1>1, <1>2, <1>3, <1>4 DEF OrderType

(* The steps of the venue: only open orders move. *)
LEMMA VenueStep ==
    ASSUME Inv, NEW id \in Ids, VenueExecutes(id) \/ VenueCloses(id)
    PROVE  /\ orders' \in [Ids -> OrderType]
           /\ \A j \in Ids: orders'[j].fee <= orders'[j].executed
           /\ OrdersOnlyGrow
           /\ \A j \in Ids: orders[j].status = "none" => orders'[j].status = "none"
<1>1. /\ orders \in [Ids -> OrderType] /\ orders[id] \in OrderType
      /\ orders[id].fee <= orders[id].executed
      /\ \A j \in Ids: orders[j].fee <= orders[j].executed
  BY DEF Inv, Types
<1>2. orders[id].status \in {"new", "partially_filled"}
  BY DEF VenueExecutes, VenueCloses, IsOpen, OpenStatuses
<1>3. PICK o \in OrderType: /\ orders' = [orders EXCEPT ![id] = o]
                            /\ o.status # "none" /\ o.fee <= o.executed
  <2>1. CASE VenueExecutes(id)
    <3>0. PICK n \in 1..(orders[id].size - orders[id].executed):
             \E f \in FeesOf(id, n): orders' = [orders EXCEPT ![id] = Executed(orders[id], n, f)]
      BY <2>1, <1>1, Zenon DEF VenueExecutes
    <3>1. PICK f \in FeesOf(id, n): orders' = [orders EXCEPT ![id] = Executed(orders[id], n, f)]
      BY <3>0, Zenon
    <3>2. n \in Nat /\ f \in Nat /\ f <= n
      BY <1>1, OrdersAssumption DEF FeesOf, OrderType
    <3> QED BY <1>1, <3>1, <3>2, ExecutedType, Zenon
  <2>2. CASE VenueCloses(id)
    <3>1. PICK s \in {"canceled", "expired"}: orders' = [orders EXCEPT ![id].status = s]
      BY <2>2, Zenon DEF VenueCloses
    <3>2. [orders[id] EXCEPT !.status = s] \in OrderType
      BY <1>1, <3>1 DEF OrderType, Statuses, ClosedStatuses
    <3>3. /\ [orders[id] EXCEPT !.status = s].status = s
          /\ [orders[id] EXCEPT !.status = s].fee = orders[id].fee
          /\ [orders[id] EXCEPT !.status = s].executed = orders[id].executed
      BY <1>1 DEF OrderType
    <3> QED BY <1>1, <3>1, <3>2, <3>3, Zenon
  <2> QED BY <2>1, <2>2
<1>4. \A j \in Ids: orders'[j] = IF j = id THEN o ELSE orders[j]
  BY <1>1, <1>3
<1>5. OrdersOnlyGrow
  BY <1>2, <1>3, <1>4, Zenon DEF OrdersOnlyGrow, IsPlaced, IsClosed, ClosedStatuses
<1>6. \A j \in Ids: orders[j].status = "none" => orders'[j].status = "none"
  BY <1>2, <1>4, Zenon
<1> QED BY <1>1, <1>3, <1>4, <1>5, <1>6

(* What AnswersAreFinal, AcceptedOrderIsFinal and SnapshotInv say of closed
   orders stays true in a step that leaves the calls and the snapshot alone. *)
LEMMA GrowingKeepsPromises ==
    ASSUME Inv, OrdersOnlyGrow, orders' \in [Ids -> OrderType],
           UNCHANGED <<calls, snap>>
    PROVE  AnswersAreFinal' /\ AcceptedOrderIsFinal' /\ SnapshotInv'
<1>1. AnswersAreFinal'
  BY Zenon DEF Inv, AnswersAreFinal, OrdersOnlyGrow, IsClosed
<1>2. AcceptedOrderIsFinal'
  BY Zenon DEF Inv, AcceptedOrderIsFinal, OrdersOnlyGrow, IsClosed, Running, Received
<1>3. SnapshotInv'
  <2>1. \A id \in snap.known: id \in Ids
    BY DEF Inv, Types, SnapshotType
  <2>2. snap.read > 0 /\ snap.unlisted = {} =>
          \A id \in snap.known: IsPlaced(id)' /\ (id \in snap.open \/ IsClosed(id)')
    BY <2>1, Zenon DEF Inv, SnapshotInv, OrdersOnlyGrow, IsClosed
  <2>3. snap.read > 1 => snap.read > 0
    BY DEF Inv, Types, SnapshotType
  <2>4. snap.read > 1 /\ snap.unlisted = {} =>
          \A id \in snap.known: id \in snap.open \/ snap.positions[id] = Received(id)'
    BY <2>1, <2>3, Zenon DEF Inv, SnapshotInv, OrdersOnlyGrow, Received
  <2> QED BY <2>2, <2>4 DEF SnapshotInv
<1> QED BY <1>1, <1>2, <1>3

(* A call that returns keeps its payload (the return of submit_remote_order). *)
LEMMA ReturnStep ==
    ASSUME Inv, NEW id \in Ids, NEW r \in [ok: BOOLEAN, quantity: Nat], Return(id, r)
    PROVE  /\ calls' \in [Ids -> CallType]
           /\ calls'[id].pc = "done" /\ calls'[id].result = r
           /\ calls'[id].payload = calls[id].payload
           /\ \A j \in Ids: j # id => calls'[j] = calls[j]
<1>1. calls \in [Ids -> CallType] /\ calls[id] \in CallType
  BY DEF Inv, Types
<1> DEFINE c == [calls[id] EXCEPT !.pc = "done", !.result = r]
<1>2. calls' = [calls EXCEPT ![id] = c]
  BY <1>1 DEF Return
<1>3. /\ c \in CallType /\ c.pc = "done" /\ c.result = r
      /\ c.payload = calls[id].payload
  BY <1>1, Zenon DEF CallType
<1> HIDE DEF c
<1> QED BY <1>1, <1>2, <1>3

(* A call that goes on to look at an answer (the loop of submit_remote_order). *)
LEMMA AnswerStep ==
    ASSUME Inv, NEW id \in Ids, NEW p \in PayloadType, NEW a \in Nat, Answer(id, a, p)
    PROVE  /\ calls' \in [Ids -> CallType]
           /\ calls'[id].pc = "decide" /\ calls'[id].payload = p
           /\ \A j \in Ids: j # id => calls'[j] = calls[j]
<1>1. calls \in [Ids -> CallType] /\ calls[id] \in CallType
  BY DEF Inv, Types
<1> DEFINE c == [calls[id] EXCEPT !.pc = "decide", !.attempt = a, !.payload = p]
<1>2. c \in CallType /\ c.pc = "decide" /\ c.payload = p
  BY <1>1, Zenon DEF CallType
<1>3. calls' = [calls EXCEPT ![id] = c]
  BY DEF Answer
<1> HIDE DEF c
<1> QED BY <1>1, <1>2, <1>3

(* A call that fails keeps the invariant, as long as the orders only grow and
   no other call's order is touched before it is posted. *)
LEMMA FailedCall ==
    ASSUME Inv, NEW id \in Ids, Return(id, Failed), OrdersOnlyGrow, UNCHANGED snap,
           orders' \in [Ids -> OrderType],
           \A j \in Ids: orders'[j].fee <= orders'[j].executed,
           \A j \in Ids: j # id => orders'[j] = orders[j]
    PROVE  Inv'
<1>1. /\ calls' \in [Ids -> CallType]
      /\ calls'[id].pc = "done" /\ calls'[id].result = Failed
      /\ calls'[id].payload = calls[id].payload
      /\ \A j \in Ids: j # id => calls'[j] = calls[j]
  <2>1. Failed \in [ok: BOOLEAN, quantity: Nat]
    BY DEF Failed
  <2> QED BY <2>1, ReturnStep
<1>2. Types'
  BY <1>1 DEF Inv, Types
<1>3. PostsOnce'
  BY <1>1, Zenon DEF Inv, PostsOnce, Running
<1>4. AnswersAreFinal'
  BY <1>1, Zenon DEF Inv, AnswersAreFinal, OrdersOnlyGrow, IsClosed
<1>5. AcceptedOrderIsFinal'
  <2>1. ~calls'[id].result.ok
    BY <1>1 DEF Failed
  <2> QED BY <1>1, <2>1, Zenon
       DEF Inv, AcceptedOrderIsFinal, OrdersOnlyGrow, IsClosed, Running, Received
<1>6. SnapshotInv'
  <2>1. \A j \in snap.known: j \in Ids
    BY DEF Inv, Types, SnapshotType
  <2>2. snap.read > 1 => snap.read > 0
    BY DEF Inv, Types, SnapshotType
  <2> QED BY <2>1, <2>2, Zenon DEF Inv, SnapshotInv, OrdersOnlyGrow, IsClosed, Received
<1> QED BY <1>2, <1>3, <1>4, <1>5, <1>6 DEF Inv

(* The same for a call that looks at an answer, when the answer is true of the
   order. *)
LEMMA AnsweredCall ==
    ASSUME Inv, NEW id \in Ids, NEW p \in PayloadType, NEW a \in Nat, Answer(id, a, p),
           OrdersOnlyGrow, UNCHANGED snap,
           orders' \in [Ids -> OrderType],
           \A j \in Ids: orders'[j].fee <= orders'[j].executed,
           \A j \in Ids: j # id => orders'[j] = orders[j],
           p.status = orders'[id].status, p.executed = orders'[id].executed,
           p.fills \in {0, orders'[id].fee}
    PROVE  Inv'
<1>1. /\ calls' \in [Ids -> CallType]
      /\ calls'[id].pc = "decide" /\ calls'[id].payload = p
      /\ \A j \in Ids: j # id => calls'[j] = calls[j]
  BY AnswerStep
<1>2. Types'
  BY <1>1 DEF Inv, Types
<1>3. PostsOnce'
  BY <1>1, Zenon DEF Inv, PostsOnce, Running
<1>4. AnswersAreFinal'
  BY <1>1, Zenon DEF Inv, AnswersAreFinal, OrdersOnlyGrow, IsClosed
<1>5. AcceptedOrderIsFinal'
  BY <1>1, Zenon DEF Inv, AcceptedOrderIsFinal, OrdersOnlyGrow, IsClosed, Running, Received
<1>6. SnapshotInv'
  <2>1. \A j \in snap.known: j \in Ids
    BY DEF Inv, Types, SnapshotType
  <2>2. snap.read > 1 => snap.read > 0
    BY DEF Inv, Types, SnapshotType
  <2> QED BY <2>1, <2>2, Zenon DEF Inv, SnapshotInv, OrdersOnlyGrow, IsClosed, Received
<1> QED BY <1>2, <1>3, <1>4, <1>5, <1>6 DEF Inv

(* The post (submit_remote_order up to the first answer): the order is new. *)
LEMMA PostStep ==
    ASSUME Inv, NEW id \in Ids, PostAccepted(id)
    PROVE  Inv'
<1> DEFINE size == FormatQuantity(calls[id].request)
<1> DEFINE placed == [Unplaced EXCEPT !.size = size]
<1>1. /\ orders \in [Ids -> OrderType] /\ orders[id].status = "none"
      /\ \A j \in Ids: orders[j].fee <= orders[j].executed
      /\ calls[id].request \in Nat
  BY DEF Inv, Types, PostsOnce, PostAccepted, CallType
<1>2. size \in Nat /\ size > 0
  BY <1>1, OrdersAssumption, SMTT(30) DEF FormatQuantity, PostAccepted
<1>3. /\ placed = [status |-> "none", size |-> size, executed |-> 0, fee |-> 0]
      /\ placed \in OrderType /\ placed.size = size /\ placed.executed = 0 /\ placed.fee = 0
  <2>1. placed = [status |-> "none", size |-> size, executed |-> 0, fee |-> 0]
    BY DEF Unplaced
  <2> HIDE DEF size, placed
  <2> QED BY <1>2, <2>1 DEF OrderType, Statuses
<1>0. PICK n \in 0..size: \E f \in FeesOf(id, n), rejected \in BOOLEAN:
        LET o == Executed(placed, n, f)
            order == IF rejected /\ n = 0 THEN [o EXCEPT !.status = "rejected"] ELSE o
        IN /\ orders' = [orders EXCEPT ![id] = order]
           /\ Answer(id, 0, SubmitPayload(order)) \/ Return(id, Failed)
  BY <1>3, Zenon DEF PostAccepted
<1>4. PICK f \in FeesOf(id, n), rejected \in BOOLEAN:
        LET o == Executed(placed, n, f)
            order == IF rejected /\ n = 0 THEN [o EXCEPT !.status = "rejected"] ELSE o
        IN /\ orders' = [orders EXCEPT ![id] = order]
           /\ Answer(id, 0, SubmitPayload(order)) \/ Return(id, Failed)
  BY <1>0, Zenon
<1> DEFINE o == Executed(placed, n, f)
<1> DEFINE order == IF rejected /\ n = 0 THEN [o EXCEPT !.status = "rejected"] ELSE o
<1> HIDE DEF size, placed
<1>5. n \in Nat /\ f \in Nat /\ f <= n
  BY <1>2, OrdersAssumption DEF FeesOf
<1>6. o \in OrderType /\ o.status # "none" /\ o.fee <= o.executed
  BY <1>3, <1>5, ExecutedType
<1> HIDE DEF o
<1>7. order \in OrderType /\ order.status # "none" /\ order.fee <= order.executed
  BY <1>6 DEF OrderType, Statuses, ClosedStatuses
<1>8. /\ orders' = [orders EXCEPT ![id] = order]
      /\ Answer(id, 0, SubmitPayload(order)) \/ Return(id, Failed)
  BY <1>4 DEF o
<1> HIDE DEF order
<1>9. \A j \in Ids: orders'[j] = IF j = id THEN order ELSE orders[j]
  BY <1>1, <1>8
<1>10. /\ orders' \in [Ids -> OrderType]
       /\ \A j \in Ids: orders'[j].fee <= orders'[j].executed
       /\ \A j \in Ids: j # id => orders'[j] = orders[j]
  BY <1>1, <1>7, <1>8, <1>9
<1>11. OrdersOnlyGrow
  BY <1>1, <1>7, <1>9, Zenon DEF OrdersOnlyGrow, IsPlaced, IsClosed, ClosedStatuses
<1>12. UNCHANGED snap
  BY DEF PostAccepted
<1>13. CASE Return(id, Failed)
  BY <1>10, <1>11, <1>12, <1>13, FailedCall
<1>14. CASE Answer(id, 0, SubmitPayload(order))
  <2> DEFINE p == SubmitPayload(order)
  <2>1. /\ p \in PayloadType /\ p.status = order.status /\ p.executed = order.executed
        /\ p.fills \in {0, order.fee}
    BY <1>7 DEF SubmitPayload, PayloadType, OrderType
  <2>2. orders'[id] = order
    BY <1>9
  <2> HIDE DEF p
  <2> QED BY <1>10, <1>11, <1>12, <1>14, <2>1, <2>2, AnsweredCall DEF p
<1> QED BY <1>8, <1>13, <1>14

(* The status request: its answer is the order as it stands. *)
LEMMA PollStep ==
    ASSUME Inv, NEW id \in Ids, PollStatus(id)
    PROVE  Inv'
<1>1. /\ orders \in [Ids -> OrderType] /\ orders[id] \in OrderType
      /\ \A j \in Ids: orders[j].fee <= orders[j].executed
      /\ calls[id].attempt + 1 \in Nat
  BY DEF Inv, Types, CallType
<1>2. UNCHANGED <<orders, snap>>
  BY DEF PollStatus
<1>3. OrdersOnlyGrow
  BY <1>2, Zenon DEF OrdersOnlyGrow, IsPlaced
<1>4. CASE Return(id, Failed)
  BY <1>1, <1>2, <1>3, <1>4, FailedCall
<1>5. CASE Answer(id, calls[id].attempt + 1, StatusPayload(orders[id]))
  <2> DEFINE p == StatusPayload(orders[id])
  <2>1. /\ p \in PayloadType /\ p.status = orders[id].status
        /\ p.executed = orders[id].executed /\ p.fills \in {0, orders[id].fee}
    BY <1>1 DEF StatusPayload, PayloadType, OrderType
  <2> HIDE DEF p
  <2> QED BY <1>1, <1>2, <1>3, <1>5, <2>1, AnsweredCall DEF p
<1> QED BY <1>4, <1>5 DEF PollStatus

(* One turn of the loop of submit_remote_order: a call succeeds only with a
   terminal status in hand, and then its order is closed. *)
LEMMA DecideStep ==
    ASSUME Inv, NEW id \in Ids, Decide(id)
    PROVE  Inv'
<1> DEFINE p == calls[id].payload
<1> DEFINE q == AcceptedQuantity(p, Side[id])
<1>1. /\ orders \in [Ids -> OrderType] /\ orders[id] \in OrderType
      /\ \A j \in Ids: orders[j].fee <= orders[j].executed
      /\ calls \in [Ids -> CallType] /\ calls[id] \in CallType /\ p \in PayloadType
  BY DEF Inv, Types, CallType
<1>2. UNCHANGED <<orders, snap>>
  BY DEF Decide
<1>3. OrdersOnlyGrow
  BY <1>2, Zenon DEF OrdersOnlyGrow, IsPlaced
<1>4. SnapshotInv'
  BY <1>2, Zenon DEF Inv, SnapshotInv, IsPlaced, IsClosed, Received
<1>5. CASE Return(id, Failed)
  BY <1>1, <1>2, <1>3, <1>5, FailedCall
<1>6. CASE calls' = [calls EXCEPT ![id].pc = "poll"]
  <2> DEFINE c == [calls[id] EXCEPT !.pc = "poll"]
  <2>1. c \in CallType /\ c.pc = "poll" /\ c.payload = p /\ c.result = calls[id].result
    BY <1>1 DEF CallType
  <2>2. calls' = [calls EXCEPT ![id] = c]
    BY <1>1, <1>6
  <2> HIDE DEF c
  <2>3. \A j \in Ids: calls'[j] = IF j = id THEN c ELSE calls[j]
    BY <1>1, <2>2
  <2>4. Types'
    BY <1>1, <1>2, <2>1, <2>2 DEF Inv, Types
  <2>5. PostsOnce' /\ AnswersAreFinal' /\ AcceptedOrderIsFinal'
    BY <1>2, <2>1, <2>3, Zenon
       DEF Inv, PostsOnce, AnswersAreFinal, AcceptedOrderIsFinal, Running, IsClosed, Received
  <2> QED BY <1>4, <2>4, <2>5 DEF Inv
<1>7. CASE IsTerminal(p) /\ q > 0 /\ Return(id, Accepted(q))
  <2>1. /\ orders[id].status \in ClosedStatuses
        /\ p.executed = orders[id].executed /\ p.fills \in {0, orders[id].fee}
    BY <1>1, <1>7, TerminalIsClosed DEF Inv, AnswersAreFinal, IsClosed
  <2>2. orders[id].fee \in Nat /\ orders[id].fee <= p.executed
    BY <1>1, <2>1 DEF OrderType
  <2>3. q \in Nat /\ q \in (orders[id].executed - orders[id].fee)..orders[id].executed
    BY <1>1, <1>7, <2>1, <2>2, AcceptedQuantityBounds, Zenon
  <2> HIDE DEF q
  <2>4. Accepted(q) \in [ok: BOOLEAN, quantity: Nat] /\ Accepted(q).quantity = q
    BY <2>3 DEF Accepted
  <2>5. /\ calls' \in [Ids -> CallType]
        /\ calls'[id].pc = "done" /\ calls'[id].result = Accepted(q)
        /\ calls'[id].payload = calls[id].payload
        /\ \A j \in Ids: j # id => calls'[j] = calls[j]
    BY <1>7, <2>4, ReturnStep
  <2>6. Types'
    BY <1>2, <2>5 DEF Inv, Types
  <2>7. PostsOnce' /\ AnswersAreFinal'
    BY <1>2, <2>5, Zenon DEF Inv, PostsOnce, AnswersAreFinal, Running, IsClosed
  <2>8. AcceptedOrderIsFinal'
    BY <1>2, <2>1, <2>3, <2>4, <2>5, ZenonT(30)
       DEF Inv, AcceptedOrderIsFinal, Running, Received
  <2> QED BY <1>4, <2>6, <2>7, <2>8 DEF Inv
<1> QED BY <1>5, <1>6, <1>7 DEF Decide

(* A request of fetch_remote_snapshot is answered: open orders first, so what
   is missing from them is closed, and what is closed is in the positions read
   later. *)
LEMMA ReadStep ==
    ASSUME Inv, ReadNext
    PROVE  Inv'
<1>1. snap \in SnapshotType /\ UNCHANGED <<orders, calls>>
  BY DEF Inv, Types, ReadNext
<1>2. /\ \A j \in Ids: orders[j] \in OrderType
      /\ PositionsNow \in [Ids -> Int] /\ BalancesNow \in [Ids -> Int]
      /\ \A j \in Ids: PositionsNow[j] = Received(j)
  BY DEF Inv, Types, PositionsNow, BalancesNow, Received, OrderType
<1>3. PostsOnce' /\ AnswersAreFinal' /\ AcceptedOrderIsFinal'
  BY <1>1, Zenon
     DEF Inv, PostsOnce, AnswersAreFinal, AcceptedOrderIsFinal, Running, IsClosed, Received
<1>4. \A j \in Ids: IsPlaced(j) => IsOpen(j) \/ IsClosed(j)
  BY <1>2 DEF IsPlaced, IsOpen, IsClosed, OrderType, Statuses
<1>5. CASE snap.read = 0
  <2>1. Requests[1] = "orders" BY DEF Requests
  <2>2. PICK listed \in Listings:
          snap' = [read |-> 1, known |-> {j \in Ids: IsPlaced(j)}, open |-> listed,
                   unlisted |-> OpenNow \ listed,
                   positions |-> [j \in Ids |-> 0], balances |-> [j \in Ids |-> 0]]
    <3> DEFINE empty == [NoSnapshot EXCEPT !.known = {j \in Ids: IsPlaced(j)}]
    <3>1. PICK listed \in Listings:
            snap' = [Answered(empty, Requests[snap.read + 1], listed) EXCEPT !.read = @ + 1]
      BY <1>5 DEF ReadNext
    <3> DEFINE P == {j \in Ids: IsPlaced(j)}
               Z == [j \in Ids |-> 0]
               w == OpenNow \ listed
               full == [empty EXCEPT !.open = listed]
    <3>2. empty = [read |-> 0, known |-> P, open |-> {}, unlisted |-> {}, positions |-> Z,
                   balances |-> Z]
      <4>1. NoSnapshot = [read |-> 0, known |-> {}, open |-> {}, unlisted |-> {},
                          positions |-> Z, balances |-> Z]
        BY DEF NoSnapshot
      <4>2. empty = [NoSnapshot EXCEPT !.known = P]
        OBVIOUS
      <4> HIDE DEF P, Z, empty
      <4> QED  BY <4>1, <4>2
    <3> HIDE DEF empty
    <3>3. Answered(empty, "orders", listed) = [empty EXCEPT !.open = listed, !.unlisted = w]
      BY DEF Answered
    <3>4. snap.read + 1 = 1
      BY <1>5
    <3>5. snap' = [[full EXCEPT !.unlisted = w] EXCEPT !.read = @ + 1]
      <4>1. Answered(empty, "orders", listed) = [full EXCEPT !.unlisted = w]
        BY <3>3
      <4> QED  BY <2>1, <3>1, <3>4, <4>1, Zenon
    <3>6. SUFFICES snap' = [read |-> 1, known |-> P, open |-> listed, unlisted |-> w,
                            positions |-> Z, balances |-> Z]
      BY ZenonT(30)
    <3> HIDE DEF P, Z, w
    <3>7. full = [read |-> 0, known |-> P, open |-> listed, unlisted |-> {}, positions |-> Z,
                  balances |-> Z]
      BY <3>2
    <3> HIDE DEF full
    <3>8. [full EXCEPT !.unlisted = w]
            = [read |-> 0, known |-> P, open |-> listed, unlisted |-> w, positions |-> Z,
               balances |-> Z]
      BY <3>7
    <3>9. snap' = [[read |-> 0, known |-> P, open |-> listed, unlisted |-> w, positions |-> Z,
                    balances |-> Z] EXCEPT !.read = @ + 1]
      BY <3>5, <3>8, Zenon
    <3> QED BY <3>9
  <2>3. snap' \in SnapshotType
    <3>1. listed \in SUBSET Ids /\ OpenNow \ listed \in SUBSET Ids
      BY DEF Listings, OpenNow
    <3> QED  BY <2>2, <3>1 DEF SnapshotType
  <2>5. snap'.read <= Len(Requests)
    BY <2>2, RequestsLength
  <2>4. SnapshotInv'
    <3>1. /\ snap'.read = 1 /\ snap'.known = {j \in Ids: IsPlaced(j)}
          /\ snap'.unlisted = {} => snap'.open = {j \in Ids: IsOpen(j)}
      BY <2>2 DEF Listings, OpenNow
    <3>2. snap'.unlisted = {} =>
            \A j \in snap'.known: IsPlaced(j)' /\ (j \in snap'.open \/ IsClosed(j)')
      BY <1>1, <1>4, <3>1, Zenon DEF IsPlaced, IsClosed
    <3>3. ~(snap'.read > 1)
      BY <3>1
    <3> QED BY <3>2, <3>3 DEF SnapshotInv
  <2> QED BY <1>1, <1>3, <2>3, <2>4, <2>5 DEF Inv, Types
<1>6. CASE snap.read # 0
  <2> DEFINE req == Requests[snap.read + 1]
  <2>1. snap.read \in Nat /\ snap.read > 0 /\ snap.read + 1 \in Nat
    BY <1>1, <1>6 DEF SnapshotType
  <2>2. /\ snap.read + 1 <= Len(Requests) /\ req \in {"positions", "account"}
        /\ req = "positions" \/ Venue = "binance" \/ snap.read > 1
    <3>1. snap.read < Len(Requests)
      BY <2>1, RequestsLength DEF Inv, Types, ReadNext, IsComplete
    <3>2. CASE Venue = "alpaca"
      BY <2>1, <3>1, <3>2, RequestsLength DEF Requests
    <3>3. CASE Venue = "binance"
      BY <2>1, <3>1, <3>3, RequestsLength DEF Requests
    <3> QED BY <3>2, <3>3, OrdersAssumption
  <2>3. PICK listed \in Listings: snap' = [Answered(snap, req, listed) EXCEPT !.read = @ + 1]
    BY <1>6 DEF ReadNext
  <2> HIDE DEF req
  <2>4. /\ snap' \in SnapshotType /\ snap'.read = snap.read + 1
        /\ snap'.known = snap.known /\ snap'.open = snap.open /\ snap'.unlisted = snap.unlisted
        /\ snap'.positions = PositionsNow \/ (snap.read > 1 /\ snap'.positions = snap.positions)
    <3>1. CASE req = "positions"
      BY <1>1, <1>2, <2>1, <2>3, <3>1, Zenon DEF Answered, SnapshotType
    <3>2. CASE req = "account" /\ Venue = "binance"
      BY <1>1, <1>2, <2>1, <2>3, <3>2, Zenon DEF Answered, SnapshotType
    <3>3. CASE req = "account" /\ Venue # "binance"
      BY <1>1, <1>2, <2>1, <2>2, <2>3, <3>3, Zenon DEF Answered, SnapshotType
    <3> QED BY <2>2, <3>1, <3>2, <3>3
  <2>5. snap.unlisted = {} =>
          \A j \in snap.known: j \in Ids /\ IsPlaced(j) /\ (j \in snap.open \/ IsClosed(j))
    BY <1>1, <2>1 DEF Inv, SnapshotInv, SnapshotType
  <2>6. SnapshotInv'
    <3>1. snap'.unlisted = {} =>
            \A j \in snap'.known: IsPlaced(j)' /\ (j \in snap'.open \/ IsClosed(j)')
      BY <1>1, <2>4, <2>5, Zenon DEF IsPlaced, IsClosed
    <3>2. snap'.unlisted = {} =>
            \A j \in snap'.known: j \in snap'.open \/ snap'.positions[j] = Received(j)'
      BY <1>1, <1>2, <2>4, <2>5, Zenon DEF Inv, SnapshotInv, Received
    <3> QED BY <3>1, <3>2 DEF SnapshotInv
  <2>7. snap'.read <= Len(Requests)
    BY <2>2, <2>4
  <2> QED BY <1>1, <1>3, <2>4, <2>6, <2>7 DEF Inv, Types
<1> QED BY <1>5, <1>6

-----------------------------------------------------------------------------
(* Every step of the calls, the venue and the snapshot keeps the invariant. *)
LEMMA InvNext == Inv /\ [Next]_vars => Inv'
<1> SUFFICES ASSUME Inv, [Next]_vars PROVE Inv'
  OBVIOUS
<1>1. ASSUME NEW id \in Ids, VenueExecutes(id) \/ VenueCloses(id) PROVE Inv'
  <2>1. UNCHANGED <<calls, snap>>
    BY <1>1 DEF VenueExecutes, VenueCloses
  <2>2. /\ orders' \in [Ids -> OrderType]
        /\ \A j \in Ids: orders'[j].fee <= orders'[j].executed
        /\ OrdersOnlyGrow
        /\ \A j \in Ids: orders[j].status = "none" => orders'[j].status = "none"
    BY <1>1, VenueStep
  <2>3. Types'
    BY <2>1, <2>2 DEF Inv, Types
  <2>4. PostsOnce'
    BY <2>1, <2>2, Zenon DEF Inv, PostsOnce, Running
  <2> QED BY <2>1, <2>2, <2>3, <2>4, GrowingKeepsPromises DEF Inv
<1>2. ASSUME NEW id \in Ids, RefusedLocally(id) \/ PostRefused(id) PROVE Inv'
  <2>1. Return(id, Failed) /\ UNCHANGED <<orders, snap>>
    BY <1>2 DEF RefusedLocally, PostRefused
  <2>2. OrdersOnlyGrow
    BY <2>1, Zenon DEF OrdersOnlyGrow, IsPlaced
  <2>3. /\ orders' \in [Ids -> OrderType]
        /\ \A j \in Ids: orders'[j].fee <= orders'[j].executed
    BY <2>1 DEF Inv, Types
  <2> QED BY <2>1, <2>2, <2>3, FailedCall
<1>3. ASSUME NEW id \in Ids, Call(id) PROVE Inv'
  BY <1>2, <1>3, PostStep, DecideStep, PollStep DEF Call
<1>4. CASE ReadNext
  BY <1>4, ReadStep
<1>5. CASE SnapshotOver
  <2>1. snap' = NoSnapshot /\ UNCHANGED <<orders, calls>>
    BY <1>5 DEF SnapshotOver
  <2>2. snap' \in SnapshotType /\ snap'.read = 0
    BY <2>1 DEF NoSnapshot, SnapshotType
  <2>3. Types'
    BY <2>1, <2>2, RequestsLength DEF Inv, Types
  <2>4. PostsOnce' /\ AnswersAreFinal' /\ AcceptedOrderIsFinal'
    BY <2>1, Zenon
       DEF Inv, PostsOnce, AnswersAreFinal, AcceptedOrderIsFinal, Running, IsClosed, Received
  <2>5. SnapshotInv'
    BY <2>2 DEF SnapshotInv
  <2> QED BY <2>3, <2>4, <2>5 DEF Inv
<1>6. CASE UNCHANGED vars
  <2>1. orders' = orders /\ calls' = calls /\ snap' = snap
    BY <1>6 DEF vars
  <2> QED BY <2>1, Zenon DEF Inv, Types, PostsOnce, AnswersAreFinal, AcceptedOrderIsFinal,
                             SnapshotInv, Running, IsClosed, IsPlaced, Received
<1> QED BY <1>1, <1>3, <1>4, <1>5, <1>6 DEF Next

(* The invariant holds at first: nothing is posted and no snapshot is taken. *)
LEMMA InvInit == Init => Inv
<1> SUFFICES ASSUME Init PROVE Inv
  OBVIOUS
<1>1. /\ orders = [id \in Ids |-> Unplaced] /\ snap = NoSnapshot
      /\ Unplaced \in OrderType /\ Unplaced.status = "none"
      /\ Unplaced.fee = 0 /\ Unplaced.executed = 0
  BY DEF Init, Unplaced, OrderType, Statuses
<1>2. /\ calls \in [Ids -> CallType]
      /\ \A id \in Ids: calls[id].pc = "submit" /\ calls[id].payload = NoPayload
  <2>1. NoPayload \in PayloadType /\ Failed \in [ok: BOOLEAN, quantity: Nat]
    BY DEF NoPayload, PayloadType, Statuses, Failed
  <2>2. 0..MaxQuantity \subseteq Nat
    BY OrdersAssumption
  <2> QED BY <2>1, <2>2 DEF Init, CallType
<1>3. snap \in SnapshotType /\ snap.read = 0 /\ snap.read <= Len(Requests)
  BY <1>1, RequestsLength DEF NoSnapshot, SnapshotType
<1>4. Types
  BY <1>1, <1>2, <1>3 DEF Types
<1>5. PostsOnce
  BY <1>1 DEF PostsOnce
<1>6. AnswersAreFinal
  BY <1>2 DEF AnswersAreFinal, NoPayload, ClosedStatuses
<1>7. AcceptedOrderIsFinal
  BY <1>2 DEF AcceptedOrderIsFinal, Running
<1>8. SnapshotInv
  BY <1>3 DEF SnapshotInv
<1> QED BY <1>4, <1>5, <1>6, <1>7, <1>8 DEF Inv

(* An order that submit_remote_order reports as accepted is closed at the venue,
   and the quantity reported is at least what the account received and at most
   what was executed. *)
THEOREM AcceptedFinal == Spec => []AcceptedOrderIsFinal
<1>1. Inv => AcceptedOrderIsFinal
  BY DEF Inv
<1> QED BY InvInit, InvNext, <1>1, PTL DEF Spec

(* A complete snapshot of fetch_remote_snapshot shows every order placed before
   it began as open, or has all of it in the positions, if no more orders were open
   than its answer lists. *)
THEOREM SnapshotComplete == Spec => []SnapshotMissesNothing
<1>1. Inv => SnapshotMissesNothing
  BY RequestsLength DEF Inv, SnapshotInv, SnapshotMissesNothing, IsComplete
<1> QED BY InvInit, InvNext, <1>1, PTL DEF Spec
-----------------------------------------------------------------------------
(***************************************************************************)
(* Strengthens PurchaseIsCountedOnce: what the positions of a snapshot     *)
(* show was executed, and executions are never undone.                     *)
(***************************************************************************)
BooksInv ==
    \A id \in Ids:
        /\ orders[id].status = "none" => orders[id].executed = 0
        /\ snap.positions[id] <= orders[id].executed
        /\ IsComplete(snap) => snap.positions[id] <= snap.balances[id]

(* The order a post leaves at the venue is a placed one (PostAccepted). *)
LEMMA PostedOrder ==
    ASSUME Inv, NEW id \in Ids, PostAccepted(id)
    PROVE  \E o: orders' = [orders EXCEPT ![id] = o] /\ o.status # "none"
<1> DEFINE placed == [Unplaced EXCEPT !.size = FormatQuantity(calls[id].request)]
<1>1. PICK n, f, rejected:
        LET o == Executed(placed, n, f)
            order == IF rejected /\ n = 0 THEN [o EXCEPT !.status = "rejected"] ELSE o
        IN  orders' = [orders EXCEPT ![id] = order]
  BY Zenon DEF PostAccepted
<1> HIDE DEF placed
<1>2. /\ Executed(placed, n, f).status # "none"
      /\ [Executed(placed, n, f) EXCEPT !.status = "rejected"].status # "none"
  BY DEF Executed
<1> DEFINE o == Executed(placed, n, f)
           order == IF rejected /\ n = 0 THEN [o EXCEPT !.status = "rejected"] ELSE o
<1>3. orders' = [orders EXCEPT ![id] = order]
  BY <1>1
<1>4. order.status # "none"
  BY <1>2
<1> HIDE DEF order
<1> QED  BY <1>3, <1>4, ZenonT(30)

(* What was executed stays executed. *)
LEMMA ExecutionsStay ==
    ASSUME Inv, BooksInv, [Next]_vars, NEW id \in Ids
    PROVE  /\ orders[id].executed <= orders'[id].executed
           /\ orders'[id].status = "none" => orders'[id].executed = 0
<1>1. orders \in [Ids -> OrderType] /\ orders' \in [Ids -> OrderType]
  BY InvNext DEF Inv, Types
<1>2. /\ orders[id].executed \in Nat /\ orders'[id].executed \in Nat
      /\ orders[id].status = "none" => orders[id].executed = 0
  BY <1>1 DEF OrderType, BooksInv
<1>3. CASE orders'[id] = orders[id]
  BY <1>2, <1>3
<1>4. ASSUME NEW j \in Ids, VenueExecutes(j), orders'[id] # orders[id]
      PROVE  orders[id].executed <= orders'[id].executed /\ orders'[id].status # "none"
  <2>1. PICK n \in 1..(orders[j].size - orders[j].executed): \E f \in FeesOf(j, n):
           orders' = [orders EXCEPT ![j] = Executed(orders[j], n, f)]
    BY <1>1, <1>4, Zenon DEF VenueExecutes
  <2>2. PICK f \in FeesOf(j, n): orders' = [orders EXCEPT ![j] = Executed(orders[j], n, f)]
    BY <2>1, Zenon
  <2>3. j = id /\ orders'[id] = Executed(orders[id], n, f)
    BY <1>1, <1>4, <2>2
  <2>4. /\ Executed(orders[id], n, f).executed = orders[id].executed + n
        /\ Executed(orders[id], n, f).status # "none"
    BY DEF Executed
  <2>5. n \in Nat
    BY <1>1, <2>1 DEF OrderType
  <2> QED  BY <1>2, <2>3, <2>4, <2>5
<1>5. ASSUME NEW j \in Ids, VenueCloses(j), orders'[id] # orders[id]
      PROVE  orders[id].executed <= orders'[id].executed /\ orders'[id].status # "none"
  <2>1. PICK s \in {"canceled", "expired"}: orders' = [orders EXCEPT ![j].status = s]
    BY <1>5, Zenon DEF VenueCloses
  <2>2. orders'[id] = [orders[id] EXCEPT !.status = s]
    BY <1>1, <1>5, <2>1
  <2>3. orders'[id].executed = orders[id].executed /\ orders'[id].status = s
    BY <1>1, <2>2 DEF OrderType
  <2> QED  BY <1>2, <2>3
<1>6. ASSUME NEW j \in Ids, PostAccepted(j), orders'[id] # orders[id]
      PROVE  orders[id].executed <= orders'[id].executed /\ orders'[id].status # "none"
  <2>1. PICK o: orders' = [orders EXCEPT ![j] = o] /\ o.status # "none"
    BY <1>6, PostedOrder
  <2>2. j = id /\ orders'[id] = o
    BY <1>1, <1>6, <2>1
  <2>3. orders[id].executed = 0
    BY <1>2, <1>6, <2>2 DEF Inv, PostsOnce, PostAccepted
  <2> QED  BY <1>2, <2>1, <2>2, <2>3
<1>7. \/ UNCHANGED orders
      \/ \E j \in Ids: VenueExecutes(j) \/ VenueCloses(j) \/ PostAccepted(j)
  BY DEF Next, vars, Call, RefusedLocally, PostRefused, Decide, PollStatus, ReadNext,
         SnapshotOver
<1> QED  BY <1>2, <1>3, <1>4, <1>5, <1>6, <1>7

(* What a request of the snapshot may read: positions that were executed, and last the
   cash, as it is then. *)
LEMMA BooksRead ==
    ASSUME Inv, BooksInv, ReadNext, NEW id \in Ids
    PROVE  /\ snap'.positions[id] <= orders[id].executed
           /\ IsComplete(snap)' => snap'.positions[id] <= snap'.balances[id]
<1>1. snap \in SnapshotType /\ snap' \in SnapshotType
  BY ReadStep DEF Inv, Types
<1>2. /\ orders[id] \in OrderType /\ orders[id].fee <= orders[id].executed
      /\ PositionsNow[id] = orders[id].executed - orders[id].fee
      /\ BalancesNow[id] = orders[id].executed
  BY DEF Inv, Types, PositionsNow, BalancesNow, Received
<1>3. PositionsNow[id] <= orders[id].executed
  BY <1>2 DEF OrderType
<1> DEFINE s == IF snap.read = 0 THEN [NoSnapshot EXCEPT !.known = {j \in Ids: IsPlaced(j)}]
                ELSE snap
           req == Requests[snap.read + 1]
<1>0. PICK listed \in Listings: snap' = [Answered(s, req, listed) EXCEPT !.read = @ + 1]
  BY DEF ReadNext
<1> DEFINE a == Answered(s, req, listed)
<1>4. snap' = [a EXCEPT !.read = @ + 1]
  BY <1>0
<1>5. /\ s \in SnapshotType /\ s.read = snap.read
      /\ s.positions[id] <= orders[id].executed
  <2>1. CASE snap.read = 0
    <3>1. s = [NoSnapshot EXCEPT !.known = {j \in Ids: IsPlaced(j)}]
      BY <2>1
    <3> DEFINE P == {j \in Ids: IsPlaced(j)}
               Z == [j \in Ids |-> 0]
    <3> P \in SUBSET Ids /\ Z \in [Ids -> Int] /\ Z[id] = 0
      OBVIOUS
    <3>2. s = [read |-> 0, known |-> P, open |-> {}, unlisted |-> {}, positions |-> Z,
               balances |-> Z]
      BY <3>1, Zenon DEF NoSnapshot
    <3> HIDE DEF P, Z, s
    <3>3. s \in SnapshotType /\ s.read = 0 /\ s.positions = Z
      BY <3>2 DEF SnapshotType
    <3> QED  BY <1>2, <2>1, <3>3 DEF OrderType
  <2>2. CASE snap.read # 0
    BY <1>1, <2>2 DEF BooksInv
  <2> QED  BY <2>1, <2>2
<1> HIDE DEF s
<1>6. snap.read < Len(Requests) /\ snap.read \in Nat
  BY <1>1, RequestsLength DEF Inv, Types, ReadNext, IsComplete, SnapshotType
<1>7. req \in {"orders", "positions", "account"} /\ (req # "account" => snap.read + 1 < Len(Requests))
  <2>1. CASE Venue = "alpaca"
    BY <1>6, <2>1, RequestsLength DEF Requests
  <2>2. CASE Venue = "binance"
    BY <1>6, <2>2, RequestsLength DEF Requests
  <2> QED  BY <2>1, <2>2, OrdersAssumption
<1> HIDE DEF req
<1>8. /\ a \in [read: Nat, known: SUBSET Ids, open: SUBSET Ids, unlisted: SUBSET Ids,
                positions: {s.positions, PositionsNow}, balances: {s.balances, BalancesNow}]
      /\ a.read = s.read
      /\ req = "account" => a.balances = BalancesNow
  <2>1. CASE req = "orders"
    <3> DEFINE w == OpenNow \ listed
    <3>1. listed \in SUBSET Ids /\ w \in SUBSET Ids
      BY DEF Listings, OpenNow
    <3>2. a = [s EXCEPT !.open = listed, !.unlisted = w]
      BY <2>1 DEF Answered
    <3> HIDE DEF a, w
    <3> QED  BY <1>5, <2>1, <3>1, <3>2, Zenon DEF SnapshotType
  <2>2. CASE req = "positions"
    BY <1>5, <2>2, Zenon DEF Answered, SnapshotType
  <2>3. CASE req = "account"
    BY <1>5, <2>3, Zenon DEF Answered, SnapshotType
  <2> QED  BY <1>7, <2>1, <2>2, <2>3
<1> HIDE DEF a
<1>9. /\ snap'.read = snap.read + 1
      /\ snap'.positions \in {s.positions, PositionsNow} /\ snap'.balances = a.balances
  BY <1>4, <1>5, <1>8
<1>10. snap'.positions[id] <= orders[id].executed
  BY <1>3, <1>5, <1>9
<1>11. ASSUME IsComplete(snap)' PROVE snap'.positions[id] <= snap'.balances[id]
  <2>1. req = "account"
    BY <1>6, <1>7, <1>9, <1>11, RequestsLength DEF IsComplete
  <2> QED  BY <1>2, <1>8, <1>9, <1>10, <2>1
<1> QED  BY <1>10, <1>11

(* Every step of the calls, the venue and the snapshot keeps the books. *)
LEMMA BooksNext == Inv /\ BooksInv /\ [Next]_vars => BooksInv'
<1> SUFFICES ASSUME Inv, BooksInv, [Next]_vars, NEW id \in Ids
             PROVE  /\ orders'[id].status = "none" => orders'[id].executed = 0
                    /\ snap'.positions[id] <= orders'[id].executed
                    /\ IsComplete(snap)' => snap'.positions[id] <= snap'.balances[id]
  BY DEF BooksInv
<1>1. /\ orders[id].executed <= orders'[id].executed
      /\ orders'[id].status = "none" => orders'[id].executed = 0
  BY ExecutionsStay
<1>2. /\ orders[id].executed \in Nat /\ orders'[id].executed \in Nat
      /\ snap.positions[id] \in Int /\ snap'.positions[id] \in Int
  BY InvNext DEF Inv, Types, OrderType, SnapshotType
<1>3. CASE UNCHANGED snap
  BY <1>1, <1>2, <1>3 DEF BooksInv, IsComplete
<1>4. CASE ReadNext
  BY <1>1, <1>2, <1>4, BooksRead
<1>5. CASE SnapshotOver
  <2>1. snap'.positions[id] = 0 /\ snap'.read = 0
    BY <1>5 DEF SnapshotOver, NoSnapshot
  <2> QED  BY <1>1, <1>2, <2>1, RequestsLength DEF IsComplete
<1>6. UNCHANGED snap \/ ReadNext \/ SnapshotOver
  BY ZenonT(30)
     DEF Next, vars, Call, RefusedLocally, PostRefused, PostAccepted, Decide, PollStatus,
         VenueExecutes, VenueCloses
<1> QED  BY <1>3, <1>4, <1>5, <1>6

(* No purchase is counted twice: what a complete snapshot of fetch_remote_snapshot
   shows as bought is gone from the cash it shows, because the account is asked for
   last. *)
THEOREM PurchaseCountedOnce == Spec => []PurchaseIsCountedOnce
<1>1. Init => BooksInv
  <2> SUFFICES ASSUME Init, NEW id \in Ids
               PROVE  orders[id].executed = 0 /\ snap.positions[id] = 0 /\ snap.balances[id] = 0
    BY DEF BooksInv
  <2> QED  BY DEF Init, Unplaced, NoSnapshot
<1>2. Inv /\ BooksInv => PurchaseIsCountedOnce
  <2> SUFFICES ASSUME Inv, BooksInv, IsComplete(snap), NEW id \in Ids
               PROVE  snap.balances[id] >= snap.positions[id]
    BY DEF PurchaseIsCountedOnce
  <2>1. snap.positions[id] <= snap.balances[id]
    BY DEF BooksInv
  <2>2. snap.positions[id] \in Int /\ snap.balances[id] \in Int
    BY DEF Inv, Types, SnapshotType
  <2> QED  BY <2>1, <2>2
<1> QED BY InvInit, InvNext, BooksNext, <1>1, <1>2, PTL DEF Spec

-----------------------------------------------------------------------------
(***************************************************************************)
(* Strengthens AcceptedAtOnceIsReceived: the answer to a post lists the    *)
(* whole commission, and where the answer lists none there is none.        *)
(***************************************************************************)
NoBaseFee(id) == Side[id] = "sell" \/ Venue = "alpaca"

FullAnswer(id) == Venue = "binance" => calls[id].payload.fills = orders[id].fee

AtOnceInv ==
    /\ \A id \in Ids:
          /\ NoBaseFee(id) => orders[id].fee = 0
          /\ calls[id].attempt = 0 /\ calls[id].payload.status \in ClosedStatuses => FullAnswer(id)
    /\ AcceptedAtOnceIsReceived

(* A commission in the bought asset is charged on Binance's purchases only. *)
LEMMA FeesOfSales ==
    ASSUME Venue = "alpaca" => BaseFees \subseteq {0}, NEW id \in Ids, NoBaseFee(id), NEW n \in Nat,
           NEW f \in FeesOf(id, n)
    PROVE  f = 0
BY DEF FeesOf, NoBaseFee

(* Executing adds the fee of the fill. *)
LEMMA ExecutedFee ==
    ASSUME NEW o, NEW n, NEW f
    PROVE  /\ Executed(o, n, f).fee = o.fee + f
           /\ [Executed(o, n, f) EXCEPT !.status = "rejected"].fee = o.fee + f
BY DEF Executed

(* What a post leaves: an order whose fees are those of its fills, and the answer about
   it, or a failed call (PostAccepted). *)
LEMMA PostedFees ==
    ASSUME Inv, Venue = "alpaca" => BaseFees \subseteq {0}, NEW id \in Ids, PostAccepted(id)
    PROVE  \E o \in OrderType:
              /\ orders' = [orders EXCEPT ![id] = o]
              /\ NoBaseFee(id) => o.fee = 0
              /\ Answer(id, 0, SubmitPayload(o)) \/ Return(id, Failed)
<1> DEFINE placed == [Unplaced EXCEPT !.size = FormatQuantity(calls[id].request)]
<1>1. PICK n \in 0..placed.size: \E f \in FeesOf(id, n), rejected \in BOOLEAN:
        LET o == Executed(placed, n, f)
            order == IF rejected /\ n = 0 THEN [o EXCEPT !.status = "rejected"] ELSE o
        IN  /\ orders' = [orders EXCEPT ![id] = order]
            /\ Answer(id, 0, SubmitPayload(order)) \/ Return(id, Failed)
  BY Zenon DEF PostAccepted
<1>2. PICK f \in FeesOf(id, n), rejected \in BOOLEAN:
        LET o == Executed(placed, n, f)
            order == IF rejected /\ n = 0 THEN [o EXCEPT !.status = "rejected"] ELSE o
        IN  /\ orders' = [orders EXCEPT ![id] = order]
            /\ Answer(id, 0, SubmitPayload(order)) \/ Return(id, Failed)
  BY <1>1, Zenon
<1>3. placed.fee = 0 /\ placed.size = FormatQuantity(calls[id].request)
  BY DEF Unplaced
<1> HIDE DEF placed
<1> DEFINE o == Executed(placed, n, f)
           order == IF rejected /\ n = 0 THEN [o EXCEPT !.status = "rejected"] ELSE o
<1>4. /\ orders' = [orders EXCEPT ![id] = order]
      /\ Answer(id, 0, SubmitPayload(order)) \/ Return(id, Failed)
  BY <1>2
<1>5. order.fee = 0 + f
  BY <1>3, ExecutedFee
<1> HIDE DEF order
<1>6. order \in OrderType
  <2>1. orders \in [Ids -> OrderType] /\ orders' \in [Ids -> OrderType]
    BY PostStep DEF Inv, Types
  <2> QED  BY <1>4, <2>1
<1>7. n \in Nat
  <2>1. calls[id].request \in Nat
    BY DEF Inv, Types, CallType
  <2>2. placed.size \in Nat
    BY <1>3, <2>1, OrdersAssumption DEF FormatQuantity
  <2> QED  BY <2>2
<1>8. NoBaseFee(id) => order.fee = 0
  BY <1>5, <1>7, FeesOfSales
<1> QED  BY <1>4, <1>6, <1>8, ZenonT(30)

(* The commission of an order without one stays nothing. *)
LEMMA FeesStay ==
    ASSUME Inv, AtOnceInv, Venue = "alpaca" => BaseFees \subseteq {0}, [Next]_vars,
           NEW id \in Ids, NoBaseFee(id)
    PROVE  orders'[id].fee = 0
<1>1. orders \in [Ids -> OrderType] /\ orders[id].fee = 0
  BY DEF Inv, Types, AtOnceInv
<1>2. CASE orders'[id] = orders[id]
  BY <1>1, <1>2
<1>3. ASSUME NEW j \in Ids, VenueExecutes(j), orders'[id] # orders[id] PROVE orders'[id].fee = 0
  <2>1. PICK n \in 1..(orders[j].size - orders[j].executed): \E f \in FeesOf(j, n):
           orders' = [orders EXCEPT ![j] = Executed(orders[j], n, f)]
    BY <1>1, <1>3, Zenon DEF VenueExecutes
  <2>2. PICK f \in FeesOf(j, n): orders' = [orders EXCEPT ![j] = Executed(orders[j], n, f)]
    BY <2>1, Zenon
  <2>3. j = id /\ orders'[id] = Executed(orders[id], n, f)
    BY <1>1, <1>3, <2>2
  <2>4. n \in Nat
    BY <1>1, <2>1 DEF OrderType
  <2>5. f = 0
    BY <2>3, <2>4, FeesOfSales
  <2> QED  BY <1>1, <2>3, <2>5, ExecutedFee
<1>4. ASSUME NEW j \in Ids, VenueCloses(j), orders'[id] # orders[id] PROVE orders'[id].fee = 0
  <2>1. PICK s \in {"canceled", "expired"}: orders' = [orders EXCEPT ![j].status = s]
    BY <1>4, Zenon DEF VenueCloses
  <2>2. orders'[id] = [orders[id] EXCEPT !.status = s]
    BY <1>1, <1>4, <2>1
  <2> QED  BY <1>1, <2>2 DEF OrderType
<1>5. ASSUME NEW j \in Ids, PostAccepted(j), orders'[id] # orders[id] PROVE orders'[id].fee = 0
  <2>1. PICK o \in OrderType: /\ orders' = [orders EXCEPT ![j] = o]
                              /\ NoBaseFee(j) => o.fee = 0
    BY <1>5, PostedFees
  <2> QED  BY <1>1, <1>5, <2>1
<1>6. \/ UNCHANGED orders
      \/ \E j \in Ids: VenueExecutes(j) \/ VenueCloses(j) \/ PostAccepted(j)
  BY DEF Next, vars, Call, RefusedLocally, PostRefused, Decide, PollStatus, ReadNext,
         SnapshotOver
<1> QED  BY <1>2, <1>3, <1>4, <1>5, <1>6

(* A closed order stays as it is. *)
LEMMA ClosedStays ==
    ASSUME Inv, [Next]_vars, NEW id \in Ids, IsClosed(id)
    PROVE  orders'[id] = orders[id]
<1>1. ASSUME NEW j \in Ids, VenueExecutes(j) \/ VenueCloses(j) PROVE orders'[id] = orders[id]
  BY <1>1, VenueStep DEF OrdersOnlyGrow
<1>2. ASSUME NEW j \in Ids, PostAccepted(j) PROVE orders'[id] = orders[id]
  <2>1. PICK o: orders' = [orders EXCEPT ![j] = o]
    BY <1>2, PostedOrder
  <2>2. j # id
    BY <1>2 DEF Inv, PostsOnce, PostAccepted, IsClosed, ClosedStatuses
  <2>3. orders \in [Ids -> OrderType]
    BY DEF Inv, Types
  <2> QED  BY <2>1, <2>2, <2>3
<1>3. \/ UNCHANGED orders
      \/ \E j \in Ids: VenueExecutes(j) \/ VenueCloses(j) \/ PostAccepted(j)
  BY DEF Next, vars, Call, RefusedLocally, PostRefused, Decide, PollStatus, ReadNext,
         SnapshotOver
<1> QED  BY <1>1, <1>2, <1>3

(* The attempt and the answer of a call that returns or answers. *)
LEMMA CallAttempts ==
    ASSUME Inv, NEW id \in Ids
    PROVE  /\ \A r: Return(id, r) => /\ calls'[id].attempt = calls[id].attempt
                                    /\ calls'[id].payload = calls[id].payload
                                    /\ calls'[id].result = r
           /\ \A a, p: Answer(id, a, p) => /\ calls'[id].attempt = a /\ calls'[id].payload = p
                                          /\ calls'[id].pc = "decide"
<1>1. calls \in [Ids -> CallType] /\ calls[id] \in CallType
  BY DEF Inv, Types
<1>2. ASSUME NEW r, Return(id, r)
      PROVE  /\ calls'[id].attempt = calls[id].attempt
             /\ calls'[id].payload = calls[id].payload /\ calls'[id].result = r
  <2>1. calls'[id] = [calls[id] EXCEPT !.pc = "done", !.result = r]
    BY <1>1, <1>2 DEF Return
  <2> QED  BY <1>1, <2>1, Zenon DEF CallType
<1>3. ASSUME NEW a, NEW p, Answer(id, a, p)
      PROVE  /\ calls'[id].attempt = a /\ calls'[id].payload = p /\ calls'[id].pc = "decide"
  <2>1. calls'[id] = [calls[id] EXCEPT !.pc = "decide", !.attempt = a, !.payload = p]
    BY <1>1, <1>3 DEF Answer
  <2> QED  BY <1>1, <2>1, Zenon DEF CallType
<1> QED  BY <1>2, <1>3

(* What a call does in a step: it waits, fails, looks at the answer to its post or to a
   poll, begins a poll, or succeeds. *)
LEMMA CallMoves ==
    ASSUME Inv, [Next]_vars, NEW id \in Ids
    PROVE  \/ calls'[id] = calls[id]
           \/ Return(id, Failed)
           \/ PostAccepted(id) /\ ~Return(id, Failed)
           \/ Answer(id, calls[id].attempt + 1, StatusPayload(orders[id]))
           \/ calls' = [calls EXCEPT ![id].pc = "poll"]
           \/ LET q == AcceptedQuantity(calls[id].payload, Side[id])
              IN  IsTerminal(calls[id].payload) /\ q > 0 /\ Return(id, Accepted(q))
<1>1. calls \in [Ids -> CallType]
  BY DEF Inv, Types
<1>2. ASSUME NEW j \in Ids, Call(j), j # id PROVE calls'[id] = calls[id]
  <2>1. \/ \E c: calls' = [calls EXCEPT ![j] = c]
        \/ calls' = [calls EXCEPT ![j].pc = "poll"]
    BY <1>2, Zenon DEF Call, RefusedLocally, PostRefused, PostAccepted, Decide, PollStatus, Return,
                   Answer
  <2> QED  BY <1>1, <1>2, <2>1
<1>3. CASE Call(id)
  BY <1>3, Zenon DEF Call, RefusedLocally, PostRefused, Decide, PollStatus
<1>4. (\E j \in Ids: Call(j)) \/ UNCHANGED calls
  BY DEF Next, vars, VenueExecutes, VenueCloses, ReadNext, SnapshotOver
<1> QED  BY <1>2, <1>3, <1>4

(* The quantity reported of a closed order whose fills are all listed is what the
   account received (net_quantity_from_binance_payload). *)
LEMMA FullAnswerIsReceived ==
    ASSUME NEW p \in PayloadType, NEW o \in OrderType, NEW side \in {"buy", "sell"},
           Venue = "binance" => p.fills = o.fee, p.executed = o.executed,
           side = "sell" \/ Venue = "alpaca" => o.fee = 0,
           AcceptedQuantity(p, side) > 0
    PROVE  AcceptedQuantity(p, side) = o.executed - o.fee
<1>1. o.executed \in Nat /\ o.fee \in Nat /\ p.executed \in Nat /\ p.fills \in Nat
  BY DEF PayloadType, OrderType
<1>2. CASE Venue = "alpaca"
  <2>1. AcceptedQuantity(p, side) = p.executed /\ o.fee = 0
    BY <1>2 DEF AcceptedQuantity, AlpacaQuantity
  <2> QED  BY <1>1, <2>1
<1>3. CASE Venue = "binance" /\ side = "sell"
  <2>1. AcceptedQuantity(p, side) = p.executed /\ o.fee = 0
    BY <1>3 DEF AcceptedQuantity, BinanceNetQuantity
  <2> QED  BY <1>1, <2>1
<1>4. CASE Venue = "binance" /\ side = "buy"
  BY <1>1, <1>4 DEF AcceptedQuantity, BinanceNetQuantity
<1> QED  BY <1>2, <1>3, <1>4, OrdersAssumption

(* Every step keeps the answers to the posts full. *)
LEMMA AtOnceNext ==
    (Venue = "alpaca" => BaseFees \subseteq {0}) /\ Inv /\ AtOnceInv /\ [Next]_vars => AtOnceInv'
<1> SUFFICES ASSUME Venue = "alpaca" => BaseFees \subseteq {0}, Inv, AtOnceInv, [Next]_vars
             PROVE  AtOnceInv'
  OBVIOUS
<1>0. /\ Inv' /\ orders \in [Ids -> OrderType] /\ orders' \in [Ids -> OrderType]
      /\ calls \in [Ids -> CallType] /\ calls' \in [Ids -> CallType]
  BY InvNext DEF Inv, Types
<1>1. ASSUME NEW id \in Ids, NoBaseFee(id) PROVE orders'[id].fee = 0
  BY <1>1, FeesStay
<1>2. ASSUME NEW id \in Ids, calls'[id].attempt = calls[id].attempt,
             calls'[id].payload = calls[id].payload, calls'[id].attempt = 0,
             calls'[id].payload.status \in ClosedStatuses
      PROVE  FullAnswer(id)'
  <2>1. FullAnswer(id) /\ orders'[id] = orders[id]
    BY <1>2, ClosedStays, ZenonT(30) DEF AtOnceInv, Inv, AnswersAreFinal
  <2> QED  BY <1>2, <2>1 DEF FullAnswer
<1>3. ASSUME NEW id \in Ids
      PROVE  /\ calls'[id].attempt = 0 /\ calls'[id].payload.status \in ClosedStatuses =>
                    FullAnswer(id)'
             /\ Running(id, "done")' /\ calls'[id].result.ok /\ calls'[id].attempt = 0 =>
                    calls'[id].result.quantity = Received(id)'
  <2>1. CASE calls'[id] = calls[id]
    <3>1. ASSUME Running(id, "done"), calls[id].result.ok, calls[id].attempt = 0
          PROVE  calls[id].result.quantity = Received(id)'
      <4>1. orders'[id] = orders[id]
        BY <3>1, ClosedStays DEF Inv, AcceptedOrderIsFinal, IsClosed
      <4> QED  BY <3>1, <4>1 DEF AtOnceInv, AcceptedAtOnceIsReceived, Received
    <3> QED  BY <1>2, <2>1, <3>1 DEF Running
  <2>2. CASE Return(id, Failed)
    <3>1. ~calls'[id].result.ok
      BY <2>2, CallAttempts DEF Failed
    <3> QED  BY <1>2, <2>2, <3>1, CallAttempts
  <2>3. CASE PostAccepted(id) /\ ~Return(id, Failed)
    <3>1. PICK o \in OrderType: /\ orders' = [orders EXCEPT ![id] = o]
                                /\ Answer(id, 0, SubmitPayload(o))
      BY <2>3, PostedFees
    <3>2. orders'[id] = o /\ calls'[id].payload = SubmitPayload(o) /\ calls'[id].pc = "decide"
      BY <1>0, <3>1, CallAttempts
    <3>3. Venue = "binance" => SubmitPayload(o).fills = o.fee
      BY DEF SubmitPayload
    <3> QED  BY <3>2, <3>3 DEF FullAnswer, Running
  <2>4. CASE Answer(id, calls[id].attempt + 1, StatusPayload(orders[id]))
    <3>1. calls'[id].attempt = calls[id].attempt + 1 /\ calls[id].attempt \in Nat
      BY <1>0, <2>4, CallAttempts DEF CallType
    <3> QED  BY <3>1
  <2>5. CASE calls' = [calls EXCEPT ![id].pc = "poll"]
    <3>1. /\ calls'[id].attempt = calls[id].attempt /\ calls'[id].payload = calls[id].payload
          /\ calls'[id].pc = "poll"
      BY <1>0, <2>5 DEF CallType
    <3> QED  BY <1>2, <3>1 DEF Running
  <2> DEFINE p == calls[id].payload
             q == AcceptedQuantity(p, Side[id])
  <2>6. CASE IsTerminal(p) /\ q > 0 /\ Return(id, Accepted(q))
    <3>1. /\ calls'[id].attempt = calls[id].attempt /\ calls'[id].payload = p
          /\ calls'[id].result = Accepted(q)
      BY <2>6, CallAttempts
    <3>2. p \in PayloadType /\ orders[id] \in OrderType /\ Side[id] \in {"buy", "sell"}
      BY <1>0, OrdersAssumption DEF CallType
    <3>3. IsClosed(id) /\ p.executed = orders[id].executed /\ p.status \in ClosedStatuses
      BY <2>6, <3>2, TerminalIsClosed DEF Inv, AnswersAreFinal
    <3>4. orders'[id] = orders[id]
      BY <3>3, ClosedStays
    <3>5. ASSUME calls[id].attempt = 0 PROVE q = orders[id].executed - orders[id].fee
      <4>1. Venue = "binance" => p.fills = orders[id].fee
        BY <3>3, <3>5 DEF AtOnceInv, FullAnswer
      <4>2. Side[id] = "sell" \/ Venue = "alpaca" => orders[id].fee = 0
        BY DEF AtOnceInv, NoBaseFee
      <4> HIDE DEF p
      <4> QED  BY <2>6, <3>2, <3>3, <4>1, <4>2, FullAnswerIsReceived
    <3>6. Accepted(q).quantity = q
      BY DEF Accepted
    <3> HIDE DEF q, p
    <3> QED  BY <1>2, <3>1, <3>4, <3>5, <3>6 DEF Received, p
  <2> QED  BY <2>1, <2>2, <2>3, <2>4, <2>5, <2>6, CallMoves
<1>4. AcceptedAtOnceIsReceived'
  BY <1>3 DEF AcceptedAtOnceIsReceived
<1>5. \A id \in Ids: NoBaseFee(id)' => orders'[id].fee = 0
  BY <1>1 DEF NoBaseFee
<1> QED  BY <1>3, <1>4, <1>5 DEF AtOnceInv

(* A call answered by the post itself reports exactly what the account received: on
   Binance the commission charged in the bought asset is taken off, and Alpaca charges
   none. *)
THEOREM AtOnceIsReceived ==
    (Venue = "alpaca" => BaseFees \subseteq {0}) => (Spec => []AcceptedAtOnceIsReceived)
<1> SUFFICES ASSUME Venue = "alpaca" => BaseFees \subseteq {0}
             PROVE  Spec => []AcceptedAtOnceIsReceived
  OBVIOUS
<1>1. Init => AtOnceInv
  <2> SUFFICES ASSUME Init PROVE AtOnceInv
    OBVIOUS
  <2>1. \A id \in Ids: /\ orders[id].fee = 0 /\ calls[id].pc = "submit"
                       /\ calls[id].payload.status = "none"
    BY DEF Init, Unplaced, NoPayload
  <2> QED  BY <2>1 DEF AtOnceInv, AcceptedAtOnceIsReceived, Running, ClosedStatuses
<1>2. AtOnceInv => AcceptedAtOnceIsReceived
  BY DEF AtOnceInv
<1>3. Inv /\ AtOnceInv /\ [Next]_vars => AtOnceInv'
  BY AtOnceNext
<1> QED BY InvInit, InvNext, <1>1, <1>2, <1>3, PTL DEF Spec

-----------------------------------------------------------------------------
(***************************************************************************)
(* The clients of the exchanges.  Held are the points at which a thread    *)
(* has the registry locked.                                                *)
(***************************************************************************)
Held == {"reset", "disconnect", "note"}
Points == {"ensure", "resolve", "handle", "call", "limited"} \union Held

ClientState == [failures : Nat, lastDisconnect : Int, nextReconnect : Int, throttledUntil : Int]

Caller(x) ==
    /\ x = [pc |-> x.pc, op |-> x.op, account |-> x.account, at |-> x.at,
            window |-> x.window]
    /\ x.pc \in Points /\ x.account \in Accounts
    /\ x.pc \in {"limited", "note"} => x.window \in Nat
    /\ x.pc \in {"note", "disconnect"} => x.at \in Nat

Backoffs(c) ==
    /\ c.failures = 0 <=> c.nextReconnect = Gate!Never
    /\ c.failures > 0 => /\ c.lastDisconnect \in Nat
                         /\ c.nextReconnect - c.lastDisconnect \in BaseBackoff .. MaxBackoff

(***************************************************************************)
(* Strengthens ThrottleIsKept: who changes a client holds the registry, so *)
(* that what a readiness check found is still true when it resets the      *)
(* client.                                                                 *)
(***************************************************************************)
GateInv ==
    /\ now \in Nat
    /\ client \in [Accounts -> ClientState]
    /\ th = [t \in Threads |-> th[t]]
    /\ \A t \in Threads :
          /\ th[t] = Gate!Idle \/ Caller(th[t])
          /\ th[t].pc \in Held => registry = t
          /\ th[t].pc = "reset" => client[th[t].account].throttledUntil <= now
    /\ \A a \in Accounts : Backoffs(client[a])

LEMMA SmallPowers == \A k \in 0 .. 15 : 2 ^ k \in Nat \ {0}
<1> DEFINE Power(k) == 2 ^ k
<1>1. /\ Power(0) = 1 /\ Power(1) = 2 /\ Power(2) = 4 /\ Power(3) = 8 /\ Power(4) = 16
      /\ Power(5) = 32 /\ Power(6) = 64 /\ Power(7) = 128
  OBVIOUS
<1>2. /\ Power(8) = 256 /\ Power(9) = 512 /\ Power(10) = 1024 /\ Power(11) = 2048
      /\ Power(12) = 4096 /\ Power(13) = 8192 /\ Power(14) = 16384 /\ Power(15) = 32768
  OBVIOUS
<1> HIDE DEF Power
<1>3. \A k \in 0 .. 15 : Power(k) \in Nat \ {0}
  BY <1>1, <1>2
<1> QED  BY <1>3, ZenonT(30) DEF Power

LEMMA MinOfTwo ==
    ASSUME NEW a \in Int, NEW b \in Int
    PROVE  Gate!Min({a, b}) = IF a <= b THEN a ELSE b
<1>1. \E x \in {a, b} : \A y \in {a, b} : x <= y
  OBVIOUS
<1> QED  BY <1>1 DEF Gate!Min

LEMMA AtLeastOnce ==
    ASSUME NEW a \in Nat \ {0}, NEW p \in Nat \ {0} PROVE a * p \in Nat /\ a * p >= a
  BY SMTT(60)

LEMMA JitterAdds == ASSUME NEW a \in Nat, NEW b \in Nat PROVE (a * b) \div 100 \in Nat
  OBVIOUS

\* reconnect_delay_ms stays between the base and the largest backoff.
LEMMA DelayIsBounded ==
    ASSUME Gate!ConstantsOK, NEW failures \in Nat \ {0}
    PROVE  Gate!ReconnectDelay(failures) \in BaseBackoff .. MaxBackoff
<1> DEFINE k == Gate!Min({failures, 16}) - 1
           p == 2 ^ k
           raw == Gate!Min({BaseBackoff * p, MaxBackoff})
           extra == (raw * Jitter) \div 100
<1>1. k \in 0 .. 15
  BY MinOfTwo
<1>2. p \in Nat \ {0}
  BY <1>1, SmallPowers, ZenonT(30)
<1> HIDE DEF p
<1>3. /\ BaseBackoff \in Nat \ {0} /\ MaxBackoff \in Nat /\ BaseBackoff <= MaxBackoff
      /\ Jitter \in Nat
  BY DEF Gate!ConstantsOK
<1>4. BaseBackoff * p \in Nat /\ BaseBackoff * p >= BaseBackoff
  BY <1>2, <1>3, AtLeastOnce
<1>5. raw \in BaseBackoff .. MaxBackoff /\ raw \in Nat
  BY <1>3, <1>4, MinOfTwo
<1> HIDE DEF raw
<1>6. extra \in Nat
  BY <1>3, <1>5, JitterAdds
<1> HIDE DEF extra
<1>7. Gate!Min({raw + extra, MaxBackoff}) \in BaseBackoff .. MaxBackoff
  BY <1>3, <1>5, <1>6, MinOfTwo
<1> QED  BY <1>7 DEF Gate!ReconnectDelay, extra, raw, p

LEMMA SetCaller ==
    ASSUME th = [t \in Threads |-> th[t]], NEW t \in Threads, NEW x,
           th' = [th EXCEPT ![t] = x]
    PROVE  /\ th' = [u \in Threads |-> th'[u]]
           /\ th'[t] = x
           /\ \A u \in Threads \ {t} : th'[u] = th[u]
  OBVIOUS

\* A thread goes on without the registry.
LEMMA Proceeds ==
    ASSUME GateInv, NEW t \in Threads, NEW x, th' = [th EXCEPT ![t] = x],
           x = Gate!Idle \/ Caller(x), x.pc \notin Held,
           UNCHANGED <<now, registry, client>>
    PROVE  GateInv'
<1>1. /\ th' = [u \in Threads |-> th'[u]]
      /\ th'[t] = x
      /\ \A u \in Threads \ {t} : th'[u] = th[u]
  BY SetCaller DEF GateInv
<1>2. ASSUME NEW u \in Threads
      PROVE  /\ th'[u] = Gate!Idle \/ Caller(th'[u])
             /\ th'[u].pc \in Held => registry' = u
             /\ th'[u].pc = "reset" => client'[th'[u].account].throttledUntil <= now'
  <2>1. CASE u = t
    BY <1>1, <2>1 DEF Held
  <2>2. CASE u # t
    BY <1>1, <2>2 DEF GateInv
  <2> QED  BY <2>1, <2>2
<1>3. now' \in Nat /\ client' \in [Accounts -> ClientState]
      /\ \A a \in Accounts : Backoffs(client'[a])
  BY DEF GateInv
<1> QED  BY <1>1, <1>2, <1>3, Zenon DEF GateInv, Caller, Backoffs, Gate!Idle, Gate!Never

\* A thread takes the registry.
LEMMA TakesRegistry ==
    ASSUME Gate!ConstantsOK, GateInv, NEW t \in Threads, NEW x, th' = [th EXCEPT ![t] = x],
           Caller(x), registry = Gate!Nobody, registry' = t,
           x.pc = "reset" => client[x.account].throttledUntil <= now,
           UNCHANGED <<now, client>>
    PROVE  GateInv'
<1>1. /\ th' = [u \in Threads |-> th'[u]]
      /\ th'[t] = x
      /\ \A u \in Threads \ {t} : th'[u] = th[u]
  BY SetCaller DEF GateInv
<1>2. ASSUME NEW u \in Threads
      PROVE  /\ th'[u] = Gate!Idle \/ Caller(th'[u])
             /\ th'[u].pc \in Held => registry' = u
             /\ th'[u].pc = "reset" => client'[th'[u].account].throttledUntil <= now'
  <2>1. CASE u = t
    BY <1>1, <2>1
  <2>2. CASE u # t
    <3>1. th[u].pc \notin Held
      BY DEF GateInv, Gate!ConstantsOK
    <3> QED  BY <1>1, <2>2, <3>1 DEF GateInv, Held
  <2> QED  BY <2>1, <2>2
<1>3. now' \in Nat /\ client' \in [Accounts -> ClientState]
      /\ \A a \in Accounts : Backoffs(client'[a])
  BY DEF GateInv
<1> QED  BY <1>1, <1>2, <1>3, Zenon DEF GateInv, Caller, Backoffs, Gate!Idle, Gate!Never

\* The holder of the registry changes a client and lets the registry go.
LEMMA ChangesClient ==
    ASSUME GateInv, NEW t \in Threads, NEW x, th' = [th EXCEPT ![t] = x],
           x = Gate!Idle \/ Caller(x), x.pc \notin Held,
           th[t].pc \in Held, NEW a \in Accounts, NEW c \in ClientState, Backoffs(c),
           client' = [client EXCEPT ![a] = c], UNCHANGED now
    PROVE  GateInv'
<1>1. /\ th' = [u \in Threads |-> th'[u]]
      /\ th'[t] = x
      /\ \A u \in Threads \ {t} : th'[u] = th[u]
  BY SetCaller DEF GateInv
<1>2. ASSUME NEW u \in Threads
      PROVE  (th'[u] = Gate!Idle \/ Caller(th'[u])) /\ th'[u].pc \notin Held
  <2>1. CASE u = t
    BY <1>1, <2>1
  <2>2. CASE u # t
    <3>1. th[u].pc \notin Held
      BY <2>2 DEF GateInv
    <3> QED  BY <1>1, <2>2, <3>1 DEF GateInv
  <2> QED  BY <2>1, <2>2
<1>3. now' \in Nat /\ client' \in [Accounts -> ClientState]
  BY DEF GateInv
<1>4. \A b \in Accounts : Backoffs(client'[b])
  BY Zenon DEF GateInv
<1>5. ASSUME NEW u \in Threads
      PROVE  /\ th'[u].pc \in Held => registry' = u
             /\ th'[u].pc = "reset" => client'[th'[u].account].throttledUntil <= now'
  BY <1>2 DEF Held
<1> QED  BY <1>1, <1>2, <1>3, <1>4, <1>5, Zenon DEF GateInv, Caller, Backoffs, Gate!Idle, Gate!Never

\* A thread's record after a change of its point, and of its time or window too.
LEMMA CallerMoves ==
    ASSUME th = [t \in Threads |-> th[t]], NEW t \in Threads, Caller(th[t]), NEW p
    PROVE  [th EXCEPT ![t].pc = p] =
               [th EXCEPT ![t] = [pc |-> p, op |-> th[t].op, account |-> th[t].account,
                                  at |-> th[t].at, window |-> th[t].window]]
<1> DEFINE x == [th[t] EXCEPT !.pc = p]
<1>1. [th EXCEPT ![t].pc = p] = [th EXCEPT ![t] = x]
  OBVIOUS
<1>2. x = [pc |-> p, op |-> th[t].op, account |-> th[t].account, at |-> th[t].at,
           window |-> th[t].window]
  BY DEF Caller
<1> QED  BY <1>1, <1>2, ZenonT(30)

LEMMA CallerStamps ==
    ASSUME th = [t \in Threads |-> th[t]], NEW t \in Threads, Caller(th[t]), NEW p, NEW ts
    PROVE  [th EXCEPT ![t].pc = p, ![t].at = ts] =
               [th EXCEPT ![t] = [pc |-> p, op |-> th[t].op, account |-> th[t].account,
                                  at |-> ts, window |-> th[t].window]]
<1> DEFINE x == [th[t] EXCEPT !.pc = p]
           moved == [th EXCEPT ![t] = x]
<1>1. [th EXCEPT ![t].pc = p, ![t].at = ts] = [moved EXCEPT ![t] = [@ EXCEPT !.at = ts]]
  OBVIOUS
<1>2. x = [pc |-> p, op |-> th[t].op, account |-> th[t].account, at |-> th[t].at,
           window |-> th[t].window]
  BY DEF Caller
<1> HIDE DEF x
<1>3. [x EXCEPT !.at = ts] = [pc |-> p, op |-> th[t].op, account |-> th[t].account,
                              at |-> ts, window |-> th[t].window]
  BY <1>2
<1>4. moved[t] = x
  OBVIOUS
<1>5. [moved EXCEPT ![t] = [@ EXCEPT !.at = ts]] = [th EXCEPT ![t] = [x EXCEPT !.at = ts]]
  BY <1>4, ZenonT(30)
<1> QED  BY <1>1, <1>3, <1>5, ZenonT(30)

LEMMA CallerLimits ==
    ASSUME th = [t \in Threads |-> th[t]], NEW t \in Threads, Caller(th[t]), NEW p, NEW w
    PROVE  [th EXCEPT ![t].pc = p, ![t].window = w] =
               [th EXCEPT ![t] = [pc |-> p, op |-> th[t].op, account |-> th[t].account,
                                  at |-> th[t].at, window |-> w]]
<1> DEFINE x == [th[t] EXCEPT !.pc = p]
           moved == [th EXCEPT ![t] = x]
<1>1. [th EXCEPT ![t].pc = p, ![t].window = w] = [moved EXCEPT ![t] = [@ EXCEPT !.window = w]]
  OBVIOUS
<1>2. x = [pc |-> p, op |-> th[t].op, account |-> th[t].account, at |-> th[t].at,
           window |-> th[t].window]
  BY DEF Caller
<1> HIDE DEF x
<1>3. [x EXCEPT !.window = w] = [pc |-> p, op |-> th[t].op, account |-> th[t].account,
                                 at |-> th[t].at, window |-> w]
  BY <1>2
<1>4. moved[t] = x
  OBVIOUS
<1>5. [moved EXCEPT ![t] = [@ EXCEPT !.window = w]] = [th EXCEPT ![t] = [x EXCEPT !.window = w]]
  BY <1>4, ZenonT(30)
<1> QED  BY <1>1, <1>3, <1>5, ZenonT(30)

LEMMA AtWork ==
    ASSUME GateInv, NEW t \in Threads, th[t].pc # "idle"
    PROVE  Caller(th[t])
  BY DEF GateInv, Gate!Idle

LEMMA IdleIsFree == Gate!Idle.pc \notin Held
  BY DEF Gate!Idle, Held

LEMMA BeginPreserves == ASSUME GateInv, NEW t \in Threads, Gate!Begin(t) PROVE GateInv'
<1>1. PICK op \in Gate!Ops, a \in Accounts :
        /\ th' = [th EXCEPT ![t] =
                     [pc |-> IF op = Gate!Checked THEN "ensure" ELSE "resolve",
                      op |-> op, account |-> a, at |-> Gate!Never, window |-> Gate!Never]]
        /\ UNCHANGED <<now, registry, client>>
  BY ZenonT(30) DEF Gate!Begin
<1> DEFINE p == IF op = Gate!Checked THEN "ensure" ELSE "resolve"
           x == [pc |-> p, op |-> op, account |-> a, at |-> Gate!Never, window |-> Gate!Never]
<1>2. p \in {"ensure", "resolve"}
  OBVIOUS
<1> HIDE DEF p
<1>3. Caller(x) /\ x.pc \notin Held
  BY <1>1, <1>2 DEF Caller, Points, Held
<1>4. th' = [th EXCEPT ![t] = x]
  BY <1>1 DEF p
<1> HIDE DEF x
<1> QED  BY <1>1, <1>3, <1>4, Proceeds, ZenonT(30)

\* Steps that only move a thread on, without the registry.
LEMMA StepPreserves ==
    ASSUME GateInv, NEW t \in Threads, th[t].pc # "idle",
           NEW p \in {"resolve", "handle", "call"}, Gate!Step(t, p),
           UNCHANGED <<now, registry, client>>
    PROVE  GateInv'
<1> DEFINE x == [pc |-> p, op |-> th[t].op, account |-> th[t].account, at |-> th[t].at,
                 window |-> th[t].window]
<1>1. th' = [th EXCEPT ![t] = x]
  BY AtWork, CallerMoves, ZenonT(30) DEF Gate!Step, GateInv
<1>2. Caller(x) /\ x.pc \notin Held
  BY AtWork, ZenonT(30) DEF Caller, Points, Held
<1> HIDE DEF x
<1> QED  BY <1>1, <1>2, Proceeds, ZenonT(30)

LEMMA ReturnPreserves ==
    ASSUME GateInv, NEW t \in Threads, Gate!Return(t), UNCHANGED <<now, registry, client>>
    PROVE  GateInv'
<1>1. th' = [th EXCEPT ![t] = Gate!Idle]
  BY DEF Gate!Return
<1> QED  BY <1>1, IdleIsFree, Proceeds, ZenonT(30)

LEMMA EnsurePreserves ==
    ASSUME Gate!ConstantsOK, GateInv, NEW t \in Threads, Gate!Ensure(t) PROVE GateInv'
<1> DEFINE a == th[t].account
<1>1. th[t].pc = "ensure" /\ registry = Gate!Nobody /\ UNCHANGED <<now, client>>
  BY DEF Gate!Ensure
<1>2. Caller(th[t])
  BY <1>1, AtWork
<1>3. CASE Gate!Return(t) /\ UNCHANGED registry
  BY <1>1, <1>3, ReturnPreserves
<1>4. CASE Gate!Step(t, "resolve") /\ UNCHANGED registry
  BY <1>1, <1>4, StepPreserves
<1>5. CASE ~Gate!Throttled(a) /\ Gate!Step(t, "reset") /\ registry' = t
  <2> DEFINE x == [pc |-> "reset", op |-> th[t].op, account |-> th[t].account,
                   at |-> th[t].at, window |-> th[t].window]
  <2>1. th' = [th EXCEPT ![t] = x]
    BY <1>2, <1>5, CallerMoves, ZenonT(30) DEF Gate!Step, GateInv
  <2>2. Caller(x) /\ x.account = a
    BY <1>2, ZenonT(30) DEF Caller, Points, Held
  <2>3. client[a].throttledUntil <= now
    <3>1. client[a].throttledUntil \in Int /\ now \in Nat
      BY <1>2 DEF GateInv, ClientState, Caller
    <3> QED  BY <1>5, <3>1 DEF Gate!Throttled, Gate!Never
  <2> HIDE DEF x
  <2> QED  BY <1>1, <1>5, <2>1, <2>2, <2>3, TakesRegistry, ZenonT(30)
<1>6. CASE th' = [th EXCEPT ![t].pc = "disconnect", ![t].at = now] /\ registry' = t
  <2> DEFINE x == [pc |-> "disconnect", op |-> th[t].op, account |-> th[t].account,
                   at |-> now, window |-> th[t].window]
  <2>1. th' = [th EXCEPT ![t] = x]
    BY <1>2, <1>6, CallerStamps, ZenonT(30) DEF GateInv
  <2>2. Caller(x) /\ x.pc = "disconnect"
    BY <1>2 DEF Caller, Points, Held, GateInv
  <2> HIDE DEF x
  <2> QED  BY <1>1, <1>6, <2>1, <2>2, TakesRegistry, ZenonT(30)
<1> QED  BY <1>3, <1>4, <1>5, <1>6 DEF Gate!Ensure

LEMMA HealthyClient == Gate!Healthy \in ClientState /\ Backoffs(Gate!Healthy)
  BY DEF Gate!Healthy, ClientState, Backoffs, Gate!Never

LEMMA ResetPreserves == ASSUME GateInv, NEW t \in Threads, Gate!Reset(t) PROVE GateInv'
<1> DEFINE x == [pc |-> "resolve", op |-> th[t].op, account |-> th[t].account,
                 at |-> th[t].at, window |-> th[t].window]
<1>1. /\ th[t].pc = "reset" /\ client' = [client EXCEPT ![th[t].account] = Gate!Healthy]
      /\ Gate!Step(t, "resolve") /\ UNCHANGED now
  BY DEF Gate!Reset
<1>2. Caller(th[t])
  BY <1>1, AtWork
<1>3. th' = [th EXCEPT ![t] = x]
  BY <1>1, <1>2, CallerMoves, ZenonT(30) DEF Gate!Step, GateInv
<1>4. Caller(x) /\ x.pc \notin Held /\ th[t].account \in Accounts
  BY <1>2, ZenonT(30) DEF Caller, Points, Held
<1> HIDE DEF x
<1> QED  BY <1>1, <1>3, <1>4, HealthyClient, ChangesClient, ZenonT(30) DEF Held

\* note_disconnect keeps the throttle, and spaces the next attempt.
LEMMA DisconnectedClient ==
    ASSUME Gate!ConstantsOK, NEW c \in ClientState, NEW ts \in Nat
    PROVE  /\ Gate!NoteDisconnect(c, ts) \in ClientState
           /\ Backoffs(Gate!NoteDisconnect(c, ts))
           /\ Gate!NoteDisconnect(c, ts).throttledUntil = c.throttledUntil
<1> DEFINE delay == Gate!ReconnectDelay(c.failures + 1)
           r == [c EXCEPT !.failures = c.failures + 1]
           q == [r EXCEPT !.lastDisconnect = ts]
<1>1. c.failures + 1 \in Nat \ {0}
  BY DEF ClientState
<1>2. delay \in BaseBackoff .. MaxBackoff
  BY <1>1, DelayIsBounded
<1>3. delay \in Nat \ {0}
  BY <1>2 DEF Gate!ConstantsOK
<1> HIDE DEF delay
<1>4. Gate!NoteDisconnect(c, ts) = [q EXCEPT !.nextReconnect = ts + delay]
  BY DEF Gate!NoteDisconnect, ClientState, delay
<1>5. r = [failures |-> c.failures + 1, lastDisconnect |-> c.lastDisconnect,
           nextReconnect |-> c.nextReconnect, throttledUntil |-> c.throttledUntil]
  BY DEF ClientState
<1> HIDE DEF r
<1>6. q = [failures |-> c.failures + 1, lastDisconnect |-> ts,
           nextReconnect |-> c.nextReconnect, throttledUntil |-> c.throttledUntil]
  BY <1>5
<1> HIDE DEF q
<1>7. Gate!NoteDisconnect(c, ts) =
          [failures |-> c.failures + 1, lastDisconnect |-> ts,
           nextReconnect |-> ts + delay, throttledUntil |-> c.throttledUntil]
  BY <1>4, <1>6
<1>8. ts + delay \in Int /\ ts + delay # -1 /\ (ts + delay) - ts = delay
  BY <1>3
<1>9. c.throttledUntil \in Int
  BY DEF ClientState
<1>10. Gate!NoteDisconnect(c, ts) \in ClientState
  BY <1>1, <1>7, <1>8, <1>9 DEF ClientState
<1>11. Backoffs(Gate!NoteDisconnect(c, ts))
  BY <1>1, <1>2, <1>7, <1>8 DEF Backoffs, Gate!Never
<1> QED  BY <1>7, <1>10, <1>11

LEMMA DisconnectPreserves ==
    ASSUME Gate!ConstantsOK, GateInv, NEW t \in Threads, Gate!Disconnect(t) PROVE GateInv'
<1> DEFINE a == th[t].account
           c == Gate!NoteDisconnect(client[a], th[t].at)
<1>1. /\ th[t].pc = "disconnect" /\ client' = [client EXCEPT ![a] = c]
      /\ th' = [th EXCEPT ![t] = Gate!Idle] /\ UNCHANGED now
  BY DEF Gate!Disconnect, Gate!Return
<1>2. Caller(th[t])
  BY <1>1, AtWork
<1>3. a \in Accounts /\ th[t].at \in Nat /\ client[a] \in ClientState
  BY <1>1, <1>2 DEF Caller, GateInv
<1>4. c \in ClientState /\ Backoffs(c)
  BY <1>3, DisconnectedClient
<1> HIDE DEF c, a
<1> QED  BY <1>1, <1>3, <1>4, IdleIsFree, ChangesClient, ZenonT(30) DEF Held

\* note_rate_limit changes the throttle only.
LEMMA LimitedClient ==
    ASSUME NEW c \in ClientState, Backoffs(c), NEW ts \in Nat, NEW w \in Nat
    PROVE  /\ Gate!NoteRateLimit(c, ts, w) \in ClientState
           /\ Backoffs(Gate!NoteRateLimit(c, ts, w))
           /\ Gate!NoteRateLimit(c, ts, w).throttledUntil = ts + w
<1>1. Gate!NoteRateLimit(c, ts, w) =
          [failures |-> c.failures, lastDisconnect |-> c.lastDisconnect,
           nextReconnect |-> c.nextReconnect, throttledUntil |-> ts + w]
  BY DEF Gate!NoteRateLimit, ClientState
<1>2. ts + w \in Int
  OBVIOUS
<1> QED  BY <1>1, <1>2 DEF ClientState, Backoffs

LEMMA NotePreserves == ASSUME GateInv, NEW t \in Threads, Gate!Note(t) PROVE GateInv'
<1> DEFINE a == th[t].account
           c == Gate!NoteRateLimit(client[a], th[t].at, th[t].window)
<1>1. /\ th[t].pc = "note" /\ client' = [client EXCEPT ![a] = c]
      /\ th' = [th EXCEPT ![t] = Gate!Idle] /\ UNCHANGED now
  BY DEF Gate!Note, Gate!Return
<1>2. Caller(th[t])
  BY <1>1, AtWork
<1>3. /\ a \in Accounts /\ th[t].at \in Nat /\ th[t].window \in Nat
      /\ client[a] \in ClientState /\ Backoffs(client[a])
  BY <1>1, <1>2 DEF Caller, GateInv
<1>4. c \in ClientState /\ Backoffs(c)
  BY <1>3, LimitedClient, ZenonT(30)
<1> HIDE DEF c, a
<1> QED  BY <1>1, <1>3, <1>4, IdleIsFree, ChangesClient, ZenonT(30) DEF Held

LEMMA AnswerPreserves ==
    ASSUME Gate!ConstantsOK, GateInv, NEW t \in Threads, Gate!Answer(t) PROVE GateInv'
<1>1. th[t].pc = "call" /\ UNCHANGED <<now, registry, client>>
  BY DEF Gate!Answer
<1>2. Caller(th[t])
  BY <1>1, AtWork, ZenonT(30)
<1>3. CASE Gate!Return(t)
  BY <1>1, <1>3, ReturnPreserves
<1>4. ASSUME NEW w \in Windows, th' = [th EXCEPT ![t].pc = "limited", ![t].window = w]
      PROVE  GateInv'
  <2> DEFINE x == [pc |-> "limited", op |-> th[t].op, account |-> th[t].account,
                   at |-> th[t].at, window |-> w]
  <2>1. th' = [th EXCEPT ![t] = x]
    BY <1>2, <1>4, CallerLimits, ZenonT(30) DEF GateInv
  <2>2. w \in Nat
    BY DEF Gate!ConstantsOK
  <2>3. Caller(x) /\ x.pc \notin Held
    BY <1>2, <2>2, ZenonT(30) DEF Caller, Points, Held
  <2> HIDE DEF x
  <2> QED  BY <1>1, <2>1, <2>3, Proceeds, ZenonT(30)
<1> QED  BY <1>3, <1>4 DEF Gate!Answer

LEMMA TrackPreserves ==
    ASSUME Gate!ConstantsOK, GateInv, NEW t \in Threads, Gate!TrackRateLimit(t) PROVE GateInv'
<1> DEFINE x == [pc |-> "note", op |-> th[t].op, account |-> th[t].account,
                 at |-> now, window |-> th[t].window]
<1>1. /\ th[t].pc = "limited" /\ registry = Gate!Nobody /\ registry' = t
      /\ th' = [th EXCEPT ![t].pc = "note", ![t].at = now] /\ UNCHANGED <<now, client>>
  BY DEF Gate!TrackRateLimit
<1>2. Caller(th[t])
  BY <1>1, AtWork
<1>3. th' = [th EXCEPT ![t] = x]
  BY <1>1, <1>2, CallerStamps, ZenonT(30) DEF GateInv
<1>4. Caller(x) /\ x.pc = "note"
  BY <1>1, <1>2 DEF Caller, Points, Held, GateInv
<1> HIDE DEF x
<1> QED  BY <1>1, <1>3, <1>4, TakesRegistry, ZenonT(30)

LEMMA ResolveCallPreserve ==
    ASSUME GateInv, NEW t \in Threads, Gate!Resolve(t) \/ Gate!Call(t) PROVE GateInv'
<1>1. th[t].pc # "idle" /\ UNCHANGED <<now, registry, client>>
  BY DEF Gate!Resolve, Gate!Call
<1>2. Gate!Return(t) \/ Gate!Step(t, "handle") \/ Gate!Step(t, "call")
  BY DEF Gate!Resolve, Gate!Call
<1> QED  BY <1>1, <1>2, StepPreserves, ReturnPreserves, ZenonT(30)

LEMMA TickPreserves == ASSUME GateInv, Gate!Tick PROVE GateInv'
<1>1. now' = now + 1 /\ UNCHANGED <<registry, client, th>>
  BY DEF Gate!Tick
<1>2. now' \in Nat
  BY <1>1 DEF GateInv
<1>3. ASSUME NEW t \in Threads, th[t].pc = "reset"
      PROVE  client[th[t].account].throttledUntil <= now'
  <2>1. Caller(th[t])
    BY <1>3, AtWork
  <2>2. client[th[t].account].throttledUntil \in Int
    BY <2>1 DEF GateInv, Caller, ClientState
  <2>3. client[th[t].account].throttledUntil <= now /\ now \in Nat
    BY <1>3 DEF GateInv
  <2> QED  BY <1>1, <2>2, <2>3
<1> QED  BY <1>1, <1>2, <1>3 DEF GateInv

LEMMA GateNext ==
    ASSUME Gate!ConstantsOK, GateInv, [Gate!Next]_Gate!vars PROVE GateInv'
<1>1. CASE Gate!Tick
  BY <1>1, TickPreserves
<1>2. ASSUME NEW t \in Threads, Gate!Begin(t) \/ Gate!Continue(t) PROVE GateInv'
  BY <1>2, BeginPreserves, EnsurePreserves, ResetPreserves, DisconnectPreserves,
     ResolveCallPreserve, AnswerPreserves, TrackPreserves, NotePreserves DEF Gate!Continue
<1>3. CASE UNCHANGED Gate!vars
  BY <1>3 DEF Gate!vars, GateInv
<1> QED  BY <1>1, <1>2, <1>3 DEF Gate!Next

LEMMA GateInit == ASSUME Gate!Init PROVE GateInv
<1>1. \A t \in Threads : th[t] = Gate!Idle /\ th[t].pc \notin Held
  BY IdleIsFree DEF Gate!Init
<1>2. now \in Nat /\ th = [t \in Threads |-> th[t]]
  BY DEF Gate!Init
<1>3. client \in [Accounts -> ClientState] /\ \A a \in Accounts : Backoffs(client[a])
  BY HealthyClient DEF Gate!Init
<1> QED  BY <1>1, <1>2, <1>3 DEF GateInv, Held

\* GateInv is an inductive invariant of the gateway.
LEMMA GateInvariance == Gate!ConstantsOK => (Gate!Spec => []GateInv)
<1> SUFFICES ASSUME Gate!ConstantsOK PROVE Gate!Spec => []GateInv
  OBVIOUS
<1>1. Gate!Init => GateInv
  BY GateInit
<1>2. GateInv /\ [Gate!Next]_Gate!vars => GateInv'
  BY GateNext
<1> QED  BY <1>1, <1>2, PTL DEF Gate!Spec

\* What a step makes of the throttle of an account.
LEMMA ThrottleStep ==
    ASSUME Gate!ConstantsOK, GateInv, [Gate!Next]_Gate!vars, NEW a \in Accounts,
           client[a].throttledUntil > now
    PROVE  client'[a].throttledUntil # Gate!Never
<1>1. client \in [Accounts -> ClientState] /\ now \in Nat
      /\ client[a].throttledUntil \in Int
  BY DEF GateInv, ClientState
<1>2. client[a].throttledUntil # Gate!Never
  BY <1>1 DEF Gate!Never
<1>3. CASE UNCHANGED client
  BY <1>2, <1>3
<1>4. ASSUME NEW t \in Threads, Gate!Reset(t) PROVE client'[a].throttledUntil # Gate!Never
  <2>1. th[t].pc = "reset" /\ client' = [client EXCEPT ![th[t].account] = Gate!Healthy]
    BY <1>4 DEF Gate!Reset
  <2>2. client[th[t].account].throttledUntil <= now
    BY <2>1 DEF GateInv
  <2>3. a # th[t].account
    BY <1>1, <2>2
  <2>4. client'[a] = client[a]
    BY <1>1, <2>1, <2>3
  <2> QED  BY <1>2, <2>4
<1>5. ASSUME NEW t \in Threads, Gate!Disconnect(t)
      PROVE  client'[a].throttledUntil # Gate!Never
  <2> DEFINE c == Gate!NoteDisconnect(client[th[t].account], th[t].at)
  <2>1. th[t].pc = "disconnect" /\ client' = [client EXCEPT ![th[t].account] = c]
    BY <1>5 DEF Gate!Disconnect
  <2>2. th[t].account \in Accounts /\ th[t].at \in Nat
    BY <2>1, AtWork, ZenonT(30) DEF Caller
  <2>3. c.throttledUntil = client[th[t].account].throttledUntil
    BY <1>1, <2>2, DisconnectedClient, ZenonT(30)
  <2> HIDE DEF c
  <2>4. client'[a].throttledUntil = client[a].throttledUntil
    BY <1>1, <2>1, <2>2, <2>3
  <2> QED  BY <1>2, <2>4
<1>6. ASSUME NEW t \in Threads, Gate!Note(t) PROVE client'[a].throttledUntil # Gate!Never
  <2> DEFINE c == Gate!NoteRateLimit(client[th[t].account], th[t].at, th[t].window)
  <2>1. th[t].pc = "note" /\ client' = [client EXCEPT ![th[t].account] = c]
    BY <1>6 DEF Gate!Note
  <2>2. th[t].account \in Accounts /\ th[t].at \in Nat /\ th[t].window \in Nat
    BY <2>1, AtWork, ZenonT(30) DEF Caller
  <2>3. Backoffs(client[th[t].account])
    BY <2>2 DEF GateInv
  <2>4. c.throttledUntil = th[t].at + th[t].window
    BY <1>1, <2>2, <2>3, LimitedClient, ZenonT(30)
  <2>5. c.throttledUntil # Gate!Never
    BY <2>2, <2>4 DEF Gate!Never
  <2> HIDE DEF c
  <2>6. client'[a] = c \/ client'[a] = client[a]
    BY <1>1, <2>1, <2>2
  <2> QED  BY <1>2, <2>5, <2>6
<1>7. \/ UNCHANGED client
      \/ \E t \in Threads : Gate!Reset(t) \/ Gate!Disconnect(t) \/ Gate!Note(t)
  BY ZenonT(30)
     DEF Gate!Next, Gate!vars, Gate!Tick, Gate!Begin, Gate!Continue, Gate!Ensure, Gate!Resolve,
     Gate!Call, Gate!Answer, Gate!TrackRateLimit
<1> QED  BY <1>3, <1>4, <1>5, <1>6, <1>7

(***************************************************************************)
(* ensure_account_ready: a throttle that is in force is never cleared,     *)
(* however the readiness checks and the answers of the threads interleave. *)
(***************************************************************************)
THEOREM ThrottleHolds == Gate!ConstantsOK => (Gate!Spec => Gate!ThrottleIsKept)
<1> SUFFICES ASSUME Gate!ConstantsOK PROVE Gate!Spec => Gate!ThrottleIsKept
  OBVIOUS
<1>1. GateInv /\ [Gate!Next]_Gate!vars =>
        [\A a \in Accounts : client[a].throttledUntil > now =>
                             client'[a].throttledUntil # Gate!Never]_Gate!vars
  BY ThrottleStep
<1> QED  BY <1>1, GateInvariance, PTL DEF Gate!Spec, Gate!ThrottleIsKept

(***************************************************************************)
(* reconnect_delay_ms and note_disconnect: after a disconnect the next     *)
(* attempt lies between the base and the largest backoff ahead, whatever   *)
(* the number of failures and the jitter.                                  *)
(***************************************************************************)
THEOREM BackoffIsBounded == Gate!ConstantsOK => (Gate!Spec => []Gate!ResilienceIsConsistent)
<1>1. GateInv => Gate!ResilienceIsConsistent
  BY DEF GateInv, Backoffs, Gate!ResilienceIsConsistent
<1> QED  BY <1>1, GateInvariance, PTL
=============================================================================
