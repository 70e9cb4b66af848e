----------------------------- MODULE BarBuilder -----------------------------
(***************************************************************************)
(* The bar builder of a lane and process_trade, which feeds it and hands   *)
(* its updates to the trading cycle.  A trade falls into the bucket of its *)
(* time; a trade of another bucket closes the bar under way, an older      *)
(* bucket included.  A lane that is not running takes no trades and keeps  *)
(* its bar.                                                                *)
(***************************************************************************)
EXTENDS Integers, Sequences, FiniteSetsExt

CONSTANTS Timeframe, Times, Prices, Quantities,
          InOrder,     \* whether trades arrive in the order of their times
          MayFlush,    \* whether the caller flushes (the runtime does not)
          MaxTrades    \* bound: trades taken

ASSUME TimeframeAssumption == Timeframe \in Nat \ {0}
ASSUME TradesAssumption == Times \subseteq Int /\ Prices \subseteq Int /\ Quantities \subseteq Int

VARIABLES bar,          \* current_bar, with current_start as its timestamp
          running,      \* the state of the lane
          updates,      \* history: what the last push returned
          accepted,     \* history: the trades taken
          traded,       \* history: quantity traded by bucket
          confirmed     \* history: volume of the confirmed bars by bucket

vars == <<bar, running, updates, accepted, traded, confirmed>>

\* floor_to_timeframe, with rem_euclid
Floor(t) == t - (t % Timeframe)

Buckets == {Floor(t) : t \in Times}
Trades == [time : Times, price : Prices, quantity : Quantities]
NoBar == [timestamp |-> 0, open |-> 0, high |-> 0, low |-> 0, close |-> 0, volume |-> 0]
Building(b) == bar # NoBar /\ bar.timestamp = b
LastOf(ts) == ts[Len(ts)]

Init ==
    /\ bar = NoBar
    /\ running = TRUE
    /\ updates = <<>>
    /\ accepted = <<>>
    /\ traded = [b \in Buckets |-> 0]
    /\ confirmed = [b \in Buckets |-> 0]

NewBar(tr) ==
    [timestamp |-> Floor(tr.time), open |-> tr.price, high |-> tr.price, low |-> tr.price,
     close |-> tr.price, volume |-> tr.quantity]

ApplyTrade(b, tr) ==
    [timestamp |-> b.timestamp, open |-> b.open, high |-> Max({b.high, tr.price}),
     low |-> Min({b.low, tr.price}), close |-> tr.price, volume |-> b.volume + tr.quantity]

Preview(b) == [phase |-> "Preview", bar |-> b]
Confirmed(b) == [phase |-> "Confirmed", bar |-> b]

Valid(tr) == tr.price > 0 /\ tr.quantity >= 0

(***************************************************************************)
(* push_trade of a valid trade.                                            *)
(***************************************************************************)
\* Mutant: the trade that closes a bar is not put into the next one.
PushTradeDropsFirst(tr) ==
    LET b == Floor(tr.time)
    IN  \/ /\ Building(b)
           /\ bar' = ApplyTrade(bar, tr)
           /\ updates' = <<Preview(bar')>>
           /\ UNCHANGED confirmed
        \/ /\ ~Building(b)
           /\ bar' = IF bar = NoBar THEN NewBar(tr) ELSE NoBar
           /\ updates' = IF bar = NoBar THEN <<Preview(bar')>> ELSE <<Confirmed(bar)>>
           /\ confirmed' = IF bar = NoBar THEN confirmed
                           ELSE [confirmed EXCEPT ![bar.timestamp] = @ + bar.volume]

PushTrade(tr) ==
    LET b == Floor(tr.time)
    IN  \/ /\ Building(b)
           /\ bar' = ApplyTrade(bar, tr)
           /\ updates' = <<Preview(bar')>>
           /\ UNCHANGED confirmed
        \/ /\ bar = NoBar
           /\ bar' = NewBar(tr)
           /\ updates' = <<Preview(bar')>>
           /\ UNCHANGED confirmed
        \/ /\ bar # NoBar /\ ~Building(b)
           /\ bar' = NewBar(tr)
           /\ updates' = <<Confirmed(bar), Preview(bar')>>
           /\ confirmed' = [confirmed EXCEPT ![bar.timestamp] = @ + bar.volume]

\* process_trade; whatever the cycles make of the updates, the builder has moved on.
ProcessTrade(tr) ==
    /\ running /\ Len(accepted) < MaxTrades
    /\ InOrder /\ accepted # <<>> => tr.time >= LastOf(accepted).time
    /\ Valid(tr)
    /\ PushTrade(tr)
    /\ accepted' = Append(accepted, tr)
    /\ traded' = [traded EXCEPT ![Floor(tr.time)] = @ + tr.quantity]
    /\ UNCHANGED running

\* A trade that the builder refuses, or that comes while the lane is not running; the
\* early returns on the symbol, the connector and the enabled flag are the same step.
RejectTrade(tr) ==
    /\ ~running \/ ~Valid(tr)
    /\ updates' = <<>>
    /\ UNCHANGED <<bar, running, accepted, traded, confirmed>>

\* flush_confirmed
Flush ==
    /\ MayFlush /\ bar # NoBar
    /\ bar' = NoBar
    /\ updates' = <<Confirmed(bar)>>
    /\ confirmed' = [confirmed EXCEPT ![bar.timestamp] = @ + bar.volume]
    /\ UNCHANGED <<running, accepted, traded>>

\* pause_instance and resume_instance leave the builder alone.
PauseOrResume ==
    /\ running' = ~running
    /\ updates' = <<>>
    /\ UNCHANGED <<bar, accepted, traded, confirmed>>

Next ==
    \/ \E tr \in Trades : ProcessTrade(tr) \/ RejectTrade(tr)
    \/ Flush
    \/ PauseOrResume

Spec == Init /\ [][Next]_vars
-----------------------------------------------------------------------------
BarOK(b) == /\ b.timestamp \in Buckets
            /\ {b.open, b.high, b.low, b.close} \subseteq Prices
            /\ b.volume \in Nat

TypeOK ==
    /\ bar = NoBar \/ BarOK(bar)
    /\ running \in BOOLEAN
    /\ accepted \in Seq(Trades)
    /\ traded \in [Buckets -> Nat] /\ confirmed \in [Buckets -> Nat]

(***************************************************************************)
(* No trade is lost or counted twice: what was traded in a bucket is the   *)
(* volume of its confirmed bars and of the bar under way, in whatever      *)
(* order trades arrive and bars are flushed (push_trade).                  *)
(***************************************************************************)
VolumeIsConserved ==
    \A b \in Buckets :
        traded[b] = confirmed[b] + IF Building(b) THEN bar.volume ELSE 0

(***************************************************************************)
(* The bar under way holds positive prices with low and high around open   *)
(* and close, and its bucket holds the time of the last trade taken, also  *)
(* before the epoch (floor_to_timeframe, apply_trade_to_bar).              *)
(***************************************************************************)
BarsAreWellFormed ==
    bar # NoBar =>
        /\ 0 < bar.low /\ {bar.open, bar.close} \subseteq bar.low .. bar.high
        /\ LastOf(accepted).time \in bar.timestamp .. bar.timestamp + Timeframe - 1

\* The bar of a bucket, from the trades taken in it.
ReferenceBar(b) ==
    LET ts == SelectSeq(accepted, LAMBDA tr: Floor(tr.time) = b)
        prices == {ts[i].price : i \in DOMAIN ts}
    IN  [timestamp |-> b, open |-> Head(ts).price, high |-> Max(prices), low |-> Min(prices),
         close |-> LastOf(ts).price,
         volume |-> MapThenSumSet(LAMBDA i: ts[i].quantity, DOMAIN ts)]

(***************************************************************************)
(* When trades arrive in order, every bar handed to the lane, preview or   *)
(* confirmed, is the bar of all trades taken in its bucket so far, and a   *)
(* confirmed bucket never changes again.                                   *)
(***************************************************************************)
OrderedBarsAreExact ==
    \A i \in DOMAIN updates : updates[i].bar = ReferenceBar(updates[i].bar.timestamp)
=============================================================================
