------------------------------ MODULE MCVenues ------------------------------
(***************************************************************************)
(* A connector and its venue, for TLC: the order calls and snapshots of    *)
(* Alpaca and of Binance, and the requests for bars of both, with bars of  *)
(* two ticks any of which may be without a trade.  Orders and bars share   *)
(* no variable.  A behaviour is one of a single part, chosen at the start; *)
(* the others rest in an initial state of theirs.                          *)
(***************************************************************************)
EXTENDS RemoteOrders, TLC

CONSTANTS None, o1, o2,
          Parts          \* the parts to explore

MCIds == {o1, o2}
MCBuyAndSell == o1 :> "buy" @@ o2 :> "sell"
MCFees == {}

VARIABLES part,
          binanceOrders, binanceCalls, binanceSnap,
          now, traded, call

binanceVars == <<binanceOrders, binanceCalls, binanceSnap>>
barVars == <<now, traded, call>>

Binance == INSTANCE RemoteOrders WITH
    Venue <- "binance", QuantityStep <- 2, MaxQuantity <- 3, PollAttempts <- 1,
    BaseFees <- {1},
    orders <- binanceOrders, calls <- binanceCalls, snap <- binanceSnap

\* Alpaca's bars in one answer, Alpaca's bars split into pages, Binance's bars.
Pages == INSTANCE BarPages WITH
    Connector <- "alpaca", Calls <- {"latest", "recent", "range"}, Timeframe <- 2,
    Day <- 4, MinDays <- 1, MaxDays <- 2, Slack <- 1, RowCap <- 10, Limits <- 0..3,
    ShortPages <- FALSE, MaxBar <- 5
Split == INSTANCE BarPages WITH
    Connector <- "alpaca", Calls <- {"latest", "recent", "range"}, Timeframe <- 2,
    Day <- 4, MinDays <- 1, MaxDays <- 2, Slack <- 1, RowCap <- 10, Limits <- 0..3,
    ShortPages <- TRUE, MaxBar <- 4
Klines == INSTANCE BarPages WITH
    Connector <- "binance", Calls <- {"latest", "recent", "range"}, Timeframe <- 2,
    Day <- 4, MinDays <- 1, MaxDays <- 2, Slack <- 1, RowCap <- 3, Limits <- 0..3,
    ShortPages <- FALSE, MaxBar <- 5

ASSUME VenueConstants == Pages!ConstantsOK /\ Split!ConstantsOK /\ Klines!ConstantsOK

AtRest == [id \in Ids |-> [pc |-> "submit", attempt |-> 0, request |-> 0,
                           payload |-> NoPayload, result |-> Failed]]

MCInit ==
    /\ part \in Parts
    /\ Init /\ (part # "alpaca" => calls = AtRest)
    /\ Binance!Init /\ (part # "binance" => binanceCalls = AtRest)
    /\ Pages!Init
    /\ part \in {"binance", "alpaca"} => traded = {}
    /\ part = "split" => traded \subseteq 0..4

MCNext ==
    /\ UNCHANGED part
    /\ \/ part = "alpaca" /\ Next /\ UNCHANGED <<binanceVars, barVars>>
       \/ part = "binance" /\ Binance!Next /\ UNCHANGED <<vars, barVars>>
       \/ part = "pages" /\ Pages!Next /\ UNCHANGED <<vars, binanceVars>>
       \/ part = "split" /\ Split!Next /\ UNCHANGED <<vars, binanceVars>>
       \/ part = "klines" /\ Klines!Next /\ UNCHANGED <<vars, binanceVars>>

MCVars == <<part, vars, binanceVars, barVars>>

MCSpec == MCInit /\ [][MCNext]_MCVars
-----------------------------------------------------------------------------
\* What a connector reports as settled stays as reported: an accepted order, at both
\* venues; at Binance also the quantity of an order answered at once and the orders a
\* snapshot leaves out (RemoteOrders!AcceptedOrderIsFinal, AcceptedAtOnceIsReceived,
\* SnapshotMissesNothing); the bars of Alpaca's calls that are confirmed; and of
\* Binance's, the bars that trading and recovery rest on (BarPages!ConfirmedIsFinal,
\* PolledIsFinal).
ConfirmedIsFinal ==
    /\ part = "alpaca" => AcceptedOrderIsFinal
    /\ part = "binance" => /\ Binance!AcceptedOrderIsFinal
                           /\ Binance!AcceptedAtOnceIsReceived
                           /\ Binance!SnapshotMissesNothing
    /\ part = "pages" => Pages!ConfirmedIsFinal
    /\ part = "klines" => Klines!PolledIsFinal

\* A page of a range continues right after the bar it starts after, also when the
\* venue splits its answer, and leaves no bar when it says that it is the last
\* (BarPages!RangeIsNext, ExhaustedIsTrue).
RangeIsNext ==
    /\ part = "pages" => Pages!RangeIsNext /\ Pages!ExhaustedIsTrue
    /\ part = "split" => Split!RangeIsNext
    /\ part = "klines" => Klines!RangeIsNext /\ Klines!ExhaustedIsTrue
=============================================================================
