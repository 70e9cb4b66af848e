------------------------------ MODULE BarPages ------------------------------
(***************************************************************************)
(* How the Alpaca and Binance connectors fetch bars: the latest confirmed  *)
(* one (polling), the most recent ones (warm-up) and a range (recovery).   *)
(* Each call asks the venue for a window of rows, the venue answers some   *)
(* time later, with the bar under way among them, and the connector keeps  *)
(* the rows that its clock says are confirmed.  Clocks agree; time is in   *)
(* ticks, bar b is open from b * Timeframe on for one Timeframe, and only  *)
(* traded bars exist.  Prices are abstracted to whether they are final.    *)
(***************************************************************************)
EXTENDS Integers, FiniteSetsExt, SequencesExt

CONSTANTS
    None,
    Connector,            \* "alpaca" or "binance"
    Calls,                \* operations to look at: "latest", "recent", "range"
    Timeframe,
    Day, MinDays, MaxDays, Slack,   \* ALPACA_RECENT_BARS_LOOKBACK_*
    RowCap,               \* rows a request may ask for
    Limits,               \* limits of the callers
    ShortPages,           \* whether Alpaca splits an answer into pages
    MaxBar                \* bound: the market's bars

ConstantsOK ==
    /\ Connector \in {"alpaca", "binance"}
    /\ {Timeframe, Day, MinDays, Slack, RowCap} \subseteq Nat \ {0}
    /\ MaxDays \in Nat /\ MinDays <= MaxDays
    /\ Limits \subseteq Nat /\ ShortPages \in BOOLEAN /\ MaxBar \in Nat

VARIABLES
    now,       \* the clock
    traded,    \* the bars in which there is a trade, known as time goes on
    call       \* [pc, op, limit, startAfter, endAt, clock, rows, below, result]

vars == <<now, traded, call>>

Opens(b) == b * Timeframe
Closes(b) == (b + 1) * Timeframe
MaxTime == Closes(MaxBar)
Forever == MaxTime + Timeframe

LeastOf(x, y) == IF x < y THEN x ELSE y
Take(s, n) == SubSeq(s, 1, LeastOf(n, Len(s)))
TakeLast(s, n) == SubSeq(s, Len(s) - LeastOf(n, Len(s)) + 1, Len(s))
Ascending(bars) == SetToSortSeq(bars, <)

-----------------------------------------------------------------------------
\* Requests: bars that open from "from" to "to", at most "limit" rows, the
\* newest first, the oldest first, or the newest in ascending order.

\* alpaca_recent_bars_lookback_start.
LookbackStart(clock, limit) ==
    LET days == (Timeframe * (limit + 1) * Slack) \div Day
    IN clock - Day * (IF days < MinDays THEN MinDays ELSE LeastOf(days, MaxDays))

AlpacaLatestRequest(c) ==
    [from |-> LookbackStart(c.clock, 1), to |-> Forever, order |-> "desc", limit |-> 2]

BinanceLatestRequest(c) == [from |-> 0, to |-> Forever, order |-> "newest", limit |-> 2]

RequestedRows(limit) == LeastOf(limit + 1, RowCap)

AlpacaRecentRequest(c) ==
    [from |-> LookbackStart(c.clock, c.limit), to |-> c.clock, order |-> "desc",
     limit |-> RequestedRows(c.limit)]

BinanceRecentRequest(c) ==
    [from |-> 0, to |-> Forever, order |-> "newest", limit |-> RequestedRows(c.limit)]

AlpacaRangeRequest(c) ==
    [from |-> IF c.startAfter = None THEN LookbackStart(Opens(c.endAt) + Timeframe, c.limit)
              ELSE Opens(c.startAfter) + 1,
     to |-> Opens(c.endAt) + Timeframe, order |-> "asc", limit |-> c.limit]

\* Mutant: the start is left out of the request.
RequestWithoutStart(c) ==
    [from |-> 0, to |-> Opens(c.endAt) + Timeframe - 1, order |-> "newest",
     limit |-> LeastOf(c.limit, RowCap)]

\* Without a start the venue answers with the rows before the end.
BinanceRangeRequest(c) ==
    [from |-> IF c.startAfter = None THEN 0 ELSE Opens(c.startAfter) + 1,
     to |-> Opens(c.endAt) + Timeframe - 1,
     order |-> IF c.startAfter = None THEN "newest" ELSE "asc",
     limit |-> LeastOf(c.limit, RowCap)]

Request(c) ==
    IF Connector = "alpaca"
    THEN CASE c.op = "latest" -> AlpacaLatestRequest(c)
           [] c.op = "recent" -> AlpacaRecentRequest(c)
           [] c.op = "range" -> AlpacaRangeRequest(c)
    ELSE CASE c.op = "latest" -> BinanceLatestRequest(c)
           [] c.op = "recent" -> BinanceRecentRequest(c)
           [] c.op = "range" -> BinanceRangeRequest(c)

-----------------------------------------------------------------------------
\* The venue.

\* A row as it is now: the values of a bar are final once the bar is closed.
Row(b) == [bar |-> b, final |-> Closes(b) <= now]

\* The rows that answer a request now, those from the page token on only.
Matching(request, below) ==
    LET bars == {b \in traded: /\ request.from <= Opens(b) /\ Opens(b) <= request.to
                               /\ Opens(b) <= now
                               /\ below # None => b < below}
        rows == [i \in DOMAIN Ascending(bars) |-> Row(Ascending(bars)[i])]
    IN CASE request.order = "asc" -> Take(rows, request.limit)
         [] request.order = "newest" -> TakeLast(rows, request.limit)
         [] request.order = "desc" -> Take(Reverse(rows), request.limit)

\* An answer may be cut short by Alpaca, with a token for the rest.
Pages(rows) ==
    {rows} \cup (IF ShortPages THEN {Take(rows, n): n \in 1..Len(rows)} ELSE {})

-----------------------------------------------------------------------------
\* Normalisation.

\* alpaca_bar_is_confirmed; Binance compares the last tick of the bar with <.
IsConfirmed(b, clock) ==
    IF Connector = "alpaca" THEN Closes(b) <= clock ELSE Closes(b) - 1 < clock

\* Alpaca's rows come newest first and are reversed; of Binance's the older
\* ones are drained.
NewestRows(rows, limit) == IF Connector = "alpaca" THEN Reverse(Take(rows, limit))
                           ELSE TakeLast(rows, limit)

\* normalize_recent_alpaca_bars, normalize_recent_binance_klines.
NormalizeRecent(rows, clock, limit) ==
    NewestRows(SelectSeq(rows, LAMBDA r: IsConfirmed(r.bar, clock)), limit)

InRange(b, c) == b <= c.endAt /\ (c.startAfter = None \/ b > c.startAfter)

\* The filter of both connectors on the rows of a range.
ConfirmedInRange(c) ==
    SelectSeq(c.rows, LAMBDA r: IsConfirmed(r.bar, now) /\ InRange(r.bar, c))

\* normalize_confirmed_alpaca_range_bars also takes at most limit rows.
NormalizeRange(c) ==
    IF Connector = "alpaca" THEN Take(ConfirmedInRange(c), c.limit) ELSE ConfirmedInRange(c)

Exhausted(bars, c) ==
    \/ bars # <<>> /\ Last(bars).bar >= c.endAt
    \/ Len(bars) < Request(c).limit

Ok(bars, exhausted) == [ok |-> TRUE, bars |-> bars, exhausted |-> exhausted]
Error == [ok |-> FALSE, bars |-> <<>>, exhausted |-> FALSE]

\* Mutant: the clock is read when the answer is there.
ReadsClockLast(op) == FALSE

\* Whether the clock of a call is read before the request.
ReadsClockFirst(op) == op = "latest" \/ (op = "recent" /\ Connector = "alpaca")

\* What a call returns.
Outcome(c) ==
    LET clock == IF ReadsClockFirst(c.op) THEN c.clock ELSE now
        latest == NormalizeRecent(c.rows, clock, 1)
        page == NormalizeRange(c)
    IN CASE c.op = "latest" -> IF latest = <<>> THEN Error ELSE Ok(latest, FALSE)
         [] c.op = "recent" -> Ok(NormalizeRecent(c.rows, clock, c.limit), FALSE)
         [] c.op = "range" -> Ok(page, Exhausted(page, c))

-----------------------------------------------------------------------------
Idle == [pc |-> "idle", op |-> None, limit |-> 0, startAfter |-> None, endAt |-> None,
         clock |-> 0, rows |-> <<>>, below |-> None, result |-> Error]

Begin(op, limit, startAfter, endAt) ==
    [Idle EXCEPT !.pc = "request", !.op = op, !.limit = limit,
                 !.startAfter = startAfter, !.endAt = endAt, !.clock = now]

\* The early returns of a call that asks for nothing.
BeginRange(limit, startAfter, endAt) ==
    LET c == Begin("range", limit, startAfter, endAt)
    IN IF limit = 0 THEN [c EXCEPT !.pc = "done", !.result = Ok(<<>>, FALSE)]
       ELSE IF startAfter # None /\ startAfter >= endAt
       THEN [c EXCEPT !.pc = "done", !.result = Ok(<<>>, TRUE)]
       ELSE c

BeginRecent(limit) ==
    LET c == Begin("recent", limit, None, None)
    IN IF limit = 0 THEN [c EXCEPT !.pc = "done", !.result = Ok(<<>>, FALSE)] ELSE c

Seen == {b \in traded: Closes(b) <= now}

\* A recovery asks for the bars after one that was dispatched up to one that a
\* call for the latest bar has returned.
Call ==
    /\ call.pc = "idle"
    /\ \/ "latest" \in Calls /\ call' = Begin("latest", 1, None, None)
       \/ "recent" \in Calls /\ \E n \in Limits: call' = BeginRecent(n)
       \/ "range" \in Calls /\ \E n \in Limits, s \in Seen \cup {None}, e \in Seen:
                call' = BeginRange(n, s, e)
    /\ UNCHANGED <<now, traded>>

\* A page arrives.  Only fetch_remote_recent_bars of Alpaca asks for the next
\* one, until it has the rows it wants.
Answered ==
    /\ call.pc = "request"
    /\ LET all == Matching(Request(call), call.below)
       IN \E page \in (IF Connector = "alpaca" THEN Pages(all) ELSE {all}):
            LET rows == call.rows \o page
                more == /\ Connector = "alpaca" /\ call.op = "recent"
                        /\ Len(page) < Len(all) /\ Len(rows) < Request(call).limit
            IN call' = [call EXCEPT !.rows = rows,
                                    !.below = IF more THEN Last(page).bar ELSE None,
                                    !.pc = IF more THEN "request" ELSE "answered"]
    /\ UNCHANGED <<now, traded>>

RequestFails ==
    /\ call.pc = "request"
    /\ call' = [call EXCEPT !.pc = "done", !.result = Error]
    /\ UNCHANGED <<now, traded>>

Return ==
    /\ call.pc = "answered"
    /\ call' = [call EXCEPT !.pc = "done", !.result = Outcome(call)]
    /\ UNCHANGED <<now, traded>>

Tick ==
    /\ now < MaxTime /\ call.pc # "done"
    /\ now' = now + 1
    /\ UNCHANGED <<traded, call>>

Init ==
    /\ now = 0
    /\ traded \in SUBSET (0..MaxBar)
    /\ call = Idle

Next == Call \/ Answered \/ RequestFails \/ Return \/ Tick
Spec == Init /\ [][Next]_vars

-----------------------------------------------------------------------------
Returned(op) == call.pc = "done" /\ call.op = op /\ call.result.ok
Bars == [i \in DOMAIN call.result.bars |-> call.result.bars[i].bar]

\* Every bar a call returns as confirmed has its final values, whenever the bar
\* closed between the request, the venue's answer and the look at the clock.
ConfirmedIsFinal ==
    call.pc = "done" => \A i \in DOMAIN call.result.bars: call.result.bars[i].final

\* The same for the calls that trading and recovery rest on.
PolledIsFinal == call.pc = "done" /\ call.op # "recent" =>
    \A i \in DOMAIN call.result.bars: call.result.bars[i].final

\* A page of a range continues right after the bar it starts after: it leaves
\* out no bar, runs in order, does not pass the end, and has a bar if there is
\* one (fetch_remote_confirmed_bars_range).
RangeIsNext ==
    Returned("range") /\ call.startAfter # None /\ call.limit > 0 =>
        LET next == Ascending({b \in traded: call.startAfter < b /\ b <= call.endAt})
        IN IsPrefix(Bars, next) /\ (next # <<>> => Bars # <<>>)

\* A page that says the history is exhausted leaves no bar up to the end.
ExhaustedIsTrue ==
    Returned("range") /\ call.startAfter # None /\ call.result.exhausted =>
        \A b \in traded: call.startAfter < b /\ b <= call.endAt => Contains(Bars, b)

\* Recent bars are the newest confirmed ones without a gap, in order: up to the
\* last one that was confirmed when the call began, or later, and as many as
\* were asked for and fit into one answer, unless the lookback ends before.
RecentIsNewest ==
    Returned("recent") /\ call.limit > 0 =>
        LET known == {b \in traded: Closes(b) <= call.clock /\ Opens(b) >= Request(call).from}
            wanted == LeastOf(call.limit, RowCap - 1)
        IN /\ Len(Bars) <= call.limit
           /\ Len(Bars) >= LeastOf(wanted, Cardinality(known))
           /\ known # {} /\ wanted > 0 =>
                /\ Last(Bars) >= Max(known)
                /\ Bars = Ascending({b \in traded: Bars[1] <= b /\ b <= Last(Bars)})

\* The latest bar is the newest one that was confirmed when the call began.
LatestIsNewest ==
    Returned("latest") => Bars = <<Max({b \in traded: Closes(b) <= call.clock})>>

=============================================================================
