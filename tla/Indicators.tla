----------------------------- MODULE Indicators -----------------------------
(***************************************************************************)
(* The indicator engines: rolling averages, Wilder's RSI, and the signals  *)
(* their crossings give.  A value is a ratio <<numerator, denominator>> of *)
(* integers, None is <<>>; a direction is 1 (buy), -1 (sell) or 0.         *)
(***************************************************************************)
EXTENDS Integers, Sequences, FiniteSetsExt

None == <<>>
Below(p, q) == p[1] * q[2] < q[1] * p[2]

(***************************************************************************)
(* common/crossings.rs.  A series that touches the other without passing   *)
(* it has not crossed.                                                     *)
(***************************************************************************)
Crossover(prevLeft, prevRight, left, right) ==
    /\ prevLeft # None /\ prevRight # None
    /\ Below(prevLeft, prevRight) /\ Below(right, left)

Crossunder(prevLeft, prevRight, left, right) ==
    /\ prevLeft # None /\ prevRight # None
    /\ Below(prevRight, prevLeft) /\ Below(left, right)

(***************************************************************************)
(* common/rolling.rs: a simple moving average, and Wilder's average, which *)
(* is seeded with the mean of its first values.                            *)
(***************************************************************************)
Sma(length) == [length |-> length, values |-> <<>>, sum |-> 0]

SmaUpdate(s, v) ==
    LET values == Append(s.values, v)
    IN  IF Len(values) > s.length
        THEN [s EXCEPT !.values = Tail(values), !.sum = @ + v - Head(values)]
        ELSE [s EXCEPT !.values = values, !.sum = @ + v]

SmaValue(s) == IF Len(s.values) = s.length THEN <<s.sum, s.length>> ELSE None

WilderRma(length) == [length |-> length, samples |-> 0, seed |-> 0, current |-> None]

WilderUpdate(w, v) ==
    IF w.current # None
    THEN LET n == w.current[1]
             d == w.current[2]
         IN  [w EXCEPT !.current = <<n * (w.length - 1) + v * d, d * w.length>>]
    ELSE LET seed == w.seed + v
         IN  [w EXCEPT !.samples = @ + 1, !.seed = seed,
                       !.current = IF w.samples + 1 < w.length THEN None
                                                               ELSE <<seed, w.length>>]

Rsi(length) == [up |-> WilderRma(length), down |-> WilderRma(length), prev |-> None]

RsiUpdate(r, v) ==
    IF r.prev = None THEN [r EXCEPT !.prev = <<v, 1>>]
    ELSE LET change == v - r.prev[1]
         IN  [up |-> WilderUpdate(r.up, Max({change, 0})),
              down |-> WilderUpdate(r.down, Max({-change, 0})),
              prev |-> <<v, 1>>]

\* 100 - 100 / (1 + up / down), and 100 whenever nothing has fallen.
RsiValue(r) ==
    LET u == r.up.current
        d == r.down.current
    IN  IF u = None \/ d = None THEN None
        ELSE IF d[1] = 0 THEN <<100, 1>>
        ELSE <<100 * u[1] * d[2], u[1] * d[2] + d[1] * u[2]>>

(***************************************************************************)
(* The two registered indicators.  An indicator is a record of its         *)
(* configuration; Engine builds its state, Update feeds it one close.      *)
(***************************************************************************)
MaxLength == 10000

ValidSmaCrossover(i) ==
    /\ i.fast \in 1..MaxLength /\ i.slow \in 1..MaxLength
    /\ i.fast < i.slow

ValidRsiThreshold(i) ==
    /\ i.period \in 1..MaxLength
    /\ i.oversold \in 0..99 /\ i.overbought \in 0..99
    /\ i.oversold < i.overbought

ValidIndicator(i) ==
    CASE i.type = "sma_crossover" -> ValidSmaCrossover(i)
      [] i.type = "rsi_threshold" -> ValidRsiThreshold(i)

Engine(i) ==
    IF i.type = "sma_crossover"
    THEN [fast |-> Sma(i.fast), slow |-> Sma(i.slow), prev |-> <<None, None>>]
    ELSE [rsi |-> Rsi(i.period), prev |-> None]

SmaCrossoverUpdate(e, close) ==
    LET fast == SmaUpdate(e.fast, close)
        slow == SmaUpdate(e.slow, close)
        values == <<SmaValue(fast), SmaValue(slow)>>
        full == values[1] # None /\ values[2] # None
    IN  [engine |-> [fast |-> fast, slow |-> slow, prev |-> values],
         direction |->
            CASE full /\ Crossover(e.prev[1], e.prev[2], values[1], values[2]) -> 1
              [] full /\ Crossunder(e.prev[1], e.prev[2], values[1], values[2]) -> -1
              [] OTHER -> 0]

RsiThresholdUpdate(i, e, close) ==
    LET rsi == RsiUpdate(e.rsi, close)
        value == RsiValue(rsi)
        low == <<i.oversold, 1>>
        high == <<i.overbought, 1>>
    IN  [engine |-> [rsi |-> rsi, prev |-> value],
         direction |->
            CASE value # None /\ Crossover(e.prev, low, value, low) -> 1
              [] value # None /\ Crossunder(e.prev, high, value, high) -> -1
              [] OTHER -> 0]

Update(i, e, close) ==
    IF i.type = "sma_crossover" THEN SmaCrossoverUpdate(e, close)
                                ELSE RsiThresholdUpdate(i, e, close)
=============================================================================
