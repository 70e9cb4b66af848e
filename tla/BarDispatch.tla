---------------------------- MODULE BarDispatch ----------------------------
(***************************************************************************)
(* What polling, recovery and warm-up promise to the indicators of a lane. *)
(* `head` is the last bar dispatched to the lane (0: none yet), `seen` the *)
(* bars its indicators have evaluated since the process started and `warm` *)
(* whether the warm-up is over.  Once there is a head, bars reach the      *)
(* indicators in the order of the market and none is left out; only the    *)
(* seeding of a lane that is not warm yet may skip bars.                   *)
(***************************************************************************)
EXTENDS Naturals

CONSTANT Bars  \* timestamps of confirmed bars: 1, 2, ...

VARIABLES head, seen, warm

dispatch == <<head, seen, warm>>

Init ==
    /\ head = 0
    /\ seen = {}
    /\ warm \in BOOLEAN

\* The first bar of a lane can be any bar of the market.
First(b) ==
    /\ head = 0
    /\ head' = b
    /\ seen' = seen \union {b}
    /\ warm => warm'

\* From then on the head advances over bars all of which were evaluated.
Advance(b) ==
    /\ head # 0
    /\ b > head
    /\ head' = b
    /\ seen' = seen \union (head + 1 .. b)
    /\ warm => warm'

\* A cycle that fails may leave its bar evaluated but not dispatched.
Attempt(b) ==
    /\ head = 0 \/ b = head + 1
    /\ seen' = seen \union {b}
    /\ UNCHANGED <<head, warm>>

\* Seeding from recent history: consecutive bars, not always the next ones.
Seed(a, b) ==
    /\ ~warm
    /\ head < a /\ a <= b
    /\ head' = b
    /\ seen' = seen \union (a .. b)
    /\ warm' \in BOOLEAN

\* A restart loses all of it.
Restart ==
    /\ head' = 0
    /\ seen' = {}
    /\ warm' \in BOOLEAN

Next ==
    \/ \E b \in Bars : First(b) \/ Advance(b) \/ Attempt(b)
    \/ \E a, b \in Bars : Seed(a, b)
    \/ Restart

Spec == Init /\ [][Next]_dispatch
=============================================================================
