---------------------------- MODULE MCLaneCycle ----------------------------
(***************************************************************************)
(* The trading cycle for TLC: two bots that share an account and a symbol, *)
(* with confirmed bars only, over a crash; and the same bots in lots of    *)
(* two, with manual signals next to the bars.  A behaviour is one of       *)
(* either instance, chosen at the start.                                   *)
(***************************************************************************)
EXTENDS LaneCycle, TLC

CONSTANTS l1, l2, b1, b2, s1, none,
          Parts          \* the instances to explore

OwnBots == (l1 :> b1) @@ (l2 :> b2)
SharedSymbol == (l1 :> s1) @@ (l2 :> s1)
Halves == (b1 :> 50) @@ (b2 :> 80)
SomeBalances == {4, none}

VARIABLE part

Manual == INSTANCE LaneCycle WITH
    QuantityStep <- 2, Kinds <- {"confirmed", "manual"}, MaxBar <- 2, MaxCycles <- 2,
    MaxCrashes <- 0

MCInit == part \in Parts /\ Init

MCNext ==
    /\ UNCHANGED part
    /\ \/ part = "bars" /\ Next
       \/ part = "manual" /\ Manual!Next

MCVars == <<part, vars>>

MCSpec == MCInit /\ [][MCNext]_MCVars
=============================================================================
