----------------------------- MODULE MCLifecycle -----------------------------
(***************************************************************************)
(* Small services for TLC: two bots with one symbol each, a live one and a *)
(* paper one; and one paper bot with two symbols.  A behaviour is one of a *)
(* single service, chosen at the start; the other one rests in an initial  *)
(* state of its own.                                                       *)
(***************************************************************************)
EXTENDS Lifecycle, TLC

CONSTANTS b1, b2, l1, l2,
          Parts          \* the services to explore

TwoBots == (l1 :> b1) @@ (l2 :> b2)

VARIABLES part,
          kill2, st2, blocked2, resume2, pos2, op2, snap2, posRec2, recs2, faults2, crashes2

oneVars == <<kill2, st2, blocked2, resume2, pos2, op2, snap2, posRec2, recs2, faults2,
             crashes2>>

One == INSTANCE Lifecycle WITH
    Bots <- {b1}, BotOf <- [l \in {l1, l2} |-> b1], Enabled <- {b1}, Live <- {},
    RemoteSnapshot <- {}, MaxCrashes <- 2,
    kill <- kill2, st <- st2, blocked <- blocked2, resume <- resume2, pos <- pos2,
    op <- op2, snap <- snap2, posRec <- posRec2, recs <- recs2, faults <- faults2,
    crashes <- crashes2

MCInit == part \in Parts /\ Init /\ One!Init

MCNext ==
    /\ UNCHANGED part
    /\ \/ part = "two_bots" /\ Next /\ UNCHANGED oneVars
       \/ part = "two_symbols" /\ One!Next /\ UNCHANGED vars

MCVars == <<part, vars, oneVars>>

\* The fairness of Lifecycle, for the bot with two symbols.
MCSpec ==
    /\ MCInit /\ [][MCNext]_MCVars
    /\ WF_oneVars(part = "two_symbols" /\ One!Step)
    /\ WF_oneVars(part = "two_symbols" /\ One!Boot)
-----------------------------------------------------------------------------
\* After a crash the service comes back and startup reconciliation leaves no symbol of
\* the bot Reconciling (Lifecycle!RestartSettles).
EverySymbolSettles == part = "two_symbols" => One!RestartSettles
=============================================================================
