-------------------------- MODULE MCPreviewStreams --------------------------
(***************************************************************************)
(* The preview streams for TLC.  Sessions of three accounts compete for    *)
(* one worker, with lanes that share a stream, a connector that refuses    *)
(* and tasks that die; or one account has two lanes with streams of their  *)
(* own and a venue that goes down.  A behaviour is one of either instance, *)
(* chosen at the start; each has variables of its own.                     *)
(***************************************************************************)
EXTENDS PreviewStreams, TLC

CONSTANTS a1, a2, a3, l1, l2, l3, l4, s1, s2, s3, s4,
          Parts          \* the instances to explore

\* l1 and l2 share a stream of a1, l3 and l4 have streams of other accounts
ThreeAccounts == <<a1, a2, a3>>
SharedStream == (l1 :> s1) @@ (l2 :> s1) @@ (l3 :> s3) @@ (l4 :> s4)
AnAccountEach == (s1 :> a1) @@ (s3 :> a3) @@ (s4 :> a2)

VARIABLES part,
          runningLanes, session, shown, evaluated, turn, closing, answers,
          moved, wentDown, sent, failed

sessionVars == <<runningLanes, session, shown, evaluated, turn, closing, answers, moved,
                 wentDown, sent, failed>>

\* two lanes with different streams of one account
One == INSTANCE PreviewStreams WITH
    AccountOrder <- <<a1>>,
    StreamOf <- (l1 :> s1) @@ (l2 :> s2),
    AccountOf <- (s1 :> a1) @@ (s2 :> a1),
    Refusing <- {}, MaxMoves <- 2, MaxOutages <- 1, MaxUpdates <- 1, MaxFaults <- 0,
    running <- runningLanes, workers <- session, plane <- shown, lane <- evaluated,
    loop <- turn, shutdown <- closing, up <- answers, moves <- moved,
    outages <- wentDown, updates <- sent, faults <- failed

ASSUME PreviewConstants == ConstantsOK /\ One!ConstantsOK

MCInit == part \in Parts /\ Init /\ One!Init

MCNext ==
    /\ UNCHANGED part
    /\ \/ part = "many" /\ Next /\ UNCHANGED sessionVars
       \/ part = "one" /\ One!Next /\ UNCHANGED vars

MCVars == <<part, vars, sessionVars>>

MCSpec ==
    /\ MCInit /\ [][MCNext]_MCVars
    /\ WF_sessionVars(part = "one" /\ One!LoopStep)
    /\ WF_sessionVars(part = "one" /\ One!OwnStep(a1))
-----------------------------------------------------------------------------
\* A venue that is gone for good is not shown as connected for good
\* (PreviewStreams!OutageIsShown).
OutageShown == part = "one" => One!OutageIsShown

\* The streams of lanes that keep running end up subscribed and stay so
\* (PreviewStreams!WantedIsSubscribed).
WantedSubscribed == part = "one" => One!WantedIsSubscribed
=============================================================================
