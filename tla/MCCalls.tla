------------------------------- MODULE MCCalls -------------------------------
(***************************************************************************)
(* Calls that wait for locks, connections and answers, for TLC: threads    *)
(* that call the exchanges through the gateway, threads that use the       *)
(* journal's file, over crashes and with a thread more than connections,   *)
(* and the call that places an order.  The parts share no variable.  A     *)
(* behaviour is one of a single part, chosen at the start; the others rest *)
(* in an initial state of theirs.                                          *)
(***************************************************************************)
EXTENDS JournalFile, TLC

CONSTANTS t1, t2, t3, a1, a2, o1,
          Parts          \* the parts to explore

VARIABLES part,
          \* the gateway
          now, begun, registry, client, th, limitedUntil,
          \* the order
          orders, orderCalls, snap

gateVars == <<now, begun, registry, client, th, limitedUntil>>
orderVars == <<orders, orderCalls, snap>>

Gate == INSTANCE Gateway WITH
    Threads <- {t1, t2, t3}, Accounts <- {a1, a2}, Degraded <- {a2}, Windows <- {1},
    BaseBackoff <- 1, MaxBackoff <- 5, Jitter <- 50, MaxTime <- 1, MaxCalls <- 3,
    calls <- begun

Crowded == INSTANCE JournalFile WITH
    PoolSize <- 1, Clock <- {1}, MaxCrashes <- 0, MaxPanics <- 2

Order == INSTANCE RemoteOrders WITH
    Venue <- "alpaca", Ids <- {o1}, Side <- o1 :> "buy", QuantityStep <- 1,
    MaxQuantity <- 3, PollAttempts <- 4, BaseFees <- {}, OpenLimit <- 1,
    calls <- orderCalls

ASSUME CallsConstants == Gate!ConstantsOK /\ ConstantsOK /\ Crowded!ConstantsOK

MCInit ==
    /\ part \in Parts
    /\ Gate!Init
    /\ IF part = "crowded" THEN Crowded!Init ELSE Init
    /\ Order!Init /\ (part # "order" => orderCalls[o1].request = 0)

MCNext ==
    /\ UNCHANGED part
    /\ \/ part = "gateway" /\ Gate!Next /\ UNCHANGED <<vars, orderVars>>
       \/ part = "durable" /\ Next /\ UNCHANGED <<gateVars, orderVars>>
       \/ part = "crowded" /\ Crowded!Next /\ UNCHANGED <<gateVars, orderVars>>
       \/ part = "order" /\ Order!Next /\ UNCHANGED <<gateVars, vars>>

MCVars == <<part, gateVars, vars, orderVars>>

\* The fairness of the parts: threads go on, a mutex that is free again and again
\* is got, and a request of the HTTP client ends.
MCSpec ==
    /\ MCInit /\ [][MCNext]_MCVars
    /\ \A t \in {t1, t2, t3}: WF_gateVars(part = "gateway" /\ Gate!Continue(t))
    /\ WF_vars(part = "crowded" /\ (Crowded!Open \/ Crowded!Migrate))
    /\ \A t \in {t1, t2}:
          /\ WF_vars(part = "crowded" /\ Crowded!ThreadStep(t))
          /\ SF_vars(part = "crowded" /\ Crowded!LockWriter(t))
          /\ SF_vars(part = "crowded" /\ Crowded!LockFallback(t))
    /\ WF_orderVars(part = "order" /\ Order!Call(o1))
-----------------------------------------------------------------------------
\* A throttle in force is never cleared by a concurrent readiness check
\* (Gateway!ThrottleIsKept: the registry's lock in ensure_account_ready).
ThrottleIsKept == Gate!ThrottleIsKept

\* Every call returns: of the gateway, whichever locks the other threads hold
\* (Gateway!CallsReturn); of the journal, with a busy pool or a poisoned connection
\* (JournalFile!CallsReturn); and submit_remote_order, though the venue may never
\* finish the order (RemoteOrders!CallReturns).
EveryCallReturns ==
    /\ part = "gateway" => Gate!CallsReturn
    /\ part = "crowded" => Crowded!CallsReturn
    /\ part = "order" => Order!CallReturns
=============================================================================
