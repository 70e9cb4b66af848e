------------------------------- MODULE Gateway -------------------------------
(***************************************************************************)
(* The gateway and the connector registry behind it: threads that call the *)
(* exchanges of several accounts, one mutex around the registry, and one   *)
(* read-write lock around each account's client.  A round trip runs under  *)
(* the client's read lock; the resilience state of a client (failures,     *)
(* reconnect time, throttle) changes under its write lock, which is taken  *)
(* while the registry is held.                                             *)
(***************************************************************************)
EXTENDS Integers, FiniteSetsExt

CONSTANTS Threads, Accounts,
          Degraded,        \* accounts whose mode the connector does not support
          Windows,         \* throttle windows an exchange may ask for
          BaseBackoff, MaxBackoff, Jitter,   \* jitter in percent
          MaxTime,         \* bound: the clock
          MaxCalls         \* bound: calls begun

VARIABLES now, calls,
          registry,      \* the thread that holds the registry's mutex, or Nobody
          client,        \* client[a]: failures, lastDisconnect, nextReconnect, throttledUntil
          th,            \* th[t]: pc, op, account, and what the thread carries along
          limitedUntil   \* history: the latest end of a throttle window recorded for a

vars == <<now, calls, registry, client, th, limitedUntil>>

Nobody == "nobody"
Never == -1
Checked == "checked"      \* bars and orders: gated by ensure_account_ready
Unchecked == "unchecked"  \* snapshots and symbol constraints
Ops == {Checked, Unchecked}

ConstantsOK ==
    /\ BaseBackoff \in 1 .. MaxBackoff /\ MaxBackoff \in Nat /\ Jitter \in Nat
    /\ Degraded \subseteq Accounts /\ Windows \subseteq Nat
    /\ Nobody \notin Threads

Idle == [pc |-> "idle"]
Healthy == [failures |-> 0, lastDisconnect |-> Never, nextReconnect |-> Never,
            throttledUntil |-> Never]

Init ==
    /\ now = 0 /\ calls = 0
    /\ registry = Nobody
    /\ client = [a \in Accounts |-> Healthy]
    /\ th = [t \in Threads |-> Idle]
    /\ limitedUntil = [a \in Accounts |-> Never]

\* status_from_entry: a mode that failed validation degrades the account.
Connected(a) == a \notin Degraded

Step(t, pc) == th' = [th EXCEPT ![t].pc = pc]
Return(t) == th' = [th EXCEPT ![t] = Idle]

\* Threads in a round trip on account a, and threads that want to change its client.
Readers(a) == {t \in Threads : th[t].pc = "call" /\ th[t].account = a}
Writers(a) == {t \in Threads : /\ th[t].pc \in {"reset", "disconnect", "note"}
                               /\ th[t].account = a}

(***************************************************************************)
(* ConnectorResiliencePolicy and ConnectorResilienceState.                 *)
(***************************************************************************)

ReconnectDelay(failures) ==
    LET raw == Min({BaseBackoff * 2 ^ (Min({failures, 16}) - 1), MaxBackoff})
    IN  Min({raw + (raw * Jitter) \div 100, MaxBackoff})

NoteDisconnect(c, ts) ==
    [c EXCEPT !.failures = @ + 1, !.lastDisconnect = ts,
              !.nextReconnect = ts + ReconnectDelay(c.failures + 1)]

NoteRateLimit(c, ts, window) == [c EXCEPT !.throttledUntil = ts + window]

Begin(t) ==
    \E op \in Ops, a \in Accounts :
        /\ th[t].pc = "idle"
        /\ calls < MaxCalls /\ calls' = calls + 1
        /\ th' = [th EXCEPT ![t] =
                     [pc |-> IF op = Checked THEN "ensure" ELSE "resolve",
                      op |-> op, account |-> a, at |-> Never, window |-> Never]]
        /\ UNCHANGED <<now, registry, client, limitedUntil>>

(***************************************************************************)
(* ensure_account_ready: the registry stays locked from the look at the    *)
(* status to the change of the resilience state.                           *)
(***************************************************************************)

Throttled(a) == client[a].throttledUntil # Never /\ now < client[a].throttledUntil

\* Mutant: the registry is let go between the check and the reset.
EnsureUnlocked(t) ==
    LET a == th[t].account
    IN  /\ th[t].pc = "ensure" /\ registry = Nobody
        /\ IF Throttled(a) THEN Return(t)
           ELSE IF ~Connected(a) THEN th' = [th EXCEPT ![t].pc = "disconnect", ![t].at = now]
           ELSE Step(t, IF client[a] = Healthy THEN "resolve" ELSE "reset")
        /\ UNCHANGED <<now, calls, registry, client, limitedUntil>>

Ensure(t) ==
    LET a == th[t].account
        c == client[a]
    IN  /\ th[t].pc = "ensure" /\ registry = Nobody
        /\ \/ Throttled(a) /\ Return(t) /\ UNCHANGED registry
           \/ /\ ~Throttled(a) /\ Connected(a)
              /\ \/ c = Healthy /\ Step(t, "resolve") /\ UNCHANGED registry
                 \/ c # Healthy /\ Step(t, "reset") /\ registry' = t
           \/ /\ ~Throttled(a) /\ ~Connected(a)
              /\ th' = [th EXCEPT ![t].pc = "disconnect", ![t].at = now]
              /\ registry' = t
        /\ UNCHANGED <<now, calls, client, limitedUntil>>

\* note_account_reconnect_success
Reset(t) ==
    LET a == th[t].account
    IN  /\ th[t].pc = "reset" /\ Readers(a) = {}
        /\ client' = [client EXCEPT ![a] = Healthy]
        /\ registry' = Nobody
        /\ Step(t, "resolve")
        /\ UNCHANGED <<now, calls, limitedUntil>>

\* note_account_disconnect, and the error that ensure_account_ready returns
Disconnect(t) ==
    LET a == th[t].account
    IN  /\ th[t].pc = "disconnect" /\ Readers(a) = {}
        /\ client' = [client EXCEPT ![a] = NoteDisconnect(@, th[t].at)]
        /\ registry' = Nobody
        /\ Return(t)
        /\ UNCHANGED <<now, calls, limitedUntil>>

\* connected_client or client_unchecked: a handle that outlives the lock
Resolve(t) ==
    /\ th[t].pc = "resolve" /\ registry = Nobody
    /\ IF th[t].op = Checked /\ ~Connected(th[t].account) THEN Return(t) ELSE Step(t, "handle")
    /\ UNCHANGED <<now, calls, registry, client, limitedUntil>>

\* The read lock, which is not given out while a writer waits for it.
Call(t) ==
    /\ th[t].pc = "handle" /\ Writers(th[t].account) = {}
    /\ Step(t, "call")
    /\ UNCHANGED <<now, calls, registry, client, limitedUntil>>

\* The answer, an error, or the end of the HTTP client's timeout.
Answer(t) ==
    /\ th[t].pc = "call"
    /\ \/ Return(t)
       \/ \E w \in Windows : th' = [th EXCEPT ![t].pc = "limited", ![t].window = w]
    /\ UNCHANGED <<now, calls, registry, client, limitedUntil>>

\* track_rate_limit: the time is read before the client's lock is taken.
TrackRateLimit(t) ==
    /\ th[t].pc = "limited" /\ registry = Nobody
    /\ registry' = t
    /\ th' = [th EXCEPT ![t].pc = "note", ![t].at = now]
    /\ UNCHANGED <<now, calls, client, limitedUntil>>

Note(t) ==
    LET a == th[t].account
    IN  /\ th[t].pc = "note" /\ Readers(a) = {}
        /\ client' = [client EXCEPT ![a] = NoteRateLimit(@, th[t].at, th[t].window)]
        /\ limitedUntil' = [limitedUntil EXCEPT ![a] = Max({@, th[t].at + th[t].window})]
        /\ registry' = Nobody
        /\ Return(t)
        /\ UNCHANGED <<now, calls>>

Tick ==
    /\ now < MaxTime
    /\ now' = now + 1
    /\ UNCHANGED <<calls, registry, client, th, limitedUntil>>

Continue(t) ==
    \/ Ensure(t) \/ Reset(t) \/ Disconnect(t) \/ Resolve(t)
    \/ Call(t) \/ Answer(t) \/ TrackRateLimit(t) \/ Note(t)

Next == Tick \/ \E t \in Threads : Begin(t) \/ Continue(t)

Spec == Init /\ [][Next]_vars

\* A round trip ends by the client's timeout, and a free lock is taken.
FairSpec == Spec /\ \A t \in Threads : WF_vars(Continue(t))
-----------------------------------------------------------------------------
TypeOK ==
    /\ now \in 0 .. MaxTime /\ calls \in 0 .. MaxCalls
    /\ registry \in Threads \union {Nobody}
    /\ client \in [Accounts -> [failures : 0 .. MaxCalls,
                                lastDisconnect : Never .. MaxTime,
                                nextReconnect : Never .. MaxTime + MaxBackoff,
                                throttledUntil : Never .. MaxTime + Max(Windows)]]
    /\ \A t \in Threads : th[t] = Idle \/ th[t].account \in Accounts

(***************************************************************************)
(* A client has failures exactly while it has a time to reconnect at, and  *)
(* that time lies at least the base and at most the largest backoff after  *)
(* the disconnect, whatever the number of failures and the jitter          *)
(* (reconnect_delay_ms, note_disconnect and note_reconnect_success).       *)
(***************************************************************************)
ResilienceIsConsistent ==
    \A a \in Accounts :
        LET c == client[a]
        IN  /\ c.failures = 0 <=> c.nextReconnect = Never
            /\ c.failures > 0 =>
                   c.nextReconnect - c.lastDisconnect \in BaseBackoff .. MaxBackoff

(***************************************************************************)
(* While a throttle window that was recorded for an account is in force, a *)
(* readiness check of the account fails (track_rate_limit and              *)
(* ensure_account_ready).                                                  *)
(***************************************************************************)
ThrottleServed ==
    [][\A t \in Threads :
          th[t].pc = "ensure" /\ th'[t].pc \in {"reset", "resolve"} =>
              now >= limitedUntil[th[t].account]]_vars

(***************************************************************************)
(* A throttle that is in force is never cleared: a readiness check that    *)
(* found nothing in force resets the client before any thread can record   *)
(* a new window (the registry's lock in ensure_account_ready).             *)
(***************************************************************************)
ThrottleIsKept ==
    [][\A a \in Accounts :
          client[a].throttledUntil > now => client'[a].throttledUntil # Never]_vars

(***************************************************************************)
(* Every call of the gateway returns: no thread waits for ever for the     *)
(* registry or for a client, whichever locks the others hold.              *)
(***************************************************************************)
CallsReturn ==
    \A t \in Threads : th[t].pc # "idle" ~> th[t].pc = "idle"

(***************************************************************************)
(* A round trip for one account does not keep a thread from another        *)
(* account's client or status: nobody holds the registry while waiting for *)
(* the end of a round trip (ConnectorClientHandle).                        *)
(***************************************************************************)
RoundTripsAreIndependent ==
    \A t, u \in Threads :
        /\ th[t].pc \in {"ensure", "resolve"}
        /\ registry = u
        /\ th[u].account # th[t].account
        => Readers(th[u].account) = {}
=============================================================================
