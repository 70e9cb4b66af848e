---------------------------- MODULE PreviewProofs ----------------------------
(***************************************************************************)
(* The preview loop keeps its sessions within the limit and within their   *)
(* accounts, and never hands a lane an older preview after a newer one:    *)
(* for any accounts, streams and lanes, capacities of the queues, outages, *)
(* dropped events, sessions that die and lanes that fail.                  *)
(***************************************************************************)
EXTENDS PreviewStreams, FiniteSetTheorems, TLAPS

(* A nonempty set of indices has a largest one. *)
LEMMA LargestIndex ==
    ASSUME NEW n \in Nat, NEW J \in SUBSET (1 .. n), J # {}
    PROVE  \E m \in J : \A j \in J : j <= m
<1> DEFINE Above(j) == {k \in 1 .. n : k > j}
           T == {Above(j) : j \in J}
           R == StrictSubsetOrdering(1 .. n)
<1>1. IsFiniteSet(1 .. n)
  BY FS_Interval
<1>2. T \subseteq FiniteSubsetsOf(1 .. n) /\ T # {}
  <2>1. T \subseteq SUBSET (1 .. n) /\ T # {}
    BY ZenonT(30)
  <2> HIDE DEF T
  <2> QED  BY <1>1, <2>1, FS_FiniteSubsetsOfFinite, ZenonT(30)
<1>3. IsWellFoundedOn(R, FiniteSubsetsOf(1 .. n))
  BY FS_StrictSubsetOrderingWellFounded
<1> HIDE DEF T
<1>4. \E x \in T : \A y \in T : ~(<<y, x>> \in R)
  <2> HIDE DEF R
  <2> QED  BY <1>2, <1>3, WFMin
<1>5. PICK m \in J : \A y \in T : ~(<<y, Above(m)>> \in R)
  BY <1>4, ZenonT(30) DEF T
<1>6. ASSUME NEW j \in J, j > m PROVE FALSE
  <2>1. Above(j) \subseteq Above(m) /\ j \in Above(m) /\ j \notin Above(j)
    BY <1>6
  <2>2. Above(j) \in T
    BY DEF T
  <2>3. <<Above(j), Above(m)>> \in R
    <3>1. Above(j) \in SUBSET (1 .. n) /\ Above(m) \in SUBSET (1 .. n) /\ Above(j) # Above(m)
      BY <2>1
    <3> HIDE DEF Above
    <3> QED  BY <2>1, <3>1 DEF StrictSubsetOrdering
  <2> QED  BY <1>5, <2>2, <2>3
<1> QED  BY <1>6

(* The accounts admitted fit under the cap next to the sessions that go on: the
   last of them has all the others before it (partition_candidates). *)
LEMMA AdmittedFit ==
    ASSUME NEW n \in Nat, AccountOrder \in [1 .. n -> Accounts], MaxWorkers \in Nat,
           NEW live, IsFiniteSet(live), Cardinality(live) <= MaxWorkers, NEW wanted
    PROVE  /\ IsFiniteSet(PartitionCandidates(live, wanted))
           /\ Cardinality(live) + Cardinality(PartitionCandidates(live, wanted)) <= MaxWorkers
<1> DEFINE Waits(k) == wanted[AccountOrder[k]] # {} /\ AccountOrder[k] \notin live
           Before(j) == {k \in 1 .. j : Waits(k)}
           J == {j \in 1 .. n :
                    Waits(j) /\ Cardinality(live) + Cardinality(Before(j)) <= MaxWorkers}
           A == {AccountOrder[j] : j \in J}
           c == Cardinality(live)
<1>0. c \in Nat
  BY FS_CardinalityType
<1>1. PartitionCandidates(live, wanted) = A
  <2>1. DOMAIN AccountOrder = 1 .. n
    OBVIOUS
  <2> QED  BY <2>1, Zenon DEF PartitionCandidates
<1>2. IsFiniteSet(J) /\ Cardinality(J) \in Nat
  <2>1. IsFiniteSet(1 .. n)
    BY FS_Interval
  <2>2. J \in SUBSET (1 .. n)
    OBVIOUS
  <2> HIDE DEF J
  <2> QED  BY <2>1, <2>2, FS_Subset, FS_CardinalityType, ZenonT(30)
<1>3. IsFiniteSet(A) /\ Cardinality(A) \in Nat /\ Cardinality(A) <= Cardinality(J)
  <2> DEFINE f == [j \in J |-> AccountOrder[j]]
  <2> HIDE DEF J
  <2>1. f \in Surjection(J, A)
    BY DEF Surjection
  <2> HIDE DEF f, A
  <2> QED  BY <1>2, <2>1, FS_Surjection, FS_CardinalityType
<1>4. c + Cardinality(J) <= MaxWorkers
  <2>1. CASE J = {}
    <3> HIDE DEF J, c
    <3> QED  BY <1>0, <2>1, FS_EmptySet DEF c
  <2>2. CASE J # {}
    <3>1. PICK m \in J : \A j \in J : j <= m
      <4> HIDE DEF J
      <4>1. J \in SUBSET (1 .. n)
        BY DEF J
      <4> QED  BY <2>2, <4>1, LargestIndex, ZenonT(30)
    <3>2. J \subseteq Before(m) /\ m \in Nat
      <4>1. m \in 1 .. n
        BY <3>1
      <4>2. ASSUME NEW j \in J PROVE j \in 1 .. m /\ Waits(j)
        <5>1. j \in 1 .. n /\ Waits(j)
          <6> HIDE DEF Waits, Before
          <6> QED  OBVIOUS
        <5>2. j <= m
          BY <3>1, ZenonT(30)
        <5> HIDE DEF J, Waits
        <5> QED  BY <4>1, <5>1, <5>2
      <4> HIDE DEF J, Waits
      <4> QED  BY <4>1, <4>2
    <3>3. IsFiniteSet(Before(m)) /\ Cardinality(Before(m)) \in Nat
      <4>1. IsFiniteSet(1 .. m)
        BY <3>2, FS_Interval
      <4>2. Before(m) \in SUBSET (1 .. m)
        OBVIOUS
      <4> HIDE DEF Before
      <4> QED  BY <4>1, <4>2, FS_Subset, FS_CardinalityType
    <3>4. Cardinality(J) <= Cardinality(Before(m))
      <4> HIDE DEF J, Before
      <4> QED  BY <3>2, <3>3, FS_Subset, ZenonT(30)
    <3>5. c + Cardinality(Before(m)) <= MaxWorkers
      BY <3>1
    <3> HIDE DEF J, Before, c
    <3> QED  BY <1>0, <1>2, <3>3, <3>4, <3>5
  <2> QED  BY <2>1, <2>2, ZenonT(30)
<1> HIDE DEF A, J, c
<1>5. c + Cardinality(A) <= MaxWorkers
  BY <1>0, <1>2, <1>3, <1>4
<1> QED  BY <1>1, <1>3, <1>5 DEF c

-----------------------------------------------------------------------------
Own(a) == {s \in Streams : AccountOf[s] = a}

SessionsOf(a) ==
    [subs : SUBSET Own(a), cmds : Seq(SUBSET Own(a)), events : Seq(Events),
     task : {"idle", "connect", "open", "backoff", "ended"},
     desired : SUBSET Own(a), active : SUBSET Own(a)]

Loops == [at : {"top", "managed", "drain", "stopped"}, wanted : [Accounts -> SUBSET Streams],
          todo : SUBSET Accounts, turn : Accounts \union {None}]

(***************************************************************************)
(* Strengthens SessionsAreBounded: whatever a session is told, queued or   *)
(* wanted is a stream of its account, and the sessions the loop still has  *)
(* to drain are live.                                                      *)
(***************************************************************************)
SessionInv ==
    /\ running \subseteq Lanes /\ updates \in Nat
    /\ workers = [a \in Accounts |-> workers[a]]
    /\ \A a \in Live : workers[a] \in SessionsOf(a)
    /\ IsFiniteSet(Live) /\ Cardinality(Live) <= MaxWorkers
    /\ loop \in Loops
    /\ \A a \in Accounts : loop.wanted[a] \subseteq Own(a)
    /\ loop.at = "drain" => /\ loop.todo \subseteq Live
                            /\ loop.turn = None \/ loop.turn \in loop.todo
    /\ loop.at = "managed" => loop.turn = None

(* A session of an account is a session. *)
LEMMA OwnIsSession ==
    ASSUME NEW a
    PROVE  SessionsOf(a) \subseteq Sessions
<1>1. SUBSET Own(a) \subseteq SUBSET Streams
  BY DEF Own
<1>2. ASSUME NEW c \in Seq(SUBSET Own(a)) PROVE c \in Seq(SUBSET Streams)
  BY <1>1, <1>2
<1> QED  BY <1>1, <1>2 DEF SessionsOf, Sessions

(* A session may be replaced by another state of it. *)
LEMMA SessionMoves ==
    ASSUME ConstantsOK, SessionInv, NEW a \in Live, NEW w \in SessionsOf(a),
           workers' = [workers EXCEPT ![a] = w]
    PROVE  /\ Live' = Live
           /\ workers' = [b \in Accounts |-> workers'[b]]
           /\ \A b \in Live : workers'[b] \in SessionsOf(b)
<1>1. w # None
  BY OwnIsSession DEF ConstantsOK
<1>2. a \in Accounts /\ workers[a] # None
  BY DEF Live
<1>3. workers' = [b \in Accounts |-> IF b = a THEN w ELSE workers[b]]
  BY Zenon DEF SessionInv
<1>4. Live' = Live
  BY <1>1, <1>2, <1>3 DEF Live
<1>5. \A b \in Live : b \in Accounts
  BY DEF Live
<1>6. \A b \in Live : workers'[b] \in SessionsOf(b)
  BY <1>3, <1>5 DEF SessionInv
<1>7. workers' = [b \in Accounts |-> workers'[b]]
  BY <1>3, ZenonT(30)
<1> QED  BY <1>4, <1>6, <1>7

(* So may it be ended. *)
LEMMA SessionEnds ==
    ASSUME ConstantsOK, SessionInv, NEW a \in Live, workers' = [workers EXCEPT ![a] = None]
    PROVE  /\ Live' = Live \ {a}
           /\ workers' = [b \in Accounts |-> workers'[b]]
           /\ \A b \in Live' : workers'[b] \in SessionsOf(b)
           /\ IsFiniteSet(Live') /\ Cardinality(Live') <= MaxWorkers
<1>1. workers' = [b \in Accounts |-> IF b = a THEN None ELSE workers[b]]
  BY Zenon DEF SessionInv
<1>2. Live' = Live \ {a}
  BY <1>1 DEF Live
<1>3. \A b \in Live' : workers'[b] = workers[b]
  BY <1>1, <1>2 DEF Live
<1>4. \A b \in Live' : workers'[b] \in SessionsOf(b)
  BY <1>2, <1>3 DEF SessionInv
<1>5. workers' = [b \in Accounts |-> workers'[b]]
  BY <1>1, ZenonT(30)
<1>6. IsFiniteSet(Live') /\ Cardinality(Live') <= MaxWorkers
  <2> DEFINE L == Live
             L2 == Live'
  <2>1. IsFiniteSet(L) /\ Cardinality(L) <= MaxWorkers /\ MaxWorkers \in Nat
    BY DEF SessionInv, ConstantsOK
  <2>2. L2 \in SUBSET L
    BY <1>2
  <2> HIDE DEF L, L2
  <2>3. IsFiniteSet(L2) /\ Cardinality(L2) <= Cardinality(L)
    BY <2>1, <2>2, FS_Subset
  <2>4. Cardinality(L2) <= MaxWorkers
    BY <2>1, <2>3, FS_CardinalityType
  <2> QED  BY <2>3, <2>4 DEF L2
<1> QED  BY <1>2, <1>4, <1>5, <1>6

(* What is sent is queued, unless the queue is full (emit_preview_event). *)
LEMMA EmitKeeps ==
    ASSUME NEW q \in Seq(Events), NEW e \in Events
    PROVE  EmitPreviewEvent(q, e) \in Seq(Events)
  BY DEF EmitPreviewEvent

LEMMA TellKeeps ==
    ASSUME NEW a, NEW w \in SessionsOf(a), NEW state \in States
    PROVE  Tell(w, state) \in SessionsOf(a)
<1>1. State(state) \in Events
  BY DEF State, Events
<1>2. w.events \in Seq(Events)
  BY DEF SessionsOf
<1>3. EmitPreviewEvent(w.events, State(state)) \in Seq(Events)
  BY <1>1, <1>2, EmitKeeps
<1> DEFINE q == EmitPreviewEvent(w.events, State(state))
<1>4. Tell(w, state) = [w EXCEPT !.events = q]
  BY DEF Tell
<1> HIDE DEF q
<1>5. [w EXCEPT !.events = q] \in SessionsOf(a)
  BY <1>3, ZenonT(30) DEF SessionsOf, q
<1> QED  BY <1>4, <1>5

LEMMA TaskKeeps ==
    ASSUME NEW a, NEW w \in SessionsOf(a),
           NEW t \in {"idle", "connect", "open", "backoff", "ended"}
    PROVE  [w EXCEPT !.task = t] \in SessionsOf(a)
  BY DEF SessionsOf

(* The next command of a session names streams of its account. *)
LEMMA NextCommand ==
    ASSUME NEW a, NEW w \in SessionsOf(a), w.cmds # <<>>
    PROVE  /\ Head(w.cmds) \in SUBSET Own(a)
           /\ [w EXCEPT !.cmds = Tail(@), !.desired = Head(w.cmds)] \in SessionsOf(a)
           /\ [w EXCEPT !.task = "idle", !.cmds = Tail(@), !.desired = Head(w.cmds)]
                 \in SessionsOf(a)
           /\ [w EXCEPT !.desired = Head(w.cmds), !.cmds = Tail(@)] \in SessionsOf(a)
<1> DEFINE h == Head(w.cmds)
           r == Tail(w.cmds)
<1>1. h \in SUBSET Own(a) /\ r \in Seq(SUBSET Own(a))
  <2>1. w.cmds \in Seq(SUBSET Own(a))
    BY DEF SessionsOf
  <2> HIDE DEF Own
  <2> QED  BY <2>1
<1> HIDE DEF h, r
<1>2. [w EXCEPT !.cmds = r, !.desired = h] \in SessionsOf(a)
  BY <1>1, ZenonT(30) DEF SessionsOf
<1>3. [w EXCEPT !.task = "idle", !.cmds = r, !.desired = h] \in SessionsOf(a)
  BY <1>1, ZenonT(30) DEF SessionsOf
<1>4. [w EXCEPT !.desired = h, !.cmds = r] \in SessionsOf(a)
  BY <1>1, ZenonT(30) DEF SessionsOf
<1> QED  BY <1>1, <1>2, <1>3, <1>4 DEF h, r

(* A step of the task of a session keeps to the streams of its account. *)
LEMMA TaskStepMoves ==
    ASSUME SessionInv, NEW a \in Accounts, TaskStep(a) \/ Message(a) \/ Die(a)
    PROVE  /\ a \in Live
           /\ \E w \in SessionsOf(a) : workers' = [workers EXCEPT ![a] = w]
           /\ UNCHANGED <<running, loop>>
           /\ updates' \in Nat
<1> DEFINE w == workers[a]
<1>1. a \in Live
  BY DEF TaskStep, Message, Die, Task, AwaitSubscriptions, BeginConnect, Connect,
         ReplaceSubscriptions, Lose, Backoff, Live
<1>2. w \in SessionsOf(a)
  BY <1>1 DEF SessionInv
<1>3. UNCHANGED <<running, loop>>
  BY DEF TaskStep, Message, Die, AwaitSubscriptions, BeginConnect, Connect,
         ReplaceSubscriptions, Lose, Backoff, Become
<1>4. updates' \in Nat
  BY DEF TaskStep, Message, Die, AwaitSubscriptions, BeginConnect, Connect,
         ReplaceSubscriptions, Lose, Backoff, Steady, SessionInv
<1> SUFFICES \E v \in SessionsOf(a) : Become(a, v)
  BY <1>1, <1>3, <1>4, ZenonT(30) DEF Become
<1>5. CASE AwaitSubscriptions(a)
  BY <1>2, <1>5, NextCommand, ZenonT(30) DEF AwaitSubscriptions
<1>6. CASE BeginConnect(a)
  <2>1. [Tell(w, "connecting") EXCEPT !.task = "connect"] \in SessionsOf(a)
    BY <1>2, TellKeeps, TaskKeeps, ZenonT(30) DEF States
  <2> QED  BY <1>6, <2>1 DEF BeginConnect
<1>7. CASE Connect(a)
  <2>1. [Tell(w, "connected") EXCEPT !.task = "open", !.active = w.desired] \in SessionsOf(a)
    <3> DEFINE v == Tell(w, "connected")
    <3>1. v \in SessionsOf(a) /\ w.desired \in SUBSET Own(a)
      BY <1>2, TellKeeps, ZenonT(30) DEF States, SessionsOf
    <3> DEFINE d == w.desired
    <3> HIDE DEF v, d
    <3>2. [v EXCEPT !.task = "open", !.active = d] \in SessionsOf(a)
      BY <3>1, ZenonT(30) DEF SessionsOf, d
    <3> QED  BY <3>2 DEF v, d
  <2>2. [Tell(w, "disconnected") EXCEPT !.task = "backoff"] \in SessionsOf(a)
    BY <1>2, TellKeeps, TaskKeeps, ZenonT(30) DEF States
  <2>3. [Tell(Tell(w, "connected"), "disconnected") EXCEPT !.task = "backoff"] \in SessionsOf(a)
    BY <1>2, TellKeeps, TaskKeeps, ZenonT(30) DEF States
  <2> QED  BY <1>7, <2>1, <2>2, <2>3 DEF Connect
<1>8. CASE ReplaceSubscriptions(a)
  <2> DEFINE next == Head(w.cmds)
             v == [w EXCEPT !.cmds = Tail(@), !.desired = next]
  <2>1. v \in SessionsOf(a) /\ next \in SUBSET Own(a)
    BY <1>2, <1>8, NextCommand, ZenonT(30) DEF ReplaceSubscriptions
  <2>2. Become(a, [Tell(v, "disconnected") EXCEPT !.task = "backoff"])
            \/ Become(a, [v EXCEPT !.active = next])
    BY <1>8 DEF ReplaceSubscriptions
  <2> HIDE DEF v, next
  <2>3. [Tell(v, "disconnected") EXCEPT !.task = "backoff"] \in SessionsOf(a)
    BY <2>1, TellKeeps, TaskKeeps, ZenonT(30) DEF States
  <2>4. [v EXCEPT !.active = next] \in SessionsOf(a)
    BY <2>1 DEF SessionsOf
  <2> QED  BY <2>2, <2>3, <2>4
<1>9. CASE Lose(a)
  <2>1. [Tell(w, "disconnected") EXCEPT !.task = "backoff"] \in SessionsOf(a)
    BY <1>2, TellKeeps, TaskKeeps, ZenonT(30) DEF States
  <2> QED  BY <1>9, <2>1 DEF Lose
<1>10. CASE Backoff(a)
  BY <1>2, <1>10, NextCommand, TaskKeeps, ZenonT(30) DEF Backoff
<1>11. CASE Message(a)
  <2>1. PICK s \in w.active, phase \in {"preview", "confirmed"} :
          Become(a, [w EXCEPT !.events = EmitPreviewEvent(@, BarUpdate(s, updates', phase))])
    BY <1>11 DEF Message
  <2>2. s \in Streams
    BY <1>2 DEF SessionsOf, Own
  <2>3. BarUpdate(s, updates', phase) \in Events
    BY <1>4, <2>2 DEF BarUpdate, Events
  <2> DEFINE q == EmitPreviewEvent(w.events, BarUpdate(s, updates', phase))
  <2>4. q \in Seq(Events)
    BY <1>2, <2>3, EmitKeeps DEF SessionsOf
  <2>5. Become(a, [w EXCEPT !.events = q])
    BY <2>1
  <2> HIDE DEF q
  <2>6. [w EXCEPT !.events = q] \in SessionsOf(a)
    BY <1>2, <2>4, ZenonT(30) DEF SessionsOf
  <2> QED  BY <2>5, <2>6
<1>12. CASE Die(a)
  <2>1. [w EXCEPT !.task = "ended"] \in SessionsOf(a)
    BY <1>2, TaskKeeps, ZenonT(30)
  <2> QED  BY <1>12, <2>1 DEF Die
<1> QED  BY <1>5, <1>6, <1>7, <1>8, <1>9, <1>10, <1>11, <1>12 DEF TaskStep

-----------------------------------------------------------------------------
(* The streams wanted of an account are its own (effective_preview_streams_by_account). *)
LEMMA WantedIsOwn ==
    ASSUME ConstantsOK, SessionInv
    PROVE  /\ EffectivePreviewStreams \in [Accounts -> SUBSET Streams]
           /\ \A a \in Accounts : EffectivePreviewStreams[a] \subseteq Own(a)
<1>1. ASSUME NEW l \in running PROVE StreamOf[l] \in Streams
  BY <1>1 DEF ConstantsOK, SessionInv
<1> QED  BY <1>1 DEF EffectivePreviewStreams, Own

(* manage_preview_sessions: sessions are only added while there is room. *)
LEMMA ManageKeeps ==
    ASSUME ConstantsOK, SessionInv, ManageSessions
    PROVE  SessionInv'
<1> DEFINE wanted == EffectivePreviewStreams
           removed == {a \in Live : wanted[a] = {}}
           admitted == PartitionCandidates(Live \ removed, wanted)
           fresh == admitted \ Refusing
<1>1. /\ workers' = [a \in Accounts |-> IF a \in fresh THEN NewSession(wanted[a])
                                        ELSE IF a \in removed THEN None ELSE workers[a]]
      /\ loop' = Loop("managed", wanted, {}, None)
      /\ UNCHANGED <<running, updates>>
  BY DEF ManageSessions, bounds
<1>2. /\ wanted \in [Accounts -> SUBSET Streams]
      /\ \A a \in Accounts : wanted[a] \in SUBSET Own(a)
  BY WantedIsOwn
<1> DEFINE stay == Live \ removed
<1>3. PICK n \in Nat : AccountOrder \in [1 .. n -> Accounts]
  BY DEF ConstantsOK, Accounts
<1>4. /\ IsFiniteSet(stay) /\ Cardinality(stay) <= MaxWorkers /\ MaxWorkers \in Nat
      /\ Cardinality(stay) \in Nat
  <2> DEFINE L == Live
  <2>1. IsFiniteSet(L) /\ Cardinality(L) <= MaxWorkers /\ MaxWorkers \in Nat
    BY DEF SessionInv, ConstantsOK
  <2>2. stay \in SUBSET L
    OBVIOUS
  <2> HIDE DEF L, stay
  <2>3. IsFiniteSet(stay) /\ Cardinality(stay) <= Cardinality(L)
    BY <2>1, <2>2, FS_Subset
  <2> QED  BY <2>1, <2>3, FS_CardinalityType
<1>5. /\ IsFiniteSet(admitted) /\ Cardinality(admitted) \in Nat
      /\ Cardinality(stay) + Cardinality(admitted) <= MaxWorkers
  <2> HIDE DEF wanted, stay
  <2>1. /\ IsFiniteSet(PartitionCandidates(stay, wanted))
        /\ Cardinality(stay) + Cardinality(PartitionCandidates(stay, wanted)) <= MaxWorkers
    BY <1>3, <1>4, AdmittedFit
  <2> QED  BY <2>1, FS_CardinalityType DEF stay
<1>6. ASSUME NEW a \in Accounts PROVE NewSession(wanted[a]) \in SessionsOf(a)
  <2> DEFINE s == wanted[a]
  <2>1. s \in SUBSET Own(a)
    BY <1>2
  <2> HIDE DEF s
  <2>2. <<s>> \in Seq(SUBSET Own(a)) /\ <<>> \in Seq(Events)
    BY <2>1
  <2> DEFINE c == <<s>>
  <2>3. NewSession(s) = [subs |-> s, cmds |-> c, events |-> <<>>, task |-> "idle",
                         desired |-> {}, active |-> {}]
    BY DEF NewSession
  <2> HIDE DEF c
  <2>4. NewSession(s) \in SessionsOf(a)
    BY <2>1, <2>2, <2>3 DEF SessionsOf, c
  <2> QED  BY <2>4 DEF s
<1>7. Live' \subseteq stay \union admitted
  <2> HIDE DEF wanted
  <2>1. ASSUME NEW a \in Live', a \notin fresh PROVE a \in stay
    <3>1. a \in Accounts /\ workers'[a] # None
      BY <2>1 DEF Live
    <3>2. a \notin removed /\ workers[a] # None
      BY <1>1, <2>1, <3>1
    <3> QED  BY <3>1, <3>2 DEF Live
  <2> QED  BY <2>1
<1>8. IsFiniteSet(Live') /\ Cardinality(Live') <= MaxWorkers
  <2> DEFINE L2 == Live'
             U == stay \union admitted
             i == stay \cap admitted
  <2>1. L2 \in SUBSET U
    BY <1>7
  <2> HIDE DEF L2, admitted, stay
  <2>2. /\ IsFiniteSet(U)
        /\ Cardinality(U) = Cardinality(stay) + Cardinality(admitted) - Cardinality(i)
    BY <1>4, <1>5, FS_Union, ZenonT(30)
  <2>3. Cardinality(i) \in Nat
    BY <1>4, FS_Intersection, FS_CardinalityType, ZenonT(30)
  <2> HIDE DEF U, i
  <2>4. IsFiniteSet(L2) /\ Cardinality(L2) <= Cardinality(U) /\ Cardinality(L2) \in Nat
    BY <2>1, <2>2, FS_Subset, FS_CardinalityType
  <2>5. Cardinality(L2) <= MaxWorkers
    BY <1>4, <1>5, <2>2, <2>3, <2>4
  <2> QED  BY <2>4, <2>5 DEF L2
<1>9. ASSUME NEW a \in Live' PROVE workers'[a] \in SessionsOf(a)
  <2>1. a \in Accounts /\ workers'[a] # None
    BY DEF Live
  <2>2. CASE a \in fresh
    <3> HIDE DEF wanted, fresh, removed
    <3> QED  BY <1>1, <1>6, <2>1, <2>2
  <2>3. CASE a \notin fresh
    <3>1. workers'[a] = workers[a]
      <4> HIDE DEF wanted, fresh, removed
      <4> QED  BY <1>1, <2>1, <2>3
    <3>2. a \in Live
      BY <2>1, <3>1 DEF Live
    <3> QED  BY <3>1, <3>2 DEF SessionInv
  <2> QED  BY <2>2, <2>3
<1>10. workers' = [a \in Accounts |-> workers'[a]]
  <2> HIDE DEF wanted, fresh, removed
  <2> QED  BY <1>1
<1>11. /\ loop' \in Loops /\ loop'.at = "managed" /\ loop'.turn = None
       /\ \A a \in Accounts : loop'.wanted[a] \subseteq Own(a)
  <2> HIDE DEF wanted
  <2> QED  BY <1>1, <1>2 DEF Loop, Loops
<1> QED  BY <1>1, <1>8, <1>9, <1>10, <1>11, ZenonT(30) DEF SessionInv

(* A step that leaves the sessions as they are keeps them within bounds. *)
LEMMA SessionsRest ==
    ASSUME SessionInv, UNCHANGED workers, running' \subseteq Lanes, updates' \in Nat,
           loop' \in Loops, \A a \in Accounts : loop'.wanted[a] \subseteq Own(a),
           loop'.at = "drain" => /\ loop'.todo \subseteq Live
                                 /\ loop'.turn = None \/ loop'.turn \in loop'.todo,
           loop'.at = "managed" => loop'.turn = None
    PROVE  SessionInv'
<1>1. Live' = Live
  BY DEF Live
<1> QED  BY <1>1 DEF SessionInv

(* A step of a session's task. *)
LEMMA TaskKeepsSessions ==
    ASSUME ConstantsOK, SessionInv, NEW a \in Accounts, TaskStep(a) \/ Message(a) \/ Die(a)
    PROVE  SessionInv'
<1>1. a \in Live /\ UNCHANGED <<running, loop>> /\ updates' \in Nat
  BY TaskStepMoves
<1>2. PICK w \in SessionsOf(a) : workers' = [workers EXCEPT ![a] = w]
  BY TaskStepMoves
<1>3. /\ Live' = Live /\ workers' = [b \in Accounts |-> workers'[b]]
      /\ \A b \in Live : workers'[b] \in SessionsOf(b)
  BY <1>1, <1>2, SessionMoves, ZenonT(30)
<1> QED  BY <1>1, <1>3 DEF SessionInv

(* The turn of a session: it is told what is wanted of its account, or ended. *)
LEMMA TurnKeeps ==
    ASSUME ConstantsOK, SessionInv, NEW a \in Accounts, TakeTurn(a)
    PROVE  SessionInv'
<1> DEFINE w == workers[a]
           wanted == loop.wanted[a]
<1>1. /\ loop \in Loops /\ loop.at = "drain" /\ a \in loop.todo /\ loop.todo \subseteq Live
      /\ UNCHANGED <<running, updates>>
  BY DEF TakeTurn, SessionInv, bounds
<1>2. a \in Live /\ w \in SessionsOf(a) /\ wanted \in SUBSET Own(a)
  BY <1>1 DEF SessionInv
<1>3. ASSUME loop' = [loop EXCEPT !.turn = a]
      PROVE  /\ loop' \in Loops /\ loop'.at = "drain" /\ loop'.wanted = loop.wanted
             /\ loop'.todo = loop.todo /\ loop'.turn = a
  BY <1>1, <1>3 DEF Loops
<1>4. CASE loop' = [loop EXCEPT !.turn = a] /\ UNCHANGED workers
  BY <1>1, <1>3, <1>4, SessionsRest DEF SessionInv
<1>5. CASE /\ loop' = [loop EXCEPT !.turn = a]
           /\ workers' = [workers EXCEPT ![a].cmds = Append(@, wanted), ![a].subs = wanted]
  <2> DEFINE c == Append(w.cmds, wanted)
             v == [w EXCEPT !.cmds = c, !.subs = wanted]
  <2>1. c \in Seq(SUBSET Own(a))
    <3>1. w.cmds \in Seq(SUBSET Own(a))
      BY <1>2 DEF SessionsOf
    <3> HIDE DEF wanted
    <3> QED  BY <1>2, <3>1
  <2>2. workers' = [workers EXCEPT ![a] = v]
    <3>1. a \in DOMAIN workers
      BY <1>2 DEF SessionInv, Live
    <3> QED  BY <1>5, <3>1, ZenonT(30)
  <2>3. v \in SessionsOf(a)
    <3> HIDE DEF c, wanted
    <3> QED  BY <1>2, <2>1, ZenonT(30) DEF SessionsOf
  <2> HIDE DEF v
  <2>4. /\ Live' = Live /\ workers' = [b \in Accounts |-> workers'[b]]
        /\ \A b \in Live : workers'[b] \in SessionsOf(b)
    BY <1>2, <2>2, <2>3, SessionMoves, ZenonT(30)
  <2> QED  BY <1>1, <1>3, <1>5, <2>4 DEF SessionInv
<1>6. CASE loop' = [loop EXCEPT !.todo = @ \ {a}] /\ workers' = [workers EXCEPT ![a] = None]
  <2>1. /\ loop' \in Loops /\ loop'.at = "drain" /\ loop'.wanted = loop.wanted
        /\ loop'.todo = loop.todo \ {a} /\ loop'.turn = loop.turn
    BY <1>1, <1>6 DEF Loops
  <2>2. /\ Live' = Live \ {a} /\ workers' = [b \in Accounts |-> workers'[b]]
        /\ \A b \in Live' : workers'[b] \in SessionsOf(b)
        /\ IsFiniteSet(Live') /\ Cardinality(Live') <= MaxWorkers
    BY <1>2, <1>6, SessionEnds, ZenonT(30)
  <2>3. loop.turn = None
    BY DEF TakeTurn
  <2> QED  BY <1>1, <2>1, <2>2, <2>3 DEF SessionInv
<1> QED  BY <1>4, <1>5, <1>6 DEF TakeTurn

(* handle_preview_event takes an event off the queue of the session. *)
LEMMA HandleKeeps ==
    ASSUME ConstantsOK, SessionInv, HandlePreviewEvent
    PROVE  SessionInv'
<1> DEFINE a == loop.turn
           w == workers[a]
<1>1. /\ loop.at = "drain" /\ a # None /\ w.events # <<>>
      /\ workers' = [workers EXCEPT ![a].events = Tail(@)]
      /\ UNCHANGED <<running, loop, updates>>
  BY ZenonT(30) DEF HandlePreviewEvent
<1>2. a \in Live /\ w \in SessionsOf(a)
  BY <1>1 DEF SessionInv
<1> DEFINE q == Tail(w.events)
           v == [w EXCEPT !.events = q]
<1>3. q \in Seq(Events)
  BY <1>1, <1>2 DEF SessionsOf
<1>4. workers' = [workers EXCEPT ![a] = v]
  BY <1>1
<1>5. v \in SessionsOf(a)
  <2> HIDE DEF q
  <2> QED  BY <1>2, <1>3, ZenonT(30) DEF SessionsOf
<1> HIDE DEF v
<1>6. /\ Live' = Live /\ workers' = [b \in Accounts |-> workers'[b]]
      /\ \A b \in Live : workers'[b] \in SessionsOf(b)
  BY <1>2, <1>4, <1>5, SessionMoves, ZenonT(30)
<1> QED  BY <1>1, <1>6, ZenonT(30) DEF SessionInv

(* The turn is over; a session whose task is gone ends with it. *)
LEMMA EndTurnKeeps ==
    ASSUME ConstantsOK, SessionInv, EndTurn
    PROVE  SessionInv'
<1> DEFINE a == loop.turn
<1>1. /\ loop \in Loops /\ loop.at = "drain" /\ a # None
      /\ loop' = [loop EXCEPT !.turn = None, !.todo = @ \ {a}]
      /\ UNCHANGED <<running, updates>>
  BY DEF EndTurn, SessionInv, bounds
<1>2. a \in Live /\ loop.todo \subseteq Live
  BY <1>1 DEF SessionInv
<1>3. /\ loop' \in Loops /\ loop'.at = "drain" /\ loop'.wanted = loop.wanted
      /\ loop'.todo = loop.todo \ {a} /\ loop'.turn = None
  BY <1>1, ZenonT(30) DEF Loops
<1>4. CASE UNCHANGED workers
  BY <1>1, <1>2, <1>3, <1>4, SessionsRest DEF SessionInv
<1>5. CASE workers' = [workers EXCEPT ![a] = None]
  <2>1. /\ Live' = Live \ {a} /\ workers' = [b \in Accounts |-> workers'[b]]
        /\ \A b \in Live' : workers'[b] \in SessionsOf(b)
        /\ IsFiniteSet(Live') /\ Cardinality(Live') <= MaxWorkers
    <3> HIDE DEF a
    <3> QED  BY <1>2, <1>5, SessionEnds, ZenonT(30)
  <2> QED  BY <1>1, <1>2, <1>3, <2>1 DEF SessionInv
<1> QED  BY <1>4, <1>5 DEF EndTurn

(* The steps of the loop that take or end no session of their own. *)
LEMMA LoopRests ==
    ASSUME SessionInv, BeginDrain \/ Sleep
    PROVE  SessionInv'
<1>1. loop \in Loops /\ Live \subseteq Accounts
  BY DEF SessionInv, Live
<1>2. UNCHANGED <<workers, running, updates>>
  BY DEF BeginDrain, Sleep, bounds
<1>3. CASE BeginDrain
  <2>1. loop' = [loop EXCEPT !.at = "drain", !.todo = Live] /\ loop.at = "managed"
    BY <1>3 DEF BeginDrain
  <2>2. /\ loop' \in Loops /\ loop'.wanted = loop.wanted
        /\ loop'.todo = Live /\ loop'.turn = loop.turn
    BY <1>1, <2>1, ZenonT(30) DEF Loops
  <2>3. loop.turn = None
    BY <2>1 DEF SessionInv
  <2> QED  BY <1>2, <2>2, <2>3, SessionsRest DEF SessionInv
<1>4. CASE Sleep
  <2>1. loop' = [loop EXCEPT !.at = "top"]
    BY <1>4 DEF Sleep
  <2>2. loop' \in Loops /\ loop'.wanted = loop.wanted /\ loop'.at = "top"
    BY <1>1, <2>1 DEF Loops
  <2> QED  BY <1>2, <2>2, SessionsRest DEF SessionInv
<1> QED  BY <1>3, <1>4

(* The loop that stops ends every session. *)
LEMMA CloseKeeps ==
    ASSUME ConstantsOK, SessionInv, Close
    PROVE  SessionInv'
<1>1. /\ workers' = [a \in Accounts |-> None] /\ loop' = [loop EXCEPT !.at = "stopped"]
      /\ UNCHANGED <<running, updates>> /\ loop \in Loops
  BY DEF Close, SessionInv, bounds
<1>2. Live' = {}
  BY <1>1 DEF Live
<1>3. loop' \in Loops /\ loop'.wanted = loop.wanted /\ loop'.at = "stopped"
  BY <1>1 DEF Loops
<1>4. IsFiniteSet(Live') /\ Cardinality(Live') <= MaxWorkers
  <2>1. IsFiniteSet({}) /\ Cardinality({}) = 0 /\ MaxWorkers \in Nat
    BY FS_EmptySet DEF ConstantsOK
  <2> QED  BY <1>2, <2>1
<1>5. workers' = [a \in Accounts |-> workers'[a]]
  BY <1>1
<1> QED  BY <1>1, <1>2, <1>3, <1>4, <1>5 DEF SessionInv

(* Lanes, operator and venue do not touch the sessions. *)
LEMMA RestKeeps ==
    ASSUME SessionInv, MoveLane \/ RequestShutdown \/ GoDown \/ ComeBack \/ UNCHANGED vars
    PROVE  SessionInv'
<1>1. UNCHANGED <<workers, loop, updates>>
  BY DEF MoveLane, RequestShutdown, GoDown, ComeBack, vars, bounds
<1>2. running' \subseteq Lanes
  BY DEF MoveLane, RequestShutdown, GoDown, ComeBack, vars, SessionInv
<1> QED  BY <1>1, <1>2, SessionsRest DEF SessionInv

(* The sessions' invariant holds along every run of the loop. *)
LEMMA SessionsKept == ConstantsOK => (Spec => []SessionInv)
<1> SUFFICES ASSUME ConstantsOK PROVE Spec => []SessionInv
  OBVIOUS
<1>1. Init => SessionInv
  <2> SUFFICES ASSUME Init PROVE SessionInv
    OBVIOUS
  <2>1. Live = {} /\ workers = [a \in Accounts |-> workers[a]]
    BY DEF Init, Live
  <2>2. IsFiniteSet({}) /\ Cardinality({}) = 0 /\ MaxWorkers \in Nat
    BY FS_EmptySet DEF ConstantsOK
  <2>3. /\ loop \in Loops /\ loop.at = "top" /\ \A a \in Accounts : loop.wanted[a] \subseteq Own(a)
    BY DEF Init, Loop, Loops
  <2>4. running \subseteq Lanes /\ updates \in Nat
    BY DEF Init
  <2>5. IsFiniteSet(Live) /\ Cardinality(Live) <= MaxWorkers
    BY <2>1, <2>2
  <2> QED  BY <2>1, <2>3, <2>4, <2>5 DEF SessionInv
<1>2. SessionInv /\ [Next]_vars => SessionInv'
  <2> SUFFICES ASSUME SessionInv, [Next]_vars PROVE SessionInv'
    OBVIOUS
  <2>1. CASE LoopStep
    BY <2>1, ManageKeeps, TurnKeeps, HandleKeeps, EndTurnKeeps, LoopRests, CloseKeeps, Zenon
    DEF LoopStep
  <2>2. CASE \E a \in Accounts : TaskStep(a) \/ Message(a) \/ Die(a)
    BY <2>2, TaskKeepsSessions, Zenon
  <2>3. CASE MoveLane \/ RequestShutdown \/ GoDown \/ ComeBack \/ UNCHANGED vars
    BY <2>3, RestKeeps
  <2> QED  BY <2>1, <2>2, <2>3, Zenon DEF Next
<1> QED  BY <1>1, <1>2, PTL DEF Spec

(* However sessions are refused, die and are admitted again, no more than MaxWorkers are
   live, and none has subscribed to another account's stream (manage_preview_sessions
   and partition_candidates). *)
THEOREM PreviewSessionsBounded == ConstantsOK => (Spec => []SessionsAreBounded)
<1>1. SessionInv => SessionsAreBounded
  BY ZenonT(30) DEF SessionInv, SessionsAreBounded, SessionsOf, Own
<1> QED  BY <1>1, SessionsKept, PTL

-----------------------------------------------------------------------------
(***************************************************************************)
(* Strengthens PreviewsInOrder: the bars queued for the lanes of an        *)
(* account are in the order the venue sent them, and none is older than    *)
(* what a lane of the account has evaluated.                               *)
(***************************************************************************)
Hears(a, l) == AccountOf[StreamOf[l]] = a

Ordered(a, q, done, top) ==
    \A i \in 1 .. Len(q) : q[i].kind = "bar" =>
        /\ AccountOf[q[i].stream] = a /\ q[i].n \in Nat /\ q[i].n <= top
        /\ \A l \in Lanes : Hears(a, l) => done[l] <= q[i].n
        /\ \A j \in i .. Len(q) : q[j].kind = "bar" => q[i].n <= q[j].n

Done == [l \in Lanes |-> lane[l].done]

QueueInv ==
    /\ Done \in [Lanes -> Nat]
    /\ \A l \in Lanes : Done[l] <= updates
    /\ \A a \in Live : Ordered(a, workers[a].events, Done, updates)

(* An event that is no bar leaves the bars in their order. *)
LEMMA OrderedState ==
    ASSUME NEW a, NEW q \in Seq(Events), NEW done, NEW top, Ordered(a, q, done, top),
           NEW state
    PROVE  Ordered(a, EmitPreviewEvent(q, State(state)), done, top)
<1> DEFINE e == State(state)
           r == Append(q, e)
<1>1. e.kind # "bar"
  BY DEF State
<1> HIDE DEF e
<1>2. /\ Len(r) = Len(q) + 1 /\ Len(q) \in Nat
      /\ \A i \in 1 .. Len(q) : r[i] = q[i]
      /\ r[Len(q) + 1] = e
  OBVIOUS
<1>3. \A i \in 1 .. Len(r) : r[i].kind = "bar" => i \in 1 .. Len(q)
  BY <1>1, <1>2
<1> HIDE DEF r
<1>4. Ordered(a, r, done, top)
  BY <1>2, <1>3 DEF Ordered
<1> QED  BY <1>4 DEF EmitPreviewEvent, e, r

(* A new bar is newer than the ones before it. *)
LEMMA OrderedBar ==
    ASSUME NEW a, NEW q \in Seq(Events), NEW done \in [Lanes -> Nat], NEW top \in Nat,
           Ordered(a, q, done, top), \A l \in Lanes : done[l] <= top,
           NEW s \in Own(a), NEW phase
    PROVE  Ordered(a, EmitPreviewEvent(q, BarUpdate(s, top + 1, phase)), done, top + 1)
<1> DEFINE e == BarUpdate(s, top + 1, phase)
           r == Append(q, e)
<1>1. e.kind = "bar" /\ e.stream = s /\ e.n = top + 1
  BY DEF BarUpdate
<1> HIDE DEF e
<1>2. /\ Len(r) = Len(q) + 1 /\ Len(q) \in Nat
      /\ \A i \in 1 .. Len(q) : r[i] = q[i]
      /\ r[Len(q) + 1] = e
  OBVIOUS
<1> HIDE DEF r
<1>3. Ordered(a, q, done, top + 1)
  BY DEF Ordered
<1>4. ASSUME NEW i \in 1 .. Len(r), r[i].kind = "bar"
      PROVE  /\ AccountOf[r[i].stream] = a /\ r[i].n \in Nat /\ r[i].n <= top + 1
             /\ \A l \in Lanes : Hears(a, l) => done[l] <= r[i].n
             /\ \A j \in i .. Len(r) : r[j].kind = "bar" => r[i].n <= r[j].n
  <2>1. CASE i = Len(q) + 1
    <3>1. r[i] = e /\ \A j \in i .. Len(r) : j = i
      BY <1>2, <2>1
    <3>2. AccountOf[r[i].stream] = a
      BY <1>1, <3>1 DEF Own
    <3> QED  BY <1>1, <3>1, <3>2
  <2>2. CASE i # Len(q) + 1
    <3>1. i \in 1 .. Len(q) /\ r[i] = q[i] /\ q[i].kind = "bar"
      BY <1>2, <1>4, <2>2
    <3>2. /\ AccountOf[q[i].stream] = a /\ q[i].n \in Nat /\ q[i].n <= top
          /\ \A l \in Lanes : Hears(a, l) => done[l] <= q[i].n
          /\ \A j \in i .. Len(q) : q[j].kind = "bar" => q[i].n <= q[j].n
      BY <3>1 DEF Ordered
    <3>3. ASSUME NEW j \in i .. Len(r), r[j].kind = "bar" PROVE q[i].n <= r[j].n
      <4>1. CASE j = Len(q) + 1
        BY <1>1, <1>2, <3>2, <4>1
      <4>2. CASE j # Len(q) + 1
        <5>1. j \in i .. Len(q) /\ j \in 1 .. Len(q)
          BY <1>2, <3>1, <4>2
        <5> QED  BY <1>2, <3>2, <3>3, <5>1
      <4> QED  BY <4>1, <4>2
    <3> QED  BY <3>1, <3>2, <3>3
  <2> QED  BY <2>1, <2>2
<1>5. Ordered(a, r, done, top + 1)
  BY <1>4 DEF Ordered
<1> QED  BY <1>3, <1>5 DEF EmitPreviewEvent, r, e

(* The first event is taken off the queue. *)
LEMMA OrderedTail ==
    ASSUME NEW a, NEW q \in Seq(Events), q # <<>>, NEW done, NEW top, Ordered(a, q, done, top)
    PROVE  /\ Ordered(a, Tail(q), done, top)
           /\ q[1].kind = "bar" => \A i \in 1 .. Len(Tail(q)) :
                 Tail(q)[i].kind = "bar" => q[1].n <= Tail(q)[i].n
<1> DEFINE r == Tail(q)
<1>1. /\ Len(q) \in Nat \ {0} /\ Len(r) = Len(q) - 1
      /\ \A i \in 1 .. Len(r) : r[i] = q[i + 1] /\ i + 1 \in 1 .. Len(q)
  OBVIOUS
<1> HIDE DEF r
<1>2. ASSUME NEW i \in 1 .. Len(r), r[i].kind = "bar"
      PROVE  /\ AccountOf[r[i].stream] = a /\ r[i].n \in Nat /\ r[i].n <= top
             /\ \A l \in Lanes : Hears(a, l) => done[l] <= r[i].n
             /\ \A j \in i .. Len(r) : r[j].kind = "bar" => r[i].n <= r[j].n
  <2>1. r[i] = q[i + 1] /\ i + 1 \in 1 .. Len(q) /\ q[i + 1].kind = "bar"
    BY <1>1, <1>2
  <2>2. /\ AccountOf[r[i].stream] = a /\ r[i].n \in Nat /\ r[i].n <= top
        /\ \A l \in Lanes : Hears(a, l) => done[l] <= r[i].n
        /\ \A j \in i + 1 .. Len(q) : q[j].kind = "bar" => r[i].n <= q[j].n
    BY <2>1 DEF Ordered
  <2>3. ASSUME NEW j \in i .. Len(r) PROVE r[j] = q[j + 1] /\ j + 1 \in i + 1 .. Len(q)
    BY <1>1
  <2> QED  BY <2>2, <2>3, ZenonT(30)
<1>3. Ordered(a, r, done, top)
  BY <1>2 DEF Ordered
<1>4. ASSUME q[1].kind = "bar", NEW i \in 1 .. Len(r), r[i].kind = "bar" PROVE q[1].n <= r[i].n
  <2>1. 1 \in 1 .. Len(q) /\ i + 1 \in 1 .. Len(q) /\ r[i] = q[i + 1]
    BY <1>1
  <2> QED  BY <1>4, <2>1 DEF Ordered
<1> QED  BY <1>3, <1>4 DEF r

(* Time passes. *)
LEMMA OrderedLater ==
    ASSUME NEW a, NEW q, NEW done, NEW top \in Nat, Ordered(a, q, done, top)
    PROVE  Ordered(a, q, done, top + 1)
  BY DEF Ordered

(* A report of the connection leaves the queued bars in order. *)
LEMMA TellOrdered ==
    ASSUME NEW a, NEW w \in SessionsOf(a), NEW state \in States, NEW done, NEW top,
           Ordered(a, w.events, done, top)
    PROVE  /\ Tell(w, state) \in SessionsOf(a)
           /\ Ordered(a, Tell(w, state).events, done, top)
           /\ [Tell(w, state) EXCEPT !.task = "backoff"].events = Tell(w, state).events
           /\ [Tell(w, state) EXCEPT !.task = "connect"].events = Tell(w, state).events
<1> DEFINE v == Tell(w, state)
           q == EmitPreviewEvent(w.events, State(state))
<1>1. v \in SessionsOf(a)
  BY TellKeeps
<1>2. v.events = q
  <2>1. v = [w EXCEPT !.events = q]
    BY DEF Tell
  <2> HIDE DEF q, v
  <2> QED  BY <2>1 DEF SessionsOf
<1>3. Ordered(a, q, done, top)
  BY OrderedState DEF SessionsOf
<1> HIDE DEF v
<1>4. /\ [v EXCEPT !.task = "backoff"].events = v.events
      /\ [v EXCEPT !.task = "connect"].events = v.events
  BY <1>1 DEF SessionsOf
<1> QED  BY <1>1, <1>2, <1>3, <1>4 DEF v

(* A step of the task that receives no bar. *)
LEMMA TaskOrdered ==
    ASSUME SessionInv, QueueInv, NEW a \in Live, TaskStep(a) \/ Die(a)
    PROVE  /\ \E v : /\ workers' = [workers EXCEPT ![a] = v]
                     /\ Ordered(a, v.events, Done, updates)
           /\ UNCHANGED <<lane, updates>>
<1> DEFINE w == workers[a]
<1>1. w \in SessionsOf(a) /\ Ordered(a, w.events, Done, updates)
  BY DEF SessionInv, QueueInv
<1>2. UNCHANGED <<lane, updates>>
  BY DEF TaskStep, Die, AwaitSubscriptions, BeginConnect, Connect, ReplaceSubscriptions, Lose,
         Backoff, Become, Steady
<1> SUFFICES \E v : Become(a, v) /\ Ordered(a, v.events, Done, updates)
  BY <1>2, ZenonT(30) DEF Become
<1>20. ASSUME NEW u \in SessionsOf(a), Ordered(a, u.events, Done, updates), NEW state \in States,
             \/ Become(a, [Tell(u, state) EXCEPT !.task = "backoff"])
             \/ Become(a, [Tell(u, state) EXCEPT !.task = "connect"])
      PROVE  \E v : Become(a, v) /\ Ordered(a, v.events, Done, updates)
  <2> DEFINE v1 == [Tell(u, state) EXCEPT !.task = "backoff"]
             v2 == [Tell(u, state) EXCEPT !.task = "connect"]
  <2>1. Ordered(a, v1.events, Done, updates) /\ Ordered(a, v2.events, Done, updates)
    BY <1>20, TellOrdered
  <2>2. Become(a, v1) \/ Become(a, v2)
    BY <1>20
  <2> HIDE DEF v1, v2
  <2> QED  BY <2>1, <2>2
<1>3. CASE AwaitSubscriptions(a)
  <2> DEFINE v == [w EXCEPT !.desired = Head(w.cmds), !.cmds = Tail(@)]
  <2>1. v.events = w.events
    BY <1>1 DEF SessionsOf
  <2>2. Become(a, v)
    BY <1>3 DEF AwaitSubscriptions
  <2> HIDE DEF v
  <2> QED  BY <1>1, <2>1, <2>2
<1>4. CASE BeginConnect(a)
  BY <1>1, <1>4, <1>20, ZenonT(30) DEF BeginConnect, States
<1>5. CASE Connect(a)
  <2>1. "connected" \in States /\ "disconnected" \in States
    BY DEF States
  <2> DEFINE t == Tell(w, "connected")
             v == [t EXCEPT !.task = "open", !.active = w.desired]
  <2>2. t \in SessionsOf(a) /\ Ordered(a, t.events, Done, updates)
    BY <1>1, <2>1, TellOrdered, ZenonT(30)
  <2>3. CASE Become(a, v)
    <3>1. v.events = t.events
      <4> HIDE DEF t
      <4> QED  BY <2>2 DEF SessionsOf
    <3> HIDE DEF v, t
    <3> QED  BY <2>2, <2>3, <3>1
  <2>4. CASE Become(a, [Tell(w, "disconnected") EXCEPT !.task = "backoff"])
    BY <1>1, <2>1, <2>4, <1>20, ZenonT(30)
  <2>5. CASE Become(a, [Tell(t, "disconnected") EXCEPT !.task = "backoff"])
    <3> HIDE DEF t
    <3> QED  BY <2>1, <2>2, <2>5, <1>20, ZenonT(30)
  <2> QED  BY <1>5, <2>3, <2>4, <2>5 DEF Connect
<1>6. CASE ReplaceSubscriptions(a)
  <2> DEFINE next == Head(w.cmds)
             v == [w EXCEPT !.cmds = Tail(@), !.desired = next]
  <2>1. v \in SessionsOf(a) /\ v.events = w.events
    BY <1>1, <1>6, NextCommand, ZenonT(30) DEF ReplaceSubscriptions, SessionsOf
  <2>2. Become(a, [Tell(v, "disconnected") EXCEPT !.task = "backoff"])
            \/ Become(a, [v EXCEPT !.active = next])
    BY <1>6 DEF ReplaceSubscriptions
  <2> HIDE DEF v, next
  <2>3. [v EXCEPT !.active = next].events = v.events
    BY <2>1 DEF SessionsOf
  <2> QED
  <3>1. CASE Become(a, [Tell(v, "disconnected") EXCEPT !.task = "backoff"])
    BY <1>1, <2>1, <3>1, <1>20, ZenonT(30) DEF States
  <3>2. CASE Become(a, [v EXCEPT !.active = next])
    <4> DEFINE x == [v EXCEPT !.active = next]
    <4>1. Become(a, x) /\ Ordered(a, x.events, Done, updates)
      BY <1>1, <2>1, <2>3, <3>2
    <4> HIDE DEF x
    <4> QED  BY <4>1
  <3> QED  BY <2>2, <3>1, <3>2
<1>7. CASE Lose(a)
  BY <1>1, <1>7, <1>20, ZenonT(30) DEF Lose, States
<1>8. CASE Backoff(a)
  <2> DEFINE v1 == [w EXCEPT !.task = "idle"]
             v2 == [w EXCEPT !.task = "idle", !.cmds = Tail(@), !.desired = Head(w.cmds)]
  <2>1. v1.events = w.events /\ v2.events = w.events
    BY <1>1 DEF SessionsOf
  <2>2. Become(a, v1) \/ Become(a, v2)
    BY <1>8 DEF Backoff
  <2> HIDE DEF v1, v2
  <2> QED  BY <1>1, <2>1, <2>2
<1>9. CASE Die(a)
  <2> DEFINE v == [w EXCEPT !.task = "ended"]
  <2>1. v.events = w.events
    BY <1>1 DEF SessionsOf
  <2>2. Become(a, v)
    BY <1>9 DEF Die
  <2> HIDE DEF v
  <2> QED  BY <1>1, <2>1, <2>2
<1> QED  BY <1>3, <1>4, <1>5, <1>6, <1>7, <1>8, <1>9 DEF TaskStep

(* A message of the venue. *)
LEMMA MessageOrdered ==
    ASSUME SessionInv, QueueInv, NEW a \in Live, Message(a)
    PROVE  /\ \E v : /\ workers' = [workers EXCEPT ![a] = v]
                     /\ Ordered(a, v.events, Done, updates + 1)
           /\ UNCHANGED lane /\ updates' = updates + 1
<1> DEFINE w == workers[a]
<1>1. w \in SessionsOf(a) /\ Ordered(a, w.events, Done, updates)
  BY DEF SessionInv, QueueInv
<1>2. PICK s \in w.active, phase \in {"preview", "confirmed"} :
        Become(a, [w EXCEPT !.events = EmitPreviewEvent(@, BarUpdate(s, updates', phase))])
  BY DEF Message
<1>3. updates' = updates + 1
  BY DEF Message
<1> DEFINE q == EmitPreviewEvent(w.events, BarUpdate(s, updates + 1, phase))
           v == [w EXCEPT !.events = q]
<1>4. s \in Own(a) /\ w.events \in Seq(Events)
  BY <1>1 DEF SessionsOf
<1>5. Ordered(a, q, Done, updates + 1)
  <2>1. Done \in [Lanes -> Nat] /\ updates \in Nat /\ \A l \in Lanes : Done[l] <= updates
    BY DEF QueueInv, SessionInv
  <2> HIDE DEF Done
  <2> QED  BY <1>1, <1>4, <2>1, OrderedBar
<1>6. Become(a, v)
  BY <1>2, <1>3
<1> HIDE DEF q
<1>7. v.events = q
  BY <1>1 DEF SessionsOf
<1> HIDE DEF v
<1> QED  BY <1>3, <1>5, <1>6, <1>7, ZenonT(30) DEF Become

(* A preview reaches lanes of its stream only
   (process_market_stream_update_for_stream). *)
LEMMA DispatchReaches ==
    ASSUME NEW s, NEW n, Dispatch(s, n)
    PROVE  \E E \in SUBSET {l \in running : StreamOf[l] = s} :
              Done' = [l \in Lanes |-> IF l \in E THEN n ELSE Done[l]]
<1> DEFINE matching == {l \in running : StreamOf[l] = s /\ lane[l].last # n}
           Applied(noted, E) ==
             [l \in Lanes |-> [last |-> IF l \in noted THEN n ELSE lane[l].last,
                              done |-> IF l \in E THEN n ELSE lane[l].done]]
<1>1. ASSUME NEW noted, NEW E, lane' = Applied(noted, E)
      PROVE  Done' = [l \in Lanes |-> IF l \in E THEN n ELSE Done[l]]
  <2>1. \A l \in Lanes : lane'[l].done = IF l \in E THEN n ELSE lane[l].done
    BY <1>1
  <2> QED  BY <2>1 DEF Done
<1>2. \/ lane' = Applied(matching, matching)
      \/ \E failing \in matching : \E before \in SUBSET (matching \ {failing}) :
            lane' = Applied(before \union {failing}, before)
  BY ZenonT(30) DEF Dispatch
<1> HIDE DEF Applied
<1>3. CASE lane' = Applied(matching, matching)
  BY <1>1, <1>3
<1>4. ASSUME NEW failing \in matching, NEW before \in SUBSET (matching \ {failing}),
             lane' = Applied(before \union {failing}, before)
      PROVE  \E E \in SUBSET {l \in running : StreamOf[l] = s} :
                Done' = [l \in Lanes |-> IF l \in E THEN n ELSE Done[l]]
  <2>1. before \in SUBSET {l \in running : StreamOf[l] = s}
    OBVIOUS
  <2> HIDE DEF matching
  <2> QED  BY <1>1, <1>4, <2>1
<1> QED  BY <1>2, <1>3, <1>4, ZenonT(30)

(* What a step may do to the lanes and the queues. *)
Forward == \A l \in Lanes : Done'[l] >= Done[l]

(* handle_preview_event: the lanes that hear the oldest bar have heard of none newer. *)
LEMMA HandleOrdered ==
    ASSUME ConstantsOK, SessionInv, QueueInv, HandlePreviewEvent
    PROVE  QueueInv' /\ Forward
<1> DEFINE a == loop.turn
           w == workers[a]
           q == w.events
           e == q[1]
           v == [w EXCEPT !.events = Tail(q)]
<1>1. /\ loop.at = "drain" /\ a # None /\ q # <<>>
      /\ workers' = [workers EXCEPT ![a] = v]
      /\ updates' = updates
  BY ZenonT(30) DEF HandlePreviewEvent
<1>2. /\ a \in Live /\ w \in SessionsOf(a) /\ Ordered(a, q, Done, updates)
      /\ updates \in Nat /\ running \subseteq Lanes /\ Done \in [Lanes -> Nat]
      /\ \A l \in Lanes : Done[l] <= updates
  BY <1>1 DEF SessionInv, QueueInv
<1>3. q \in Seq(Events)
  BY <1>2 DEF SessionsOf
<1>4. v.events = Tail(q) /\ v \in SessionsOf(a)
  <2> DEFINE r == Tail(q)
  <2>1. r \in Seq(Events)
    BY <1>1, <1>3
  <2> HIDE DEF r
  <2>2. [w EXCEPT !.events = r].events = r /\ [w EXCEPT !.events = r] \in SessionsOf(a)
    BY <1>2, <2>1, ZenonT(30) DEF SessionsOf
  <2> QED  BY <2>2 DEF r
<1>5. /\ Live' = Live /\ workers'[a].events = Tail(q)
      /\ \A b \in Live : b # a => workers'[b] = workers[b]
  <2> HIDE DEF v
  <2>1. Live' = Live
    BY <1>1, <1>2, <1>4, SessionMoves, ZenonT(30)
  <2>2. Live \subseteq Accounts /\ workers = [b \in Accounts |-> workers[b]]
    BY DEF Live, SessionInv
  <2> QED  BY <1>1, <1>2, <1>4, <2>1, <2>2
<1>6. /\ Ordered(a, Tail(q), Done, updates)
      /\ e.kind = "bar" => \A i \in 1 .. Len(Tail(q)) :
                Tail(q)[i].kind = "bar" => e.n <= Tail(q)[i].n
  BY <1>1, <1>2, <1>3, OrderedTail, ZenonT(30)
<1>7. CASE UNCHANGED lane
  <2>1. Done' = Done
    BY <1>7 DEF Done
  <2>2. ASSUME NEW b \in Live PROVE Ordered(b, workers'[b].events, Done, updates)
    <3>1. CASE b = a
      BY <1>5, <1>6, <3>1
    <3>2. CASE b # a
      BY <1>5, <3>2 DEF QueueInv
    <3> QED  BY <3>1, <3>2
  <2>3. Forward
    BY <1>2, <2>1 DEF Forward
  <2> HIDE DEF Done, q, w, v, e, a
  <2> QED  BY <1>1, <1>2, <1>5, <2>1, <2>2, <2>3 DEF QueueInv
<1>8. CASE e.kind = "bar" /\ Dispatch(e.stream, e.n)
  <2>1. PICK E \in SUBSET {l \in running : StreamOf[l] = e.stream} :
          Done' = [l \in Lanes |-> IF l \in E THEN e.n ELSE Done[l]]
    BY <1>8, DispatchReaches
  <2>2. /\ AccountOf[e.stream] = a /\ e.n \in Nat /\ e.n <= updates
        /\ \A l \in Lanes : Hears(a, l) => Done[l] <= e.n
    <3>1. 1 \in 1 .. Len(q)
      BY <1>1, <1>3
    <3> QED  BY <1>2, <1>8, <3>1, ZenonT(30) DEF Ordered
  <2>3. \A l \in E : l \in Lanes /\ Hears(a, l)
    BY <1>2, <2>2 DEF Hears
  <2>4. Forward
    <3> HIDE DEF e, a, Done
    <3>1. ASSUME NEW l \in Lanes PROVE Done'[l] >= Done[l]
      BY <1>2, <2>1, <2>2, <2>3
    <3> QED  BY <3>1 DEF Forward
  <2>5. Done' \in [Lanes -> Nat] /\ \A l \in Lanes : Done'[l] <= updates
    <3> HIDE DEF e, a, Done
    <3> QED  BY <1>2, <2>1, <2>2
  <2>6. Ordered(a, Tail(q), Done', updates)
    <3> DEFINE r == Tail(q)
               d == Done'
    <3> HIDE DEF r, e, Done
    <3>1. ASSUME NEW i \in 1 .. Len(r), r[i].kind = "bar"
          PROVE  /\ AccountOf[r[i].stream] = a /\ r[i].n \in Nat /\ r[i].n <= updates
                 /\ \A j \in i .. Len(r) : r[j].kind = "bar" => r[i].n <= r[j].n
                 /\ \A l \in Lanes : Hears(a, l) => Done[l] <= r[i].n
                 /\ e.n <= r[i].n
      BY <1>6, <1>8, <3>1, ZenonT(30) DEF Ordered, r
    <3>2. ASSUME NEW i \in 1 .. Len(r), r[i].kind = "bar", NEW l \in Lanes, Hears(a, l)
          PROVE  d[l] <= r[i].n
      BY <2>1, <3>1, <3>2
    <3> HIDE DEF d
    <3>3. Ordered(a, r, d, updates)
      BY <3>1, <3>2 DEF Ordered
    <3> QED  BY <3>3 DEF d, r
  <2>7. ASSUME NEW b \in Live, b # a PROVE Ordered(b, workers[b].events, Done', updates)
    <3> DEFINE d == Done'
    <3>1. Ordered(b, workers[b].events, Done, updates)
      BY DEF QueueInv
    <3>2. \A l \in Lanes : Hears(b, l) => d[l] = Done[l]
      <4>1. \A l \in Lanes : Hears(b, l) => l \notin E
        BY <2>3, <2>7 DEF Hears
      <4> HIDE DEF Done, e
      <4> QED  BY <2>1, <4>1
    <3> HIDE DEF d, Done
    <3>3. Ordered(b, workers[b].events, d, updates)
      BY <3>1, <3>2 DEF Ordered
    <3> QED  BY <3>3 DEF d
  <2>8. ASSUME NEW b \in Live PROVE Ordered(b, workers'[b].events, Done', updates)
    <3> HIDE DEF Done
    <3> QED  BY <1>5, <2>6, <2>7
  <2> HIDE DEF Done, q, w, v, e, a
  <2> QED  BY <1>1, <1>5, <2>4, <2>5, <2>8 DEF QueueInv
<1>9. e = Head(q)
  OBVIOUS
<1> QED  BY <1>7, <1>8, <1>9, ZenonT(30) DEF HandlePreviewEvent

(* A step that evaluates nothing and receives nothing. *)
LEMMA QueuesRest ==
    ASSUME QueueInv, UNCHANGED <<lane, updates>>,
           \A b \in Live' : \/ b \in Live /\ workers'[b].events = workers[b].events
                            \/ Ordered(b, workers'[b].events, Done, updates)
    PROVE  QueueInv' /\ Forward
<1>1. Done' = Done /\ updates' = updates
  BY DEF Done
<1>2. /\ Done \in [Lanes -> Nat] /\ \A l \in Lanes : Done[l] <= updates
      /\ \A b \in Live : Ordered(b, workers[b].events, Done, updates)
  BY DEF QueueInv
<1>3. \A b \in Live' : Ordered(b, workers'[b].events, Done, updates)
  BY <1>2
<1>4. Forward
  <2> HIDE DEF Done
  <2> QED  BY <1>1, <1>2 DEF Forward
<1> HIDE DEF Done
<1> QED  BY <1>1, <1>2, <1>3, <1>4 DEF QueueInv

(* A session that changes leaves the other sessions alone. *)
LEMMA OthersRest ==
    ASSUME SessionInv, NEW a \in Live, NEW w, workers' = [workers EXCEPT ![a] = w]
    PROVE  /\ workers'[a] = w
           /\ \A b \in Live' : b # a => b \in Live /\ workers'[b] = workers[b]
<1>1. a \in Accounts /\ workers = [b \in Accounts |-> workers[b]]
  BY DEF Live, SessionInv
<1>2. \A b \in Accounts : workers'[b] = IF b = a THEN w ELSE workers[b]
  BY <1>1, Zenon
<1> QED  BY <1>1, <1>2 DEF Live

(* The tasks of the sessions. *)
LEMMA TasksKeepQueues ==
    ASSUME SessionInv, QueueInv, NEW a \in Accounts, TaskStep(a) \/ Message(a) \/ Die(a)
    PROVE  QueueInv' /\ Forward
<1>1. a \in Live
  BY TaskStepMoves
<1>2. CASE TaskStep(a) \/ Die(a)
  <2>1. PICK v : workers' = [workers EXCEPT ![a] = v] /\ Ordered(a, v.events, Done, updates)
    BY <1>1, <1>2, TaskOrdered
  <2>2. UNCHANGED <<lane, updates>>
    BY <1>1, <1>2, TaskOrdered
  <2>3. /\ workers'[a] = v
        /\ \A b \in Live' : b # a => b \in Live /\ workers'[b] = workers[b]
    BY <1>1, <2>1, OthersRest, ZenonT(30)
  <2> QED  BY <2>1, <2>2, <2>3, QueuesRest
<1>3. CASE Message(a)
  <2>1. PICK v : workers' = [workers EXCEPT ![a] = v] /\ Ordered(a, v.events, Done, updates + 1)
    BY <1>1, <1>3, MessageOrdered
  <2>2. UNCHANGED lane /\ updates' = updates + 1
    BY <1>1, <1>3, MessageOrdered
  <2>3. /\ workers'[a] = v
        /\ \A b \in Live' : b # a => b \in Live /\ workers'[b] = workers[b]
    BY <1>1, <2>1, OthersRest, ZenonT(30)
  <2>4. /\ Done \in [Lanes -> Nat] /\ \A l \in Lanes : Done[l] <= updates
        /\ updates \in Nat
    BY DEF QueueInv, SessionInv
  <2>5. ASSUME NEW b \in Live' PROVE Ordered(b, workers'[b].events, Done, updates + 1)
    <3>1. CASE b = a
      BY <2>1, <2>3, <3>1
    <3>2. CASE b # a
      <4>1. b \in Live /\ workers'[b] = workers[b]
        BY <2>3, <3>2
      <4>2. Ordered(b, workers[b].events, Done, updates)
        BY <4>1 DEF QueueInv
      <4> QED  BY <2>4, <4>1, <4>2, OrderedLater
    <3> QED  BY <3>1, <3>2
  <2>6. Done' = Done
    BY <2>2 DEF Done
  <2> HIDE DEF Done
  <2>7. Forward /\ \A l \in Lanes : Done[l] <= updates + 1
    BY <2>4, <2>6 DEF Forward
  <2> QED  BY <2>2, <2>4, <2>5, <2>6, <2>7 DEF QueueInv
<1> QED  BY <1>2, <1>3

(* manage_preview_sessions: a new session starts with an empty queue. *)
LEMMA ManageKeepsQueues ==
    ASSUME SessionInv, QueueInv, ManageSessions
    PROVE  QueueInv' /\ Forward
<1> DEFINE wanted == EffectivePreviewStreams
           removed == {a \in Live : wanted[a] = {}}
           fresh == PartitionCandidates(Live \ removed, wanted) \ Refusing
<1>1. /\ workers' = [a \in Accounts |-> IF a \in fresh THEN NewSession(wanted[a])
                                        ELSE IF a \in removed THEN None ELSE workers[a]]
      /\ UNCHANGED <<lane, updates>>
  BY ZenonT(30) DEF ManageSessions, bounds
<1> HIDE DEF wanted, removed, fresh
<1>2. ASSUME NEW b \in Live'
      PROVE  \/ b \in Live /\ workers'[b].events = workers[b].events
             \/ Ordered(b, workers'[b].events, Done, updates)
  <2>1. b \in Accounts /\ workers'[b] # None
    BY DEF Live
  <2>2. CASE b \in fresh
    <3>1. workers'[b].events = <<>>
      BY <1>1, <2>1, <2>2 DEF NewSession
    <3>2. Ordered(b, <<>>, Done, updates)
      BY DEF Ordered
    <3> QED  BY <3>1, <3>2
  <2>3. CASE b \notin fresh
    <3>1. workers'[b] = workers[b]
      BY <1>1, <2>1, <2>3
    <3> QED  BY <2>1, <3>1 DEF Live
  <2> QED  BY <2>2, <2>3
<1> QED  BY <1>1, <1>2, QueuesRest

(* The turn of a session leaves its events where they are. *)
LEMMA TurnKeepsQueues ==
    ASSUME SessionInv, QueueInv, NEW a \in Accounts, TakeTurn(a)
    PROVE  QueueInv' /\ Forward
<1> DEFINE w == workers[a]
           wanted == loop.wanted[a]
<1>1. a \in Live /\ UNCHANGED <<lane, updates>> /\ w \in SessionsOf(a)
  BY DEF TakeTurn, SessionInv, bounds
<1>2. CASE UNCHANGED workers
  <2>1. Live' = Live
    BY <1>2 DEF Live
  <2> QED  BY <1>1, <1>2, <2>1, QueuesRest
<1>3. CASE workers' = [workers EXCEPT ![a].cmds = Append(@, wanted), ![a].subs = wanted]
  <2> DEFINE c == Append(w.cmds, wanted)
             v == [w EXCEPT !.cmds = c, !.subs = wanted]
  <2>1. workers' = [workers EXCEPT ![a] = v]
    <3>1. a \in DOMAIN workers
      BY DEF SessionInv
    <3> QED  BY <1>3, <3>1, ZenonT(30)
  <2>2. v.events = w.events
    <3> HIDE DEF c, wanted
    <3> QED  BY <1>1 DEF SessionsOf
  <2> HIDE DEF v
  <2>3. /\ workers'[a] = v
        /\ \A b \in Live' : b # a => b \in Live /\ workers'[b] = workers[b]
    BY <1>1, <2>1, OthersRest, ZenonT(30)
  <2> QED  BY <1>1, <2>2, <2>3, QueuesRest
<1>4. CASE workers' = [workers EXCEPT ![a] = None]
  <2>1. /\ workers'[a] = None
        /\ \A b \in Live' : b # a => b \in Live /\ workers'[b] = workers[b]
    BY <1>1, <1>4, OthersRest, ZenonT(30)
  <2>2. a \notin Live'
    BY <2>1 DEF Live
  <2> QED  BY <1>1, <2>1, <2>2, QueuesRest, ZenonT(30)
<1> QED  BY <1>2, <1>3, <1>4 DEF TakeTurn

(* The steps that only end sessions, and those that leave them alone. *)
LEMMA RestKeepsQueues ==
    ASSUME SessionInv, QueueInv,
           \/ EndTurn \/ BeginDrain \/ Sleep \/ Close
           \/ MoveLane \/ RequestShutdown \/ GoDown \/ ComeBack \/ UNCHANGED vars
    PROVE  QueueInv' /\ Forward
<1>1. UNCHANGED <<lane, updates>>
  BY DEF EndTurn, BeginDrain, Sleep, Close, MoveLane, RequestShutdown, GoDown, ComeBack, vars,
         bounds
<1>2. CASE UNCHANGED workers
  <2>1. Live' = Live
    BY <1>2 DEF Live
  <2> QED  BY <1>1, <1>2, <2>1, QueuesRest
<1>3. CASE Close
  <2>1. Live' = {}
    BY <1>3 DEF Close, Live
  <2> QED  BY <1>1, <2>1, QueuesRest
<1>4. CASE EndTurn /\ workers' = [workers EXCEPT ![loop.turn] = None]
  <2> DEFINE a == loop.turn
  <2>1. a \in Live
    BY <1>4 DEF EndTurn, SessionInv
  <2> HIDE DEF a
  <2>2. workers' = [workers EXCEPT ![a] = None]
    BY <1>4 DEF a
  <2>3. /\ workers'[a] = None
        /\ \A b \in Live' : b # a => b \in Live /\ workers'[b] = workers[b]
    BY <2>1, <2>2, OthersRest, ZenonT(30)
  <2>4. a \notin Live'
    BY <2>3 DEF Live
  <2> QED  BY <1>1, <2>3, <2>4, QueuesRest
<1> QED  BY <1>2, <1>3, <1>4 DEF EndTurn, BeginDrain, Sleep, MoveLane, RequestShutdown, GoDown,
         ComeBack, vars

(* Every step keeps the queues in order and moves no lane back. *)
LEMMA QueueStep ==
    ASSUME ConstantsOK, SessionInv, QueueInv, [Next]_vars
    PROVE  QueueInv' /\ Forward
<1>1. CASE LoopStep
  BY <1>1, ManageKeepsQueues, TurnKeepsQueues, HandleOrdered, RestKeepsQueues, Zenon DEF LoopStep
<1>2. CASE \E a \in Accounts : TaskStep(a) \/ Message(a) \/ Die(a)
  BY <1>2, TasksKeepQueues, Zenon
<1>3. CASE MoveLane \/ RequestShutdown \/ GoDown \/ ComeBack \/ UNCHANGED vars
  BY <1>3, RestKeepsQueues, Zenon
<1> QED  BY <1>1, <1>2, <1>3, Zenon DEF Next

(* PreviewsInOrder: whatever is dropped, however often a session reconnects, is ended and
   started again, a lane never evaluates an older preview after a newer one. *)
THEOREM PreviewsStayInOrder == ConstantsOK => (Spec => PreviewsInOrder)
<1> SUFFICES ASSUME ConstantsOK PROVE Spec => PreviewsInOrder
  OBVIOUS
<1>1. Init => QueueInv
  <2> SUFFICES ASSUME Init PROVE QueueInv
    OBVIOUS
  <2>1. Live = {}
    BY DEF Init, Live
  <2>2. Done = [l \in Lanes |-> 0] /\ updates = 0
    BY DEF Init, Done
  <2> HIDE DEF Done
  <2> QED  BY <2>1, <2>2 DEF QueueInv
<1>2. SessionInv /\ QueueInv /\ [Next]_vars => QueueInv'
  BY QueueStep
<1>3. SessionInv /\ QueueInv /\ [Next]_vars
         => [\A l \in Lanes : lane'[l].done >= lane[l].done]_vars
  <2> SUFFICES ASSUME SessionInv, QueueInv, [Next]_vars
               PROVE  \A l \in Lanes : lane'[l].done >= lane[l].done
    OBVIOUS
  <2>1. \A l \in Lanes : Done'[l] >= Done[l]
    BY QueueStep DEF Forward
  <2> QED  BY <2>1 DEF Done
<1>4. Spec => []SessionInv
  BY SessionsKept
<1> QED  BY <1>1, <1>2, <1>3, <1>4, PTL DEF Spec, PreviewsInOrder

=============================================================================
