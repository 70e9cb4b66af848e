-------------------------- MODULE LaneCycleProofs --------------------------
(***************************************************************************)
(* Proofs about the trading cycle, for any number of lanes, bots, prices,  *)
(* bars, cycles, faults and crashes: lemmas about sums over finite sets;   *)
(* the inductive invariant, which never expands the sums of the ledger (it *)
(* holds whatever room is left); and the budgets every entry stays in.     *)
(***************************************************************************)
EXTENDS LaneCycle, FiniteSetTheorems, TLAPS

(***************************************************************************)
(* Sums over finite sets.  A claim that fails for some subset of a finite  *)
(* set fails for a smallest one; taking one element out of that gives the  *)
(* contradiction.                                                          *)
(***************************************************************************)
Any(s) == CHOOSE x \in s : TRUE

\* g sums up f over every subset of S, one element at a time.
SumsUp(g, f, S) ==
    g = [s \in SUBSET S |-> IF s = {} THEN 0 ELSE f[Any(s)] + g[s \ {Any(s)}]]

\* A nonempty set of subsets of a finite set has a smallest one.
LEMMA SmallestSubset ==
    ASSUME NEW S, IsFiniteSet(S), NEW T \in SUBSET (SUBSET S), T # {}
    PROVE  \E x \in T : \A y \in T : ~(y \subseteq x /\ y # x)
<1> DEFINE R == StrictSubsetOrdering(S)
<1>1. IsWellFoundedOn(R, SUBSET S)
  BY FS_StrictSubsetOrderingWellFounded, FS_FiniteSubsetsOfFinite
<1>2. \E x \in T : \A y \in T : ~(<<y, x>> \in R)
  <2> HIDE DEF R
  <2> QED  BY <1>1, WFMin
<1>3. ASSUME NEW x \in T, NEW y \in T, y \subseteq x, y # x PROVE <<y, x>> \in R
  BY <1>3 DEF StrictSubsetOrdering
<1> HIDE DEF R
<1> QED  BY <1>2, <1>3, Zenon

LEMMA AnyIsMember == ASSUME NEW s, s # {} PROVE Any(s) \in s
  BY DEF Any

\* Two functions that sum up f over sets that have a subset in common agree on it.
LEMMA SumsAgree ==
    ASSUME NEW S, NEW U, IsFiniteSet(S), NEW f, NEW g, NEW h, SumsUp(g, f, S), SumsUp(h, f, U)
    PROVE  \A s \in SUBSET (S \cap U) : g[s] = h[s]
<1> DEFINE Bad == {s \in SUBSET S : s \subseteq U /\ g[s] # h[s]}
<1>1. SUFFICES ASSUME Bad # {} PROVE FALSE
  BY Zenon
<1>2. PICK s \in Bad : \A y \in Bad : ~(y \subseteq s /\ y # s)
  <2>1. Bad \in SUBSET (SUBSET S)
    OBVIOUS
  <2> HIDE DEF Bad
  <2> QED  BY <1>1, <2>1, SmallestSubset
<1>3. s \in SUBSET S /\ s \in SUBSET U
  OBVIOUS
<1>4. /\ g[s] = IF s = {} THEN 0 ELSE f[Any(s)] + g[s \ {Any(s)}]
      /\ h[s] = IF s = {} THEN 0 ELSE f[Any(s)] + h[s \ {Any(s)}]
  BY <1>3, Zenon DEF SumsUp
<1>5. CASE s = {}
  BY <1>2, <1>4, <1>5, Zenon
<1>6. CASE s # {}
  <2>1. Any(s) \in s
    BY <1>6, AnyIsMember
  <2>2. s \ {Any(s)} \notin Bad
    BY <1>2, <2>1, Zenon
  <2>3. s \ {Any(s)} \in SUBSET S /\ s \ {Any(s)} \in SUBSET U
    BY <1>3, Zenon
  <2>4. g[s \ {Any(s)}] = h[s \ {Any(s)}]
    BY <2>2, <2>3, Zenon
  <2> QED  BY <1>2, <1>4, <1>6, <2>4, Zenon
<1> QED  BY <1>5, <1>6

\* There is a function that sums f up over the subsets of a finite set.
LEMMA SumExists ==
    ASSUME NEW S, IsFiniteSet(S), NEW f
    PROVE  \E g : SumsUp(g, f, S)
<1> DEFINE Bad == {T \in SUBSET S : ~\E g : SumsUp(g, f, T)}
<1>1. SUFFICES ASSUME Bad # {} PROVE FALSE
  <2>1. S \in SUBSET S
    OBVIOUS
  <2> QED  BY <1>1, <2>1, Zenon
<1>2. PICK T \in Bad : \A y \in Bad : ~(y \subseteq T /\ y # T)
  <2>1. Bad \in SUBSET (SUBSET S)
    OBVIOUS
  <2> HIDE DEF Bad
  <2> QED  BY <1>1, <2>1, SmallestSubset
<1> DEFINE G(U) == CHOOSE g : SumsUp(g, f, U)
           W(s) == IF s = {} THEN 0 ELSE f[Any(s)] + G(s \ {Any(s)})[s \ {Any(s)}]
           h == [s \in SUBSET T |-> W(s)]
<1>3. ASSUME NEW U \in SUBSET T, U # T PROVE SumsUp(G(U), f, U)
  <2>1. U \in SUBSET S /\ U \notin Bad
    BY <1>2, <1>3, Zenon
  <2>2. \E g : SumsUp(g, f, U)
    BY <2>1, Zenon
  <2> HIDE DEF SumsUp
  <2> QED  BY <2>2, Zenon
<1>4. ASSUME NEW s \in SUBSET T, s # {} PROVE h[s \ {Any(s)}] = G(s \ {Any(s)})[s \ {Any(s)}]
  <2> DEFINE u == s \ {Any(s)}
             v == u \ {Any(u)}
  <2>1. Any(s) \in s
    BY <1>4, AnyIsMember
  <2>2. u \in SUBSET T /\ u # T
    BY <2>1, Zenon
  <2>3. SumsUp(G(u), f, u)
    <3> HIDE DEF G, u
    <3> QED  BY <1>3, <2>2, Zenon
  <2>4. u \in SUBSET u
    OBVIOUS
  <2>5. G(u)[u] = IF u = {} THEN 0 ELSE f[Any(u)] + G(u)[v]
    <3> HIDE DEF G, u
    <3> QED  BY <2>3, <2>4, Zenon DEF SumsUp
  <2>6. ASSUME u # {} PROVE G(u)[v] = G(v)[v]
    <3>1. Any(u) \in u
      BY <2>6, AnyIsMember
    <3>2. v \in SUBSET T /\ v # T /\ v \in SUBSET (u \cap v)
      BY <2>2, <3>1, Zenon
    <3>3. SumsUp(G(v), f, v)
      <4> HIDE DEF G, v
      <4> QED  BY <1>3, <3>2, Zenon
    <3>4. IsFiniteSet(u)
      BY <1>2, FS_Subset
    <3> HIDE DEF G, u, v
    <3> QED  BY <2>3, <3>2, <3>3, <3>4, SumsAgree
  <2>7. h[u] = W(u)
    <3> HIDE DEF W, u
    <3> QED  BY <2>2
  <2>8. CASE u = {}
    BY <2>5, <2>7, <2>8, Zenon
  <2>9. CASE u # {}
    <3> HIDE DEF G, h
    <3> QED  BY <2>5, <2>6, <2>7, <2>9, Zenon
  <2> QED  BY <2>8, <2>9
<1>5. ASSUME NEW s \in SUBSET T
      PROVE  W(s) = IF s = {} THEN 0 ELSE f[Any(s)] + h[s \ {Any(s)}]
  <2> HIDE DEF G, h
  <2> QED  BY <1>4, Zenon
<1>6. h = [s \in SUBSET T |-> IF s = {} THEN 0 ELSE f[Any(s)] + h[s \ {Any(s)}]]
  <2> DEFINE k == [s \in SUBSET T |-> IF s = {} THEN 0 ELSE f[Any(s)] + h[s \ {Any(s)}]]
  <2>1. \A s \in SUBSET T : h[s] = k[s]
    <3>1. ASSUME NEW s \in SUBSET T PROVE h[s] = W(s)
      <4> HIDE DEF W
      <4> QED  OBVIOUS
    <3> HIDE DEF W, h
    <3> QED  BY <1>5, <3>1, Zenon
  <2>2. DOMAIN h = SUBSET T /\ DOMAIN k = SUBSET T
    OBVIOUS
  <2>3. h = [s \in SUBSET T |-> h[s]]
    <3> HIDE DEF W
    <3> QED  OBVIOUS
  <2>4. k = [s \in SUBSET T |-> k[s]]
    <3> HIDE DEF W, h
    <3> QED  OBVIOUS
  <2> HIDE DEF W, h, k
  <2> QED  BY <2>1, <2>3, <2>4, Zenon DEF k
<1>7. SumsUp(h, f, T)
  <2> HIDE DEF h
  <2> QED  BY <1>6, Zenon DEF SumsUp
<1> HIDE DEF h, SumsUp
<1> QED  BY <1>2, <1>7, Zenon

-----------------------------------------------------------------------------
\* The sum of a function over a finite set, one element at a time.
LEMMA SumUnfolds ==
    ASSUME NEW S, IsFiniteSet(S), NEW f
    PROVE  SumFunctionOnSet(f, S) =
               IF S = {} THEN 0 ELSE f[Any(S)] + SumFunctionOnSet(f, S \ {Any(S)})
<1> DEFINE G(U) == CHOOSE g : SumsUp(g, f, U)
<1>1. ASSUME NEW U, IsFiniteSet(U) PROVE SumFunctionOnSet(f, U) = G(U)[U] /\ SumsUp(G(U), f, U)
  <2>1. SumFunctionOnSet(f, U) = G(U)[U]
    BY DEF SumFunctionOnSet, FoldFunctionOnSet, MapThenFoldSet, SumsUp, Any
  <2>2. \E g : SumsUp(g, f, U)
    BY <1>1, SumExists
  <2> HIDE DEF SumsUp
  <2> QED  BY <2>1, <2>2, Zenon
<1> DEFINE u == S \ {Any(S)}
<1>2. IsFiniteSet(u)
  BY FS_Subset
<1>3. S \in SUBSET S /\ u \in SUBSET (S \cap u)
  OBVIOUS
<1>4. SumFunctionOnSet(f, S) = G(S)[S] /\ SumFunctionOnSet(f, u) = G(u)[u]
  <2> HIDE DEF G, u
  <2> QED  BY <1>1, <1>2, Zenon
<1>5. SumsUp(G(S), f, S) /\ SumsUp(G(u), f, u)
  <2> HIDE DEF G, u
  <2> QED  BY <1>1, <1>2, Zenon
<1>6. G(S)[u] = G(u)[u]
  <2> HIDE DEF G, u
  <2> QED  BY <1>3, <1>5, SumsAgree
<1>7. G(S)[S] = IF S = {} THEN 0 ELSE f[Any(S)] + G(S)[u]
  <2> HIDE DEF G
  <2> QED  BY <1>3, <1>5, Zenon DEF SumsUp
<1> HIDE DEF G
<1> QED  BY <1>4, <1>6, <1>7, Zenon


\* A sum of integers is an integer.
LEMMA SumIsInt ==
    ASSUME NEW S, IsFiniteSet(S), NEW f, \A x \in S : f[x] \in Int
    PROVE  SumFunctionOnSet(f, S) \in Int
<1> DEFINE Bad == {T \in SUBSET S : SumFunctionOnSet(f, T) \notin Int}
<1>1. SUFFICES ASSUME Bad # {} PROVE FALSE
  <2>1. S \in SUBSET S
    OBVIOUS
  <2> QED  BY <1>1, <2>1, Zenon
<1>2. PICK T \in Bad : \A y \in Bad : ~(y \subseteq T /\ y # T)
  <2>1. Bad \in SUBSET (SUBSET S)
    OBVIOUS
  <2> HIDE DEF Bad
  <2> QED  BY <1>1, <2>1, SmallestSubset
<1>3. IsFiniteSet(T)
  BY FS_Subset
<1>4. SumFunctionOnSet(f, T) =
          IF T = {} THEN 0 ELSE f[Any(T)] + SumFunctionOnSet(f, T \ {Any(T)})
  BY <1>3, SumUnfolds, Zenon
<1>5. CASE T = {}
  BY <1>2, <1>4, <1>5
<1>6. CASE T # {}
  <2>1. Any(T) \in T /\ Any(T) \in S
    BY <1>6, AnyIsMember
  <2>2. T \ {Any(T)} \in SUBSET S /\ T \ {Any(T)} \notin Bad
    BY <1>2, <2>1, Zenon
  <2>3. SumFunctionOnSet(f, T \ {Any(T)}) \in Int
    BY <2>2, Zenon
  <2> DEFINE rest == SumFunctionOnSet(f, T \ {Any(T)})
             sum == SumFunctionOnSet(f, T)
             e == f[Any(T)]
  <2>4. sum = e + rest /\ rest \in Int /\ e \in Int /\ sum \notin Int
    <3>1. e \in Int
      BY <2>1, Zenon
    <3>2. sum \notin Int
      BY <1>2, Zenon
    <3> QED  BY <1>4, <1>6, <2>3, <3>1, <3>2, Zenon
  <2> HIDE DEF rest, sum, e
  <2> QED  BY <2>4
<1> QED  BY <1>5, <1>6

\* Any element may be taken out of a sum.
LEMMA SumSplits ==
    ASSUME NEW S, IsFiniteSet(S), NEW f, \A x \in S : f[x] \in Int
    PROVE  \A x \in S : SumFunctionOnSet(f, S) = f[x] + SumFunctionOnSet(f, S \ {x})
<1> DEFINE Sum(T) == SumFunctionOnSet(f, T)
           Bad == {T \in SUBSET S : \E x \in T : Sum(T) # f[x] + Sum(T \ {x})}
<1>1. SUFFICES ASSUME Bad # {} PROVE FALSE
  <2>1. S \in SUBSET S
    OBVIOUS
  <2> QED  BY <1>1, <2>1, Zenon
<1>2. PICK T \in Bad : \A y \in Bad : ~(y \subseteq T /\ y # T)
  <2>1. Bad \in SUBSET (SUBSET S)
    OBVIOUS
  <2> HIDE DEF Bad
  <2> QED  BY <1>1, <2>1, SmallestSubset
<1>3. PICK x \in T : Sum(T) # f[x] + Sum(T \ {x})
  OBVIOUS
<1> DEFINE p == Any(T)
<1>4. p \in T /\ T # {} /\ T \in SUBSET S
  BY AnyIsMember
<1>5. ASSUME NEW U \in SUBSET T PROVE IsFiniteSet(U) /\ Sum(U) \in Int
  <2>1. IsFiniteSet(U) /\ \A y \in U : f[y] \in Int
    BY FS_Subset
  <2> QED  BY <2>1, SumIsInt
<1>6. Sum(T) = f[p] + Sum(T \ {p})
  <2>1. IsFiniteSet(T)
    BY <1>5, Zenon
  <2> QED  BY <1>4, <2>1, SumUnfolds, Zenon
<1>7. ASSUME NEW y \in T, NEW z \in T, y # z
      PROVE  Sum(T \ {y}) = f[z] + Sum((T \ {y}) \ {z})
  <2>1. T \ {y} \in SUBSET S /\ T \ {y} # T /\ T \ {y} \subseteq T /\ z \in T \ {y}
    BY <1>4, <1>7, Zenon
  <2>2. T \ {y} \notin Bad
    BY <1>2, <2>1, Zenon
  <2> HIDE DEF Sum
  <2> QED  BY <2>1, <2>2, Zenon
<1>8. x # p
  <2> HIDE DEF Sum, p
  <2> QED  BY <1>3, <1>6, Zenon
<1>9. (T \ {p}) \ {x} = (T \ {x}) \ {p}
  OBVIOUS
<1> DEFINE r == Sum((T \ {x}) \ {p})
           fx == f[x]
           fp == f[p]
           all == Sum(T)
           noX == Sum(T \ {x})
           noP == Sum(T \ {p})
<1>10. all = fp + noP /\ noP = fx + r /\ noX = fp + r /\ all # fx + noX
  <2>1. noP = fx + r
    <3> HIDE DEF Sum, p
    <3> QED  BY <1>4, <1>7, <1>8, <1>9, Zenon
  <2>2. noX = fp + r
    <3> HIDE DEF Sum, p
    <3> QED  BY <1>4, <1>7, <1>8, Zenon
  <2> HIDE DEF Sum, p
  <2> QED  BY <1>3, <1>6, <2>1, <2>2, Zenon
<1>11. r \in Int /\ fx \in Int /\ fp \in Int
  <2>1. (T \ {x}) \ {p} \in SUBSET T
    OBVIOUS
  <2>2. x \in S /\ p \in S
    BY <1>4, Zenon
  <2> HIDE DEF Sum, p
  <2> QED  BY <1>5, <2>1, <2>2, Zenon
<1> HIDE DEF r, fx, fp, all, noX, noP
<1> QED  BY <1>10, <1>11

\* What a sum is over does not depend on the values elsewhere.
LEMMA SumOfSame ==
    ASSUME NEW S, IsFiniteSet(S), NEW f, NEW g, \A x \in S : f[x] = g[x]
    PROVE  SumFunctionOnSet(f, S) = SumFunctionOnSet(g, S)
<1> DEFINE Bad == {T \in SUBSET S : SumFunctionOnSet(f, T) # SumFunctionOnSet(g, T)}
<1>1. SUFFICES ASSUME Bad # {} PROVE FALSE
  <2>1. S \in SUBSET S
    OBVIOUS
  <2> QED  BY <1>1, <2>1, Zenon
<1>2. PICK T \in Bad : \A y \in Bad : ~(y \subseteq T /\ y # T)
  <2>1. Bad \in SUBSET (SUBSET S)
    OBVIOUS
  <2> HIDE DEF Bad
  <2> QED  BY <1>1, <2>1, SmallestSubset
<1>3. IsFiniteSet(T) /\ T \in SUBSET S
  BY FS_Subset
<1> DEFINE u == T \ {Any(T)}
<1>4. /\ SumFunctionOnSet(f, T) = IF T = {} THEN 0 ELSE f[Any(T)] + SumFunctionOnSet(f, u)
      /\ SumFunctionOnSet(g, T) = IF T = {} THEN 0 ELSE g[Any(T)] + SumFunctionOnSet(g, u)
  BY <1>3, SumUnfolds
<1>5. CASE T = {}
  BY <1>2, <1>4, <1>5, Zenon
<1>6. CASE T # {}
  <2>1. Any(T) \in T /\ Any(T) \in S
    BY <1>6, AnyIsMember
  <2>2. u \in SUBSET S /\ u # T /\ u \subseteq T
    BY <1>3, <2>1, Zenon
  <2>3. SumFunctionOnSet(f, u) = SumFunctionOnSet(g, u)
    <3> HIDE DEF u
    <3> QED  BY <1>2, <2>2, Zenon
  <2>4. f[Any(T)] = g[Any(T)]
    BY <2>1, Zenon
  <2> HIDE DEF u
  <2> QED  BY <1>2, <1>4, <1>6, <2>3, <2>4, Zenon
<1> QED  BY <1>5, <1>6

\* A sum grows by what one of its values grows.
LEMMA SumOfRaised ==
    ASSUME NEW S, IsFiniteSet(S), NEW D, S \subseteq D, NEW f \in [D -> Int], NEW x \in S,
           NEW n \in Int
    PROVE  SumFunctionOnSet([f EXCEPT ![x] = f[x] + n], S) = SumFunctionOnSet(f, S) + n
<1> DEFINE g == [f EXCEPT ![x] = f[x] + n]
           rest == S \ {x}
<1>1. /\ \A y \in S : f[y] \in Int /\ g[y] \in Int
      /\ g[x] = f[x] + n /\ \A y \in rest : f[y] = g[y]
  OBVIOUS
<1>2. IsFiniteSet(rest) /\ \A y \in rest : f[y] \in Int
  BY FS_Subset
<1> HIDE DEF g
<1>3. SumFunctionOnSet(f, S) = f[x] + SumFunctionOnSet(f, rest)
  BY <1>1, SumSplits
<1>4. SumFunctionOnSet(g, S) = g[x] + SumFunctionOnSet(g, rest)
  BY <1>1, SumSplits
<1> HIDE DEF rest
<1>5. SumFunctionOnSet(f, rest) = SumFunctionOnSet(g, rest)
  BY <1>1, <1>2, SumOfSame
<1>6. SumFunctionOnSet(f, rest) \in Int
  BY <1>2, SumIsInt
<1>7. SumFunctionOnSet(g, S) = SumFunctionOnSet(f, S) + n
  <2> DEFINE r == SumFunctionOnSet(f, rest)
             fx == f[x]
             all == SumFunctionOnSet(f, S)
             new == SumFunctionOnSet(g, S)
  <2>1. all = fx + r /\ new = (fx + n) + r /\ r \in Int /\ fx \in Int
    BY <1>1, <1>3, <1>4, <1>5, <1>6, Zenon
  <2> HIDE DEF r, fx, all, new
  <2>2. new = all + n
    BY <2>1
  <2> QED  BY <2>2, Zenon DEF all, new
<1> QED  BY <1>7 DEF g

-----------------------------------------------------------------------------
(* The invariant of the cycle. *)

\* What an unfinished cycle knows about its order and its lane.
CycleControl ==
    cyc.pc \in Steps =>
        /\ cyc.trigger \notin traces
        /\ cyc.fill <= cyc.qty
        /\ cyc.pc \in {"records", "effects", "submit"} => cyc.fill = 0
        /\ cyc.fill > 0 \/ cyc.pc = "submit" =>
              cyc.decision \in Entries \cup {"CloseLong"}
        /\ cyc.decision = "CloseLong" /\ cyc.pc # "trace" => cyc.qty <= qty[Lane]
        /\ cyc.decision \in Entries /\ cyc.pc # "trace" => OpenPositions < MaxOpenPositions

\* What the exchange has executed and the lane's memory does not hold yet.
Pending(l) ==
    IF cyc.pc \in {"journal", "state"} /\ l = Lane
    THEN IF cyc.decision \in Entries THEN cyc.fill ELSE -cyc.fill
    ELSE 0

\* Memory and journal move together, the exchange ahead by the pending fill.
Agreement ==
    \A l \in Lanes \ torn:
        /\ posRec[l] = [qty |-> qty[l], cost |-> cost[l]]
        /\ remote[l] = qty[l] + Pending(l)

\* Without failures, what was executed is traced or is the current cycle.
ExecutedIsTraced ==
    faults = 0 /\ crashes = 0 => \A e \in executed:
        \/ e.trigger \in traces
        \/ /\ cyc.pc \in {"journal", "state", "trace"}
           /\ e = [trigger |-> cyc.trigger, cycle |-> begun]

PositionLimit == torn = {} => OpenPositions <= MaxOpenPositions

IInv ==
    /\ TypeOK
    /\ CycleControl
    /\ ReservationEndsWithSubmission
    /\ SizedEntryIsReservable
    /\ Agreement
    /\ ExecutedIsTraced
    /\ TriggerExecutesOnce
    /\ PositionLimit
-----------------------------------------------------------------------------
(***************************************************************************)
(* Lemmas about the ledger.                                                *)
(***************************************************************************)
\* A clamped amount is a natural number, and a natural number is not clamped.
LEMMA Clamped ==
    /\ \A n: AtLeastZero(n) \in Nat
    /\ \A n \in Nat: AtLeastZero(n) = n
BY DEF AtLeastZero

\* The rooms of a ledger are natural numbers, whatever its sums are.
LEMMA Rooms ==
    ASSUME NEW ledger \in Ledger, NEW b \in Bots
    PROVE  BotTradeable(ledger, b) \in Nat /\ AccountTradeable(ledger) \in Nat
<1>1. AccountTradeable(ledger) \in Nat
  BY Clamped DEF AccountTradeable, AccountAvailable
<1>2. BotAvailable(ledger, b) \in Nat
  BY Clamped DEF BotAvailable
<1>3. QED
  BY <1>1, <1>2 DEF BotTradeable, Lesser

\* The methods of the ledger lead from ledgers to ledgers.
LEMMA LedgerMethods ==
    ASSUME NEW ledger \in Ledger, NEW l \in Lanes, NEW n \in Nat, NEW m \in Nat,
           NEW held \in [Lanes -> Nat], NEW balance \in Nat \cup {NoBalance},
           NEW deficit \in BOOLEAN
    PROVE  /\ Reserve(ledger, l, n) \in Ledger
           /\ ReleaseReservation(ledger, l, n) \in Ledger
           /\ ReconcileOpenFill(ledger, l, m, n) \in Ledger
           /\ ReleasePosition(ledger, l, n) \in Ledger
           /\ SyncFromLanes(ledger, held) \in Ledger
           /\ RefreshFromSnapshot(ledger, held, balance, deficit) \in Ledger
<1>1. /\ ledger.open \in [Lanes -> Nat]
      /\ ledger.reserved \in [Lanes -> Nat]
      /\ ledger.live \in Nat \cup {NoBalance}
      /\ ledger.blocked \in BOOLEAN
      /\ ledger = [open |-> ledger.open, reserved |-> ledger.reserved,
                   live |-> ledger.live, blocked |-> ledger.blocked]
  BY DEF Ledger
<1>2. Reserve(ledger, l, n) \in Ledger
  BY <1>1 DEF Reserve, Ledger
<1>3. ReleaseReservation(ledger, l, n) \in Ledger
  BY <1>1, Clamped DEF ReleaseReservation, Ledger
<1>4. ReconcileOpenFill(ledger, l, m, n) \in Ledger
  BY <1>3 DEF ReconcileOpenFill, Ledger
<1>5. ReleasePosition(ledger, l, n) \in Ledger
  BY <1>1, Clamped DEF ReleasePosition, Ledger
<1>6. SyncFromLanes(ledger, held) \in Ledger
  BY <1>1 DEF SyncFromLanes, Ledger
<1>7. RefreshFromSnapshot(ledger, held, balance, deficit) \in Ledger
  BY <1>6, Zenon DEF RefreshFromSnapshot, Ledger
<1>8. QED
  BY <1>2, <1>3, <1>4, <1>5, <1>6, <1>7

\* A new ledger reserves nothing.
LEMMA NewLedgerType == NewLedger \in Ledger
BY DEF NewLedger, Ledger

\* What each method does to the reservations.
LEMMA Reservations ==
    ASSUME NEW ledger \in Ledger, NEW l \in Lanes, NEW n \in Nat, NEW m \in Nat,
           NEW held, NEW balance, NEW deficit
    PROVE  /\ Reserve(ledger, l, n).reserved
                = [ledger.reserved EXCEPT ![l] = ledger.reserved[l] + n]
           /\ ReleaseReservation(ledger, l, n).reserved
                = [ledger.reserved EXCEPT ![l] = AtLeastZero(ledger.reserved[l] - n)]
           /\ ReconcileOpenFill(ledger, l, m, n).reserved
                = [ledger.reserved EXCEPT ![l] = AtLeastZero(ledger.reserved[l] - n)]
           /\ ReleasePosition(ledger, l, n).reserved = ledger.reserved
           /\ SyncFromLanes(ledger, held).reserved = ledger.reserved
           /\ RefreshFromSnapshot(ledger, held, balance, deficit).reserved
                = ledger.reserved
BY DEF Ledger, Reserve, ReleaseReservation, ReconcileOpenFill, ReleasePosition,
       SyncFromLanes, RefreshFromSnapshot
-----------------------------------------------------------------------------
(***************************************************************************)
(* Lemmas about sizing and risk.                                           *)
(***************************************************************************)
\* Turning a notional into whole lots never asks for more than the notional.
LEMMA WholeLots ==
    ASSUME NEW d \in Nat, NEW price \in Nat \ {0}
    PROVE  d \div price \in Nat /\ (d \div price) * price <= d
OBVIOUS

\* Rounding down to the step yields a natural number that is no larger.
LEMMA Stepped ==
    ASSUME NEW q \in Nat
    PROVE  FloorToStep(q) \in Nat /\ FloorToStep(q) <= q
BY SizingAssumption, WholeLots DEF FloorToStep

\* A smaller quantity has a smaller notional.
LEMMA NotionalMonotone ==
    ASSUME NEW q \in Nat, NEW r \in Nat, NEW price \in Nat, q <= r
    PROVE  q * price <= r * price
OBVIOUS

\* A sized entry fits the bot's room, a sized close the position.
LEMMA Sizing ==
    ASSUME NEW intent \in Intents, NEW price \in Nat \ {0}, NEW held \in Nat,
           NEW botRoom \in Nat, NEW accountRoom \in Nat
    PROVE  LET r == ResolveOrderQuantity(intent, price, held, botRoom, accountRoom)
           IN  /\ r.qty \in Nat
               /\ r.outcome \in Outcomes
               /\ intent = "CloseLong" => r.qty <= held
               /\ intent \in Entries => r.qty * price <= botRoom
<1> DEFINE d == DesiredNotional(botRoom, accountRoom)
           raw == RawQuantity(intent, price, held, botRoom, accountRoom)
           q == ApplyExecutionConstraints(intent, price, raw)
           r == ResolveOrderQuantity(intent, price, held, botRoom, accountRoom)
<1>1. d \in Nat /\ d <= botRoom
  BY SizingAssumption DEF DesiredNotional, Smaller
<1>2. /\ raw \in Nat
      /\ intent = "CloseLong" => raw = held
      /\ intent \in Entries => raw * price <= d
  <2>1. CASE intent \in Entries
    BY <2>1, <1>1, WholeLots DEF RawQuantity, Entries
  <2>2. CASE intent = "CloseLong"
    BY <2>2 DEF RawQuantity, Entries
  <2>3. CASE intent = "NoOp"
    BY <2>3 DEF RawQuantity, Entries
  <2>4. QED
    BY <2>1, <2>2, <2>3 DEF Intents
<1>3. q \in Nat /\ q <= raw
  BY <1>2, Stepped DEF ApplyExecutionConstraints
<1>4. intent \in Entries => q * price <= botRoom
  <2>1. q * price <= raw * price
    BY <1>2, <1>3, NotionalMonotone
  <2>2. q * price \in Nat /\ raw * price \in Nat
    BY <1>2, <1>3
  <2>3. QED
    BY <2>1, <2>2, <1>1, <1>2
<1>5. r.qty = q
  BY DEF ResolveOrderQuantity
<1>6. r.outcome \in Outcomes
  BY DEF ResolveOrderQuantity, Outcomes
<1>7. QED
  BY <1>2, <1>3, <1>4, <1>5, <1>6

\* The decision keeps the intent or gives it up; an entry is only allowed
\* below the limit on open positions.
LEMMA Decision ==
    ASSUME NEW intent \in Intents, NEW price \in Nat, NEW resolved,
           NEW blocked \in BOOLEAN, NEW open \in Nat
    PROVE  LET d == RiskDecision(intent, price, resolved, blocked, open)
           IN  /\ d \in Intents \cup {"Reject"}
               /\ d \in Entries => d = intent /\ open < MaxOpenPositions
               /\ d = "CloseLong" => intent = "CloseLong"
BY SizingAssumption DEF RiskDecision, PolicyAllows, Intents, Entries
-----------------------------------------------------------------------------
(***************************************************************************)
(* The inductive invariant.                                                *)
(***************************************************************************)
\* Prices are positive numbers and bars are numbered by naturals.
LEMMA PriceType ==
    /\ \A p \in Prices: p \in Nat /\ p # 0
    /\ \A b \in 1..MaxBar: b \in Nat
    /\ Cooldown \in Nat
<1>1. Prices \subseteq Nat \ {0} /\ MaxBar \in Nat /\ Cooldown \in Nat
  BY CycleAssumption, Zenon
<1>2. QED
  BY <1>1

\* The parts of a cycle in flight have their types.
LEMMA CycleFields ==
    ASSUME TypeOK, cyc.pc \in Steps
    PROVE  /\ cyc \in Cycles
           /\ cyc.trigger \in Triggers
           /\ Lane \in Lanes
           /\ cyc.trigger.bar \in Nat
           /\ Close \in Prices /\ Close \in Nat \ {0}
           /\ cyc.qty \in Nat /\ cyc.fill \in Nat /\ cyc.price \in Nat
           /\ cyc.decision \in Intents \cup {"Reject"}
           /\ Held \in Nat
           /\ cyc.decision \in Intents => OrderId \in OrderIds
           /\ \A pc \in Steps: [cyc EXCEPT !.pc = pc] \in Cycles
<1>1. cyc \in Cycles
  BY DEF TypeOK, Idle, Down, Steps
<1>2. /\ cyc.trigger \in Triggers /\ cyc.qty \in Nat /\ cyc.fill \in Nat
      /\ cyc.decision \in Intents \cup {"Reject"} /\ cyc.price \in Prices \cup {0}
  BY <1>1 DEF Cycles
<1>3. /\ Lane \in Lanes /\ Close \in Prices /\ Close \in Nat \ {0}
      /\ cyc.trigger.bar \in 1..MaxBar /\ cyc.trigger.bar \in Nat
  <2>1. /\ cyc.trigger.lane \in Lanes /\ cyc.trigger.close \in Prices
        /\ cyc.trigger.bar \in 1..MaxBar
    BY <1>2 DEF Triggers
  <2>2. QED
    BY <2>1, PriceType DEF Lane, Close
<1>4. Held \in Nat
  BY <1>2, <1>3 DEF Held
<1>5. cyc.decision \in Intents => OrderId \in OrderIds
  BY <1>2, <1>3 DEF OrderId, OrderIds
<1>6. \A pc \in Steps: [cyc EXCEPT !.pc = pc] \in Cycles
  BY <1>1 DEF Cycles
<1>7. cyc.price \in Nat
  BY <1>2, PriceType
<1>8. QED
  BY <1>1, <1>2, <1>3, <1>4, <1>5, <1>6, <1>7

\* The count of open positions is a natural number.
LEMMA OpenPositionsType == OpenPositions \in Nat
<1>1. IsFiniteSet({l \in Lanes: qty[l] > 0})
  BY LedgerAssumption, FS_Subset
<1>2. QED
  BY <1>1, FS_CardinalityType DEF OpenPositions

\* The initial states satisfy the invariant.
LEMMA InitEstablishes == Init => IInv
<1> SUFFICES ASSUME Init PROVE IInv
  OBVIOUS
<1>1. TypeOK
  BY NewLedgerType DEF Init, TypeOK, Idle, Positions
<1>2. CycleControl /\ SizedEntryIsReservable
  BY DEF Init, CycleControl, SizedEntryIsReservable, Idle, Steps
<1>3. ReservationEndsWithSubmission
  BY DEF Init, ReservationEndsWithSubmission, Idle, Down, At, NewLedger
<1>4. Agreement
  BY DEF Init, Agreement, Pending, Idle
<1>5. ExecutedIsTraced /\ TriggerExecutesOnce
  BY DEF Init, ExecutedIsTraced, TriggerExecutesOnce
<1>6. PositionLimit
  <2>1. {l \in Lanes: qty[l] > 0} = {}
    BY DEF Init
  <2>2. QED
    BY <2>1, FS_EmptySet, SizingAssumption DEF PositionLimit, OpenPositions
<1>7. QED
  BY <1>1, <1>2, <1>3, <1>4, <1>5, <1>6 DEF IInv

\* A position never opens by leaving the quantities as they are.
LEMMA SameOpenPositions == qty' = qty => OpenPositions' = OpenPositions
BY DEF OpenPositions

\* A step that leaves positions, records and the exchange alone, from and to
\* a moment with nothing pending, preserves the facts about positions.
LEMMA PositionsFrame ==
    ASSUME IInv, UNCHANGED <<qty, cost, posRec, remote, torn>>,
           cyc.pc \notin {"journal", "state"}, cyc'.pc \notin {"journal", "state"}
    PROVE  Agreement' /\ PositionLimit'
<1>1. Agreement'
  BY DEF IInv, Agreement, Pending
<1>2. PositionLimit'
  BY SameOpenPositions DEF IInv, PositionLimit
<1>3. QED
  BY <1>1, <1>2

\* Starting a cycle.
LEMMA EvaluateStep == IInv /\ Evaluate => IInv'
<1> SUFFICES ASSUME IInv, NEW l \in Lanes, NEW k \in Kinds, NEW b \in 1..MaxBar,
                    NEW p \in Prices, NEW signal \in Signals, NEW stale \in BOOLEAN,
                    EvaluateCycle(l, k, b, p, signal, stale)
             PROVE  IInv'
  BY SMTT(30) DEF Evaluate
<1> DEFINE trigger == Trigger(l, k, b, p, signal)
           marked == [notional EXCEPT ![l] = qty[l] * p]
           synced == SyncFromLanes(led, marked)
           intent == IntentFor(signal, qty[l] > 0)
           resolved == ResolveOrderQuantity(intent, p, qty[l],
                           BotTradeable(synced, BotOf[l]), AccountTradeable(synced))
           decision == RiskDecision(intent, p, resolved, stale \/ b < until[l],
                                    OpenPositions)
<1>1. /\ cyc.pc = "idle" /\ trigger \notin traces
      /\ notional' = marked /\ led' = synced /\ begun' = begun + 1
      /\ cyc' = [pc |-> "records", trigger |-> trigger, qty |-> resolved.qty,
                 outcome |-> resolved.outcome, decision |-> decision,
                 fill |-> 0, price |-> 0]
      /\ UNCHANGED <<qty, cost, until, posRec, traces, remote, accepted, history,
                     faults, crashes>>
  BY Zenon DEF EvaluateCycle, At, HasNoMatchingTrace
<1> HIDE DEF decision, resolved, intent, synced, marked, trigger
<1>2. /\ qty \in [Lanes -> Nat] /\ notional \in [Lanes -> Nat] /\ led \in Ledger
      /\ p \in Nat \ {0} /\ BotOf[l] \in Bots /\ begun \in Nat
  <2>1. BotOf[l] \in Bots
    BY LedgerAssumption
  <2>2. QED
    BY <2>1, PriceType DEF IInv, TypeOK
<1>3. marked \in [Lanes -> Nat]
  BY <1>2 DEF marked
<1>4. synced \in Ledger /\ synced.reserved = led.reserved
  BY <1>2, <1>3 DEF synced, SyncFromLanes, Ledger
<1>5. trigger \in Triggers /\ trigger.lane = l /\ trigger.close = p
  BY DEF trigger, Trigger, Triggers
<1>6. intent \in Intents
  BY DEF intent, IntentFor, Intents, Entries
<1>7. /\ resolved.qty \in Nat
      /\ resolved.outcome \in Outcomes
      /\ intent = "CloseLong" => resolved.qty <= qty[l]
      /\ intent \in Entries => resolved.qty * p <= BotTradeable(synced, BotOf[l])
  BY <1>2, <1>4, <1>6, Rooms, Sizing, Zenon DEF resolved
<1>8. /\ decision \in Intents \cup {"Reject"}
      /\ decision \in Entries => decision = intent /\ OpenPositions < MaxOpenPositions
      /\ decision = "CloseLong" => intent = "CloseLong"
  <2>1. (stale \/ b < until[l]) \in BOOLEAN
    OBVIOUS
  <2>2. QED
    BY <1>2, <1>6, <2>1, OpenPositionsType, Decision, Zenon DEF decision
<1>9. TypeOK'
  <2>1. cyc' \in Cycles
    BY <1>1, <1>5, <1>7, <1>8, Zenon DEF Cycles, Steps
  <2>2. QED
    BY <1>1, <1>2, <1>3, <1>4, <2>1, SMTT(30) DEF IInv, TypeOK, history
<1>10. CycleControl'
  <2>1. OpenPositions' = OpenPositions
    BY <1>1, SameOpenPositions
  <2>2. QED
    BY <1>1, <1>5, <1>7, <1>8, <2>1 DEF CycleControl, Lane, Entries
<1>11. ReservationEndsWithSubmission'
  BY <1>1, <1>4 DEF IInv, ReservationEndsWithSubmission, At
<1>12. SizedEntryIsReservable'
  BY <1>1, <1>5, <1>7, <1>8 DEF SizedEntryIsReservable, CanReserve, Held, Lane, Close
<1>13. Agreement' /\ PositionLimit'
  BY <1>1, PositionsFrame DEF history
<1>14. ExecutedIsTraced' /\ TriggerExecutesOnce'
  BY <1>1 DEF IInv, ExecutedIsTraced, TriggerExecutesOnce, history
<1>15. QED
  BY <1>9, <1>10, <1>11, <1>12, <1>13, <1>14 DEF IInv

\* Counters stay natural numbers when a fault is counted.
LEMMA FaultType == TypeOK /\ (Fault \/ UNCHANGED faults) => faults' \in Nat
BY DEF TypeOK, Fault

\* With a fault on the record, nothing is claimed about executions.
LEMMA FaultForgets == TypeOK /\ Fault => faults' # 0
BY DEF TypeOK, Fault

\* Refusing a cycle.
LEMMA RefuseStep == IInv /\ RefuseCycle => IInv'
<1> SUFFICES ASSUME IInv, RefuseCycle PROVE IInv'
  OBVIOUS
<1>1. /\ cyc.pc = "idle" /\ cyc' = cyc /\ Fault
      /\ led' = SyncFromLanes(led, notional)
      /\ UNCHANGED <<memory, posRec, traces, remote, accepted, history, begun, crashes>>
  BY DEF RefuseCycle, At
<1>2. led' \in Ledger /\ led'.reserved = led.reserved
  BY <1>1 DEF IInv, TypeOK, SyncFromLanes, Ledger
<1>3. TypeOK'
  BY <1>1, <1>2, FaultType DEF IInv, TypeOK, memory, history
<1>4. CycleControl' /\ SizedEntryIsReservable'
  BY <1>1 DEF CycleControl, SizedEntryIsReservable, Steps
<1>5. ReservationEndsWithSubmission'
  BY <1>1, <1>2 DEF IInv, ReservationEndsWithSubmission, At
<1>6. Agreement' /\ PositionLimit'
  BY <1>1, PositionsFrame DEF memory, history
<1>7. ExecutedIsTraced' /\ TriggerExecutesOnce'
  BY <1>1, FaultForgets DEF IInv, ExecutedIsTraced, TriggerExecutesOnce
<1>8. QED
  BY <1>3, <1>4, <1>5, <1>6, <1>7 DEF IInv

\* A snapshot of the account.
LEMMA RefreshStep ==
    ASSUME IInv, NEW balance \in Balances, RefreshAccountLedger(balance)
    PROVE  IInv'
<1>1. /\ cyc.pc = "idle" /\ cyc' = cyc
      /\ led' = RefreshFromSnapshot(led, notional, balance, Deficit)
      /\ UNCHANGED <<memory, posRec, traces, remote, accepted, history, counters>>
  BY DEF RefreshAccountLedger, At
<1>2. led' \in Ledger /\ led'.reserved = led.reserved
  <2>1. balance \in Nat \cup {NoBalance} /\ Deficit \in BOOLEAN
    BY CycleAssumption, Zenon DEF Deficit
  <2>2. QED
    BY <1>1, <2>1, Zenon DEF IInv, TypeOK, RefreshFromSnapshot, SyncFromLanes, Ledger
<1>3. TypeOK'
  BY <1>1, <1>2 DEF IInv, TypeOK, memory, history, counters
<1>4. CycleControl' /\ SizedEntryIsReservable'
  BY <1>1, SMTT(30) DEF CycleControl, SizedEntryIsReservable, Steps
<1>5. ReservationEndsWithSubmission'
  BY <1>1, <1>2, Zenon DEF IInv, ReservationEndsWithSubmission, At
<1>6. Agreement' /\ PositionLimit'
  BY <1>1, PositionsFrame DEF memory, history
<1>7. ExecutedIsTraced' /\ TriggerExecutesOnce'
  BY <1>1 DEF IInv, ExecutedIsTraced, TriggerExecutesOnce, history, counters
<1>8. QED
  BY <1>3, <1>4, <1>5, <1>6, <1>7 DEF IInv

\* An aborted cycle leaves nothing to check but its lanes' positions.
LEMMA AbortFrame ==
    ASSUME TypeOK, Abort
    PROVE  /\ cyc' \in Cycles \cup {Idle, Down}
           /\ cyc'.pc = "idle"
           /\ CycleControl' /\ SizedEntryIsReservable'
BY DEF Abort, Idle, CycleControl, SizedEntryIsReservable, Steps

\* Journalling the evaluation.
LEMMA RecordsStep == IInv /\ AppendProcessBarRecords => IInv'
<1> SUFFICES ASSUME IInv, AppendProcessBarRecords PROVE IInv'
  OBVIOUS
<1>1. /\ cyc.pc = "records"
      /\ UNCHANGED <<memory, led, posRec, traces, remote, accepted, history, begun,
                     crashes>>
  BY DEF AppendProcessBarRecords, At
<1>2. CASE Goto("effects") /\ UNCHANGED faults
  <2>1. cyc' = [cyc EXCEPT !.pc = "effects"] /\ cyc' \in Cycles
    BY <1>1, <1>2, CycleFields DEF IInv, Goto, Steps
  <2>2. /\ cyc'.pc = "effects" /\ cyc'.trigger = cyc.trigger /\ cyc'.qty = cyc.qty
        /\ cyc'.decision = cyc.decision /\ cyc'.fill = cyc.fill
    BY <1>1, <2>1, CycleFields DEF IInv, Cycles, Steps
  <2>3. TypeOK'
    BY <1>1, <1>2, <2>1 DEF IInv, TypeOK, memory, history
  <2>4. CycleControl'
    BY <1>1, <2>2, SameOpenPositions
    DEF IInv, CycleControl, Steps, Lane, memory
  <2>5. ReservationEndsWithSubmission'
    BY <1>1, <2>2 DEF IInv, ReservationEndsWithSubmission, At
  <2>6. SizedEntryIsReservable'
    BY <1>1, <2>2 DEF IInv, SizedEntryIsReservable, CanReserve, Held, Lane, Close
  <2>7. Agreement' /\ PositionLimit'
    BY <1>1, <2>2, PositionsFrame DEF memory, history
  <2>8. ExecutedIsTraced' /\ TriggerExecutesOnce'
    BY <1>1, <1>2, <2>2 DEF IInv, ExecutedIsTraced, TriggerExecutesOnce, history
  <2>9. QED
    BY <2>3, <2>4, <2>5, <2>6, <2>7, <2>8 DEF IInv
<1>3. CASE Abort /\ Fault
  <2>1. TypeOK'
    BY <1>1, <1>3, FaultType, AbortFrame, SMTT(30) DEF IInv, TypeOK, memory, history
  <2>2. ReservationEndsWithSubmission'
    BY <1>1, <1>3, AbortFrame, Zenon DEF IInv, ReservationEndsWithSubmission, At
  <2>3. Agreement' /\ PositionLimit'
    BY <1>1, <1>3, AbortFrame, PositionsFrame DEF IInv, memory, history
  <2>4. ExecutedIsTraced' /\ TriggerExecutesOnce'
    BY <1>1, <1>3, FaultForgets, Zenon DEF IInv, ExecutedIsTraced, TriggerExecutesOnce
  <2>5. QED
    BY <1>3, <2>1, <2>2, <2>3, <2>4, AbortFrame DEF IInv
<1>4. QED
  BY <1>2, <1>3 DEF AppendProcessBarRecords

\* Moving on keeps everything of the cycle but its step.
LEMMA GotoFields ==
    ASSUME TypeOK, cyc.pc \in Steps, NEW pc \in Steps, Goto(pc)
    PROVE  /\ cyc' \in Cycles /\ cyc'.pc = pc
           /\ cyc'.trigger = cyc.trigger /\ cyc'.qty = cyc.qty
           /\ cyc'.decision = cyc.decision /\ cyc'.fill = cyc.fill
           /\ cyc'.price = cyc.price /\ cyc'.outcome = cyc.outcome
<1>1. cyc' = [cyc EXCEPT !.pc = pc] /\ cyc' \in Cycles /\ cyc \in Cycles
  BY CycleFields DEF Goto
<1>2. QED
  BY <1>1 DEF Cycles

\* Reserving and moving to the submission, or skipping it.
LEMMA EffectsStep == IInv /\ ApplyRiskDecisionEffects => IInv'
<1> SUFFICES ASSUME IInv, ApplyRiskDecisionEffects PROVE IInv'
  OBVIOUS
<1>1. /\ cyc.pc = "effects" /\ cyc.pc \in Steps
      /\ UNCHANGED <<memory, posRec, traces, remote, accepted, history, begun, crashes>>
  BY DEF ApplyRiskDecisionEffects, At, Steps
<1>2. CASE /\ MaySubmit /\ Goto("submit")
           /\ led' = Reserve(led, Lane, Held) /\ UNCHANGED faults
  <2>1. /\ cyc' \in Cycles /\ cyc'.pc = "submit"
        /\ cyc'.trigger = cyc.trigger /\ cyc'.qty = cyc.qty
        /\ cyc'.decision = cyc.decision /\ cyc'.fill = cyc.fill
    BY <1>1, <1>2, GotoFields DEF IInv, Steps
  <2>2. Lane \in Lanes /\ Held \in Nat /\ Lane' = Lane /\ Held' = Held
    BY <1>1, <2>1, CycleFields DEF IInv, Lane, Held, Close
  <2>3. /\ led' \in Ledger
        /\ led'.reserved = [led.reserved EXCEPT ![Lane] = led.reserved[Lane] + Held]
    BY <1>2, <2>2 DEF IInv, TypeOK, Reserve, Ledger
  <2>4. TypeOK'
    BY <1>1, <1>2, <2>1, <2>3 DEF IInv, TypeOK, memory, history
  <2>5. CycleControl'
    BY <1>1, <1>2, <2>1, SameOpenPositions
    DEF IInv, CycleControl, MaySubmit, Lane, memory
  <2>6. ReservationEndsWithSubmission'
    <3>1. led.reserved \in [Lanes -> Nat] /\ \A l \in Lanes: led.reserved[l] = 0
      BY <1>1 DEF IInv, TypeOK, Ledger, ReservationEndsWithSubmission, At
    <3>2. QED
      BY <2>1, <2>2, <2>3, <3>1 DEF ReservationEndsWithSubmission, At
  <2>7. SizedEntryIsReservable'
    BY <2>1 DEF SizedEntryIsReservable
  <2>8. Agreement' /\ PositionLimit'
    BY <1>1, <2>1, PositionsFrame, Zenon DEF memory, history
  <2>9. ExecutedIsTraced' /\ TriggerExecutesOnce'
    BY <1>1, <1>2, <2>1 DEF IInv, ExecutedIsTraced, TriggerExecutesOnce, history
  <2>10. QED
    BY <2>4, <2>5, <2>6, <2>7, <2>8, <2>9 DEF IInv
<1>3. CASE ~MaySubmit /\ Goto("state") /\ UNCHANGED <<led, faults>>
  <2>1. /\ cyc' \in Cycles /\ cyc'.pc = "state"
        /\ cyc'.trigger = cyc.trigger /\ cyc'.qty = cyc.qty
        /\ cyc'.decision = cyc.decision /\ cyc'.fill = 0 /\ cyc.fill = 0
    BY <1>1, <1>3, GotoFields DEF IInv, Steps, CycleControl
  <2>2. TypeOK'
    BY <1>1, <1>3, <2>1 DEF IInv, TypeOK, memory, history
  <2>3. CycleControl'
    BY <1>1, <2>1, SameOpenPositions, Zenon DEF IInv, CycleControl, Lane, memory
  <2>4. ReservationEndsWithSubmission' /\ SizedEntryIsReservable'
    BY <1>1, <1>3, <2>1, ZenonT(30)
    DEF IInv, ReservationEndsWithSubmission, SizedEntryIsReservable, At
  <2>5. Agreement'
    BY <1>1, <2>1 DEF IInv, Agreement, Pending, memory, history
  <2>6. PositionLimit'
    BY <1>1, SameOpenPositions, SMTT(30) DEF IInv, PositionLimit, memory, history
  <2>7. ExecutedIsTraced' /\ TriggerExecutesOnce'
    BY <1>1, <1>3, <2>1, Zenon DEF IInv, ExecutedIsTraced, TriggerExecutesOnce, history
  <2>8. QED
    BY <2>2, <2>3, <2>4, <2>5, <2>6, <2>7, Zenon DEF IInv
<1>4. CASE Abort /\ Fault /\ UNCHANGED led
  <2>1. TypeOK'
    BY <1>1, <1>4, FaultType, AbortFrame, SMTT(30) DEF IInv, TypeOK, memory, history
  <2>2. ReservationEndsWithSubmission'
    BY <1>1, <1>4, AbortFrame, Zenon DEF IInv, ReservationEndsWithSubmission, At
  <2>3. Agreement' /\ PositionLimit'
    BY <1>1, <1>4, AbortFrame, PositionsFrame DEF IInv, memory, history
  <2>4. ExecutedIsTraced' /\ TriggerExecutesOnce'
    BY <1>1, <1>4, FaultForgets, Zenon DEF IInv, ExecutedIsTraced, TriggerExecutesOnce
  <2>5. QED
    BY <1>4, <2>1, <2>2, <2>3, <2>4, AbortFrame DEF IInv
<1>5. QED
  BY <1>2, <1>3, <1>4 DEF ApplyRiskDecisionEffects

\* Giving a reservation back at the submission leaves none.
LEMMA ReservationReleased ==
    ASSUME IInv, cyc.pc = "submit"
    PROVE  /\ ReleaseReservation(led, Lane, Held) \in Ledger
           /\ \A l \in Lanes: ReleaseReservation(led, Lane, Held).reserved[l] = 0
<1>1. Lane \in Lanes /\ Held \in Nat
  BY CycleFields DEF IInv, Steps
<1>2. /\ led \in Ledger /\ led.reserved \in [Lanes -> Nat]
      /\ \A l \in Lanes: led.reserved[l] = IF l = Lane THEN Held ELSE 0
  BY DEF IInv, TypeOK, Ledger, ReservationEndsWithSubmission, At
<1>3. AtLeastZero(led.reserved[Lane] - Held) = 0
  BY <1>1, <1>2 DEF AtLeastZero
<1>4. ReleaseReservation(led, Lane, Held).reserved = [led.reserved EXCEPT ![Lane] = 0]
  BY <1>1, <1>2, <1>3 DEF ReleaseReservation, Ledger
<1>5. ReleaseReservation(led, Lane, Held) \in Ledger
  BY <1>1, <1>2, <1>3 DEF ReleaseReservation, Ledger
<1>6. QED
  BY <1>1, <1>2, <1>4, <1>5

\* An execution at the exchange keeps the types.
LEMMA ExecuteType ==
    ASSUME IInv, cyc.pc = "submit", NEW n \in 1..cyc.qty, Execute(n)
    PROVE  /\ remote' \in [Lanes -> Int]
           /\ accepted' \subseteq OrderIds
           /\ executed' \subseteq [trigger: Triggers, cycle: Nat]
           /\ n \in Nat /\ n > 0 /\ n <= cyc.qty
<1>1. /\ Lane \in Lanes /\ cyc.qty \in Nat /\ cyc.trigger \in Triggers
      /\ cyc.decision \in Intents /\ OrderId \in OrderIds
  BY CycleFields DEF IInv, CycleControl, Steps, Intents
<1>2. n \in Nat /\ n > 0 /\ n <= cyc.qty
  BY <1>1
<1>3. remote' \in [Lanes -> Int]
  BY <1>1, <1>2 DEF IInv, TypeOK, Execute
<1>4. accepted' \subseteq OrderIds
  BY <1>1 DEF IInv, TypeOK, Execute
<1>5. executed' \subseteq [trigger: Triggers, cycle: Nat]
  BY <1>1 DEF IInv, TypeOK, Execute
<1>6. QED
  BY <1>2, <1>3, <1>4, <1>5

\* The exchange answers with a fill.
LEMMA FilledStep ==
    ASSUME IInv, NEW n \in 1..cyc.qty, NEW price \in Prices,
           SubmitOrderFilled(n, price)
    PROVE  IInv'
<1>1. /\ cyc.pc = "submit" /\ cyc.pc \in Steps /\ Execute(n)
      /\ led' = IF cyc.decision \in Entries
                THEN ReconcileOpenFill(led, Lane, n * price, Held) ELSE led
      /\ cyc' = [cyc EXCEPT !.pc = "journal", !.fill = n, !.price = price]
      /\ UNCHANGED <<memory, posRec, traces, torn, counters>>
  BY DEF SubmitOrderFilled, At, Steps
<1>2. /\ Lane \in Lanes /\ Held \in Nat /\ cyc \in Cycles /\ cyc.qty \in Nat
      /\ price \in Nat /\ cyc.trigger \notin traces
      /\ cyc.decision \in Entries \cup {"CloseLong"}
  BY <1>1, CycleFields, PriceType DEF IInv, CycleControl
<1>3. n \in Nat /\ n > 0 /\ n <= cyc.qty /\ n * price \in Nat
  BY <1>1, <1>2, ExecuteType
<1>4. /\ cyc' \in Cycles /\ cyc'.pc = "journal" /\ cyc'.fill = n
      /\ cyc'.trigger = cyc.trigger /\ cyc'.qty = cyc.qty
      /\ cyc'.decision = cyc.decision
  BY <1>1, <1>2, <1>3, Zenon DEF Cycles, Steps
<1>5. led' \in Ledger /\ \A l \in Lanes: led'.reserved[l] = 0
  <2>1. CASE cyc.decision \in Entries
    <3>1. /\ ReleaseReservation(led, Lane, Held) \in Ledger
          /\ \A l \in Lanes: ReleaseReservation(led, Lane, Held).reserved[l] = 0
      BY <1>1, ReservationReleased
    <3>2. led' = ReconcileOpenFill(led, Lane, n * price, Held)
      BY <1>1, <2>1
    <3>3. QED
      BY <1>2, <1>3, <3>1, <3>2 DEF ReconcileOpenFill, Ledger
  <2>2. CASE cyc.decision \notin Entries
    BY <1>1, <2>2 DEF IInv, TypeOK, ReservationEndsWithSubmission, At, Held
  <2>3. QED
    BY <2>1, <2>2
<1>6. TypeOK'
  BY <1>1, <1>4, <1>5, ExecuteType DEF IInv, TypeOK, memory, counters
<1>7. CycleControl'
  BY <1>1, <1>2, <1>3, <1>4, SameOpenPositions DEF IInv, CycleControl, Lane, memory
<1>8. ReservationEndsWithSubmission' /\ SizedEntryIsReservable'
  BY <1>4, <1>5 DEF ReservationEndsWithSubmission, SizedEntryIsReservable, At
<1>9. Agreement'
  <2>1. Lane' = Lane
    BY <1>4 DEF Lane
  <2>2. remote' = [remote EXCEPT ![Lane] =
                     IF cyc.decision \in Entries THEN remote[Lane] + n
                                                 ELSE remote[Lane] - n]
    BY <1>1 DEF Execute
  <2>3. \A l \in Lanes \ torn: remote[l] = qty[l]
    BY <1>1 DEF IInv, TypeOK, Agreement, Pending
  <2>4. \A l \in Lanes \ torn: remote'[l] = qty[l] + Pending(l)'
    BY <1>2, <1>3, <1>4, <2>1, <2>2, <2>3 DEF IInv, TypeOK, Pending
  <2>5. QED
    BY <1>1, <2>4 DEF IInv, Agreement, memory
<1>10. PositionLimit'
  BY <1>1, SameOpenPositions DEF IInv, PositionLimit, memory
<1>11. ExecutedIsTraced' /\ TriggerExecutesOnce'
  <2>1. executed' = executed \cup {[trigger |-> cyc.trigger, cycle |-> begun]}
    BY <1>1 DEF Execute
  <2>2. faults = 0 /\ crashes = 0 => \A e \in executed: e.trigger \in traces
    BY <1>1 DEF IInv, ExecutedIsTraced
  <2>3. ExecutedIsTraced'
    BY <1>1, <1>4, <2>1, <2>2 DEF ExecutedIsTraced, counters
  <2>4. TriggerExecutesOnce'
    BY <1>1, <1>2, <2>1, <2>2 DEF IInv, TriggerExecutesOnce, counters
  <2>5. QED
    BY <2>3, <2>4
<1>12. QED
  BY <1>6, <1>7, <1>8, <1>9, <1>10, <1>11 DEF IInv

\* The submission fails, the order not executed.
LEMMA RefusedStep == IInv /\ SubmitOrderRefused => IInv'
<1> SUFFICES ASSUME IInv, SubmitOrderRefused PROVE IInv'
  OBVIOUS
<1>1. /\ cyc.pc = "submit" /\ Abort /\ (Fault \/ UNCHANGED faults)
      /\ led' = ReleaseReservation(led, Lane, Held)
      /\ UNCHANGED <<memory, posRec, traces, remote, accepted, history, begun, crashes>>
  BY DEF SubmitOrderRefused, At, ReleaseAfterError
<1>2. led' \in Ledger /\ \A l \in Lanes: led'.reserved[l] = 0
  BY <1>1, ReservationReleased, SMTT(30)
<1>3. TypeOK'
  BY <1>1, <1>2, FaultType, AbortFrame, Zenon DEF IInv, TypeOK, memory, history
<1>4. ReservationEndsWithSubmission'
  BY <1>1, <1>2, AbortFrame DEF IInv, ReservationEndsWithSubmission, At
<1>5. Agreement' /\ PositionLimit'
  BY <1>1, AbortFrame, PositionsFrame DEF IInv, memory, history
<1>6. ExecutedIsTraced' /\ TriggerExecutesOnce'
  BY <1>1, FaultForgets DEF IInv, ExecutedIsTraced, TriggerExecutesOnce, history
<1>7. QED
  BY <1>1, <1>3, <1>4, <1>5, <1>6, AbortFrame DEF IInv

\* The submission fails after the exchange has executed the order.
LEMMA LostStep ==
    ASSUME IInv, NEW n \in 1..cyc.qty, SubmitOrderLost(n)
    PROVE  IInv'
<1>1. /\ cyc.pc = "submit" /\ Abort /\ Fault /\ Execute(n)
      /\ led' = ReleaseReservation(led, Lane, Held)
      /\ torn' = torn \cup {Lane}
      /\ UNCHANGED <<memory, posRec, traces, begun, crashes>>
  BY DEF SubmitOrderLost, At, ReleaseAfterError
<1>2. led' \in Ledger /\ \A l \in Lanes: led'.reserved[l] = 0
  BY <1>1, ReservationReleased
<1>3. Lane \in Lanes
  BY <1>1, CycleFields DEF IInv, Steps
<1>4. TypeOK'
  BY <1>1, <1>2, <1>3, FaultType, AbortFrame, ExecuteType, Zenon DEF IInv, TypeOK, memory
<1>5. ReservationEndsWithSubmission'
  BY <1>1, <1>2, AbortFrame, Zenon DEF IInv, ReservationEndsWithSubmission, At
<1>6. Agreement'
  <2>1. \A l \in Lanes \ torn': remote'[l] = remote[l] /\ l \notin torn
    BY <1>1, <1>3, Zenon DEF IInv, TypeOK, Execute
  <2>2. cyc'.pc = "idle"
    BY <1>1, AbortFrame DEF IInv
  <2>3. QED
    BY <1>1, <2>1, <2>2, SMTT(30) DEF IInv, Agreement, Pending, memory
<1>7. PositionLimit'
  BY <1>1, SMTT(30) DEF PositionLimit
<1>8. ExecutedIsTraced' /\ TriggerExecutesOnce'
  BY <1>1, FaultForgets, Zenon DEF IInv, ExecutedIsTraced, TriggerExecutesOnce
<1>9. QED
  BY <1>1, <1>4, <1>5, <1>6, <1>7, <1>8, AbortFrame DEF IInv

\* Journalling the order and its fill.
LEMMA OrderRecordsStep == IInv /\ AppendOrderRecords => IInv'
<1> SUFFICES ASSUME IInv, AppendOrderRecords PROVE IInv'
  OBVIOUS
<1>1. /\ cyc.pc = "journal" /\ cyc.pc \in Steps
      /\ UNCHANGED <<memory, led, posRec, traces, remote, accepted, executed, begun,
                     crashes>>
  BY DEF AppendOrderRecords, At, Steps
<1>2. CASE Goto("state") /\ UNCHANGED <<torn, faults>>
  <2>1. /\ cyc' \in Cycles /\ cyc'.pc = "state"
        /\ cyc'.trigger = cyc.trigger /\ cyc'.qty = cyc.qty
        /\ cyc'.decision = cyc.decision /\ cyc'.fill = cyc.fill
    BY <1>1, <1>2, GotoFields DEF IInv, Steps
  <2>2. TypeOK'
    BY <1>1, <1>2, <2>1 DEF IInv, TypeOK, memory
  <2>3. CycleControl'
    BY <1>1, <2>1, SameOpenPositions DEF IInv, CycleControl, Lane, memory
  <2>4. ReservationEndsWithSubmission' /\ SizedEntryIsReservable'
    BY <1>1, <2>1, Zenon
    DEF IInv, ReservationEndsWithSubmission, SizedEntryIsReservable, At
  <2>5. Agreement'
    BY <1>1, <1>2, <2>1, ZenonT(30) DEF IInv, Agreement, Pending, Lane, memory
  <2>6. PositionLimit'
    BY <1>1, <1>2, SameOpenPositions DEF IInv, PositionLimit, memory
  <2>7. ExecutedIsTraced' /\ TriggerExecutesOnce'
    BY <1>1, <1>2, <2>1, Zenon DEF IInv, ExecutedIsTraced, TriggerExecutesOnce
  <2>8. QED
    BY <2>2, <2>3, <2>4, <2>5, <2>6, <2>7, Zenon DEF IInv
<1>3. CASE Abort /\ Fault /\ torn' = torn \cup {Lane}
  <2>1. Lane \in Lanes /\ cyc'.pc = "idle"
    BY <1>1, <1>3, CycleFields, AbortFrame, Zenon DEF IInv
  <2>2. TypeOK'
    BY <1>1, <1>3, <2>1, FaultType, AbortFrame, SMTT(30) DEF IInv, TypeOK, memory
  <2>3. ReservationEndsWithSubmission'
    BY <1>1, <2>1, Zenon DEF IInv, ReservationEndsWithSubmission, At
  <2>4. Agreement'
    BY <1>1, <1>3, <2>1, Zenon DEF IInv, Agreement, Pending, memory
  <2>5. PositionLimit'
    BY <1>3 DEF PositionLimit
  <2>6. ExecutedIsTraced' /\ TriggerExecutesOnce'
    BY <1>3, FaultForgets DEF IInv, ExecutedIsTraced, TriggerExecutesOnce
  <2>7. QED
    BY <1>3, <2>2, <2>3, <2>4, <2>5, <2>6, AbortFrame DEF IInv
<1>4. QED
  BY <1>2, <1>3 DEF AppendOrderRecords

\* The position after the fill: its type and its quantity.
LEMMA FilledFields ==
    ASSUME IInv, cyc.pc = "state", cyc.fill > 0
    PROVE  /\ FilledPosition \in Positions
           /\ FilledPosition.qty
                = qty[Lane] + (IF cyc.decision \in Entries THEN cyc.fill ELSE -cyc.fill)
           /\ cyc.decision \notin Entries => FilledPosition.qty <= qty[Lane]
<1>1. /\ Lane \in Lanes /\ cyc.fill \in Nat /\ cyc.price \in Nat /\ cyc.qty \in Nat
      /\ cyc.decision \in Entries \cup {"CloseLong"}
      /\ cyc.fill <= cyc.qty
      /\ cyc.decision = "CloseLong" => cyc.qty <= qty[Lane]
  BY CycleFields DEF IInv, CycleControl, Steps
<1>2. qty[Lane] \in Nat /\ cost[Lane] \in Nat
  BY <1>1 DEF IInv, TypeOK
<1>3. CASE cyc.decision \in Entries
  <2>1. FilledPosition = [qty |-> qty[Lane] + cyc.fill,
                          cost |-> cost[Lane] + cyc.fill * cyc.price]
    BY <1>3 DEF FilledPosition
  <2>2. QED
    BY <1>1, <1>2, <1>3, <2>1 DEF Positions
<1>4. CASE cyc.decision \notin Entries
  <2> DEFINE left == qty[Lane] - cyc.fill
             worth == IF left = 0 THEN 0 ELSE (cost[Lane] * left) \div qty[Lane]
  <2>1. left \in Nat /\ left <= qty[Lane] /\ AtLeastZero(left) = left
    BY <1>1, <1>2, <1>4, Clamped DEF Entries
  <2>2. worth \in Nat
    <3>1. left # 0 => qty[Lane] \in Nat \ {0} /\ cost[Lane] * left \in Nat
      BY <1>2, <2>1
    <3>2. QED
      BY <3>1, WholeLots
  <2>3. FilledPosition = [qty |-> left, cost |-> worth]
    BY <1>4, <2>1 DEF FilledPosition
  <2> HIDE DEF worth
  <2>4. QED
    BY <1>1, <1>2, <1>4, <2>1, <2>2, <2>3 DEF Positions
<1>5. QED
  BY <1>3, <1>4

\* A fill opens at most the position of its own lane, and only an entry does.
LEMMA FillOpensOne ==
    ASSUME IInv, cyc.pc = "state", cyc.fill > 0,
           qty' = [qty EXCEPT ![Lane] = FilledPosition.qty]
    PROVE  torn = {} => OpenPositions' <= MaxOpenPositions
<1> DEFINE before == {l \in Lanes: qty[l] > 0}
           after == {l \in Lanes: qty'[l] > 0}
<1>1. /\ Lane \in Lanes /\ qty \in [Lanes -> Nat] /\ FilledPosition.qty \in Nat
      /\ cyc.decision \notin Entries => FilledPosition.qty <= qty[Lane]
  BY CycleFields, FilledFields DEF IInv, TypeOK, Steps, Positions
<1>2. IsFiniteSet(before) /\ IsFiniteSet(after)
  BY LedgerAssumption, FS_Subset
<1>3. Cardinality(before) \in Nat /\ Cardinality(after) \in Nat
  BY <1>2, FS_CardinalityType
<1>4. CASE cyc.decision \in Entries
  <2>1. Cardinality(before) < MaxOpenPositions
    BY <1>4 DEF IInv, CycleControl, OpenPositions, Steps
  <2>2. after \subseteq before \cup {Lane}
    BY <1>1
  <2>3. /\ IsFiniteSet(before \cup {Lane})
        /\ Cardinality(before \cup {Lane}) <= Cardinality(before) + 1
    <3> HIDE DEF before
    <3>1. /\ IsFiniteSet(before \cup {Lane})
          /\ Cardinality(before \cup {Lane})
                = IF Lane \in before THEN Cardinality(before) ELSE Cardinality(before) + 1
      BY <1>2, FS_AddElement
    <3>2. QED
      BY <1>3, <3>1
  <2>4. /\ Cardinality(after) <= Cardinality(before \cup {Lane})
        /\ Cardinality(before \cup {Lane}) \in Nat
    BY <2>2, <2>3, FS_Subset, FS_CardinalityType
  <2>5. QED
    BY <1>3, <2>1, <2>3, <2>4, SizingAssumption DEF OpenPositions
<1>5. CASE cyc.decision \notin Entries
  <2>1. after \subseteq before
    BY <1>1, <1>5
  <2>2. Cardinality(after) <= Cardinality(before)
    BY <1>2, <2>1, FS_Subset
  <2>3. torn = {} => Cardinality(before) <= MaxOpenPositions
    BY SMTT(30) DEF IInv, PositionLimit, OpenPositions
  <2>4. QED
    BY <1>3, <2>2, <2>3, SizingAssumption DEF OpenPositions
<1>6. QED
  BY <1>4, <1>5

\* What applying the fill does to the lane's memory.
LEMMA FillStateType ==
    ASSUME IInv, cyc.pc = "state", ApplyFillState
    PROVE  /\ qty' \in [Lanes -> Nat] /\ cost' \in [Lanes -> Nat]
           /\ notional' \in [Lanes -> Nat] /\ until' \in [Lanes -> Nat]
           /\ torn = {} => OpenPositions' <= MaxOpenPositions
           /\ \A l \in Lanes: cyc.fill = 0 \/ l # Lane =>
                 qty'[l] = qty[l] /\ cost'[l] = cost[l]
           /\ cyc.fill > 0 =>
                 /\ FilledPosition \in Positions
                 /\ FilledPosition = [qty |-> qty'[Lane], cost |-> cost'[Lane]]
                 /\ qty'[Lane] = qty[Lane] +
                       (IF cyc.decision \in Entries THEN cyc.fill ELSE -cyc.fill)
<1>1. /\ Lane \in Lanes /\ Close \in Nat /\ cyc.fill \in Nat
      /\ cyc.trigger.bar \in Nat /\ Cooldown \in Nat
  BY CycleFields, PriceType DEF IInv, Steps
<1>2. /\ qty \in [Lanes -> Nat] /\ cost \in [Lanes -> Nat]
      /\ notional \in [Lanes -> Nat] /\ until \in [Lanes -> Nat]
  BY DEF IInv, TypeOK
<1>3. until' \in [Lanes -> Nat]
  <2> DEFINE later == CASE cyc.decision = "NoOp" -> until[Lane]
                        [] cyc.decision = "Reject" ->
                              IF cyc.outcome = "none" THEN cyc.trigger.bar + Cooldown
                              ELSE until[Lane]
                        [] OTHER -> 0
  <2>1. until' = [until EXCEPT ![Lane] = later]
    BY DEF ApplyFillState
  <2>2. later \in Nat
    BY <1>1, <1>2
  <2> HIDE DEF later
  <2>3. QED
    BY <1>2, <2>1, <2>2, Zenon
<1>4. CASE cyc.fill > 0
  <2>1. /\ FilledPosition \in Positions
        /\ FilledPosition.qty = qty[Lane] +
              (IF cyc.decision \in Entries THEN cyc.fill ELSE -cyc.fill)
    BY <1>4, FilledFields
  <2>2. /\ qty' = [qty EXCEPT ![Lane] = FilledPosition.qty]
        /\ cost' = [cost EXCEPT ![Lane] = FilledPosition.cost]
        /\ notional' = [notional EXCEPT ![Lane] = FilledPosition.qty * Close]
    BY <1>4, SMTT(30) DEF ApplyFillState
  <2>3. /\ FilledPosition.qty \in Nat /\ FilledPosition.cost \in Nat
        /\ FilledPosition.qty * Close \in Nat
        /\ FilledPosition = [qty |-> FilledPosition.qty, cost |-> FilledPosition.cost]
    BY <1>1, <2>1 DEF Positions
  <2>4. torn = {} => OpenPositions' <= MaxOpenPositions
    BY <1>4, <2>2, FillOpensOne
  <2>5. QED
    BY <1>1, <1>2, <1>3, <1>4, <2>1, <2>2, <2>3, <2>4
<1>5. CASE ~(cyc.fill > 0)
  <2>1. UNCHANGED <<qty, cost, notional>> /\ cyc.fill = 0
    BY <1>1, <1>5 DEF ApplyFillState
  <2>2. torn = {} => OpenPositions' <= MaxOpenPositions
    BY <2>1, SameOpenPositions DEF IInv, PositionLimit
  <2>3. QED
    BY <1>2, <1>3, <1>5, <2>1, <2>2
<1>6. QED
  BY <1>4, <1>5

\* Applying the fill to the lane, the journal and the ledger.
LEMMA StateStep == IInv /\ ApplyProcessBarState => IInv'
<1> SUFFICES ASSUME IInv, ApplyProcessBarState PROVE IInv'
  OBVIOUS
<1>1. /\ cyc.pc = "state" /\ cyc.pc \in Steps /\ ApplyFillState
      /\ UNCHANGED <<traces, remote, accepted, executed, begun, crashes>>
  BY DEF ApplyProcessBarState, At, Steps
<1>2. /\ Lane \in Lanes /\ Close \in Nat /\ cyc.fill \in Nat
      /\ led \in Ledger /\ \A l \in Lanes: led.reserved[l] = 0
  BY <1>1, CycleFields DEF IInv, TypeOK, ReservationEndsWithSubmission, At
<1>3. /\ qty' \in [Lanes -> Nat] /\ cost' \in [Lanes -> Nat]
      /\ notional' \in [Lanes -> Nat] /\ until' \in [Lanes -> Nat]
  BY <1>1, FillStateType
<1>4. torn = {} => OpenPositions' <= MaxOpenPositions
  BY <1>1, FillStateType, SMTT(30)
<1>5. \A l \in Lanes: cyc.fill = 0 \/ l # Lane => qty'[l] = qty[l] /\ cost'[l] = cost[l]
  BY <1>1, FillStateType, SMTT(30)
<1>6. cyc.fill > 0 =>
         /\ FilledPosition \in Positions
         /\ FilledPosition = [qty |-> qty'[Lane], cost |-> cost'[Lane]]
         /\ qty'[Lane] = qty[Lane] +
               (IF cyc.decision \in Entries THEN cyc.fill ELSE -cyc.fill)
  BY <1>1, FillStateType, SMTT(30)
<1>7. CASE /\ Goto("trace")
           /\ posRec' = IF cyc.fill > 0 THEN AppendPositionRecord ELSE posRec
           /\ led' = SyncFromLanes(
                         IF cyc.decision = "CloseLong" /\ cyc.fill > 0
                         THEN ReleasePosition(led, Lane, cyc.fill * Close) ELSE led,
                         notional')
           /\ UNCHANGED <<torn, faults>>
  <2>1. /\ cyc' \in Cycles /\ cyc'.pc = "trace"
        /\ cyc'.trigger = cyc.trigger /\ cyc'.qty = cyc.qty
        /\ cyc'.decision = cyc.decision /\ cyc'.fill = cyc.fill
    BY <1>1, <1>7, GotoFields, ZenonT(30) DEF IInv, Steps
  <2>2. led' \in Ledger /\ led'.reserved = led.reserved
    <3> DEFINE released == IF cyc.decision = "CloseLong" /\ cyc.fill > 0
                           THEN ReleasePosition(led, Lane, cyc.fill * Close) ELSE led
    <3>1. released \in Ledger /\ released.reserved = led.reserved
      BY <1>2, Clamped DEF ReleasePosition, Ledger
    <3>2. led' = SyncFromLanes(released, notional')
      BY <1>7, Zenon
    <3> HIDE DEF released
    <3>3. QED
      BY <1>3, <3>1, <3>2 DEF SyncFromLanes, Ledger
  <2>3. posRec' \in [Lanes -> Positions]
    <3>1. CASE cyc.fill > 0
      BY <1>2, <1>6, <1>7, <3>1, Zenon DEF IInv, TypeOK, AppendPositionRecord
    <3>2. CASE ~(cyc.fill > 0)
      BY <1>7, <3>2, Zenon DEF IInv, TypeOK
    <3>3. QED
      BY <3>1, <3>2, Zenon
  <2>4. TypeOK'
    BY <1>1, <1>3, <1>7, <2>1, <2>2, <2>3 DEF IInv, TypeOK
  <2>5. CycleControl'
    BY <1>1, <2>1, Zenon DEF IInv, CycleControl
  <2>6. ReservationEndsWithSubmission' /\ SizedEntryIsReservable'
    BY <1>2, <2>1, <2>2, Zenon DEF ReservationEndsWithSubmission, SizedEntryIsReservable, At
  <2>7. Agreement'
    <3>1. ASSUME NEW l \in Lanes \ torn
          PROVE  /\ posRec'[l] = [qty |-> qty'[l], cost |-> cost'[l]]
                 /\ remote[l] = qty'[l]
      <4>1. posRec[l] = [qty |-> qty[l], cost |-> cost[l]] /\ remote[l] = qty[l] + Pending(l)
        BY Zenon DEF IInv, Agreement
      <4>2. qty[l] \in Nat
        BY SMTT(30) DEF IInv, TypeOK
      <4>3. CASE cyc.fill > 0 /\ l = Lane
        <5>1. posRec' = AppendPositionRecord /\ posRec \in [Lanes -> Positions]
          BY <1>7, <4>3 DEF IInv, TypeOK
        <5>2. posRec'[l] = FilledPosition
          BY <1>2, <4>3, <5>1, SMTT(30) DEF AppendPositionRecord
        <5>3. remote[l] = qty'[l]
          <6>1. Pending(l) = IF cyc.decision \in Entries THEN cyc.fill ELSE -cyc.fill
            BY <1>1, <4>3, Zenon DEF Pending
          <6>2. qty'[l] = qty[l] + Pending(l)
            BY <1>6, <4>3, <6>1, Zenon
          <6>3. QED
            BY <4>1, <6>2, Zenon
        <5>4. QED
          BY <1>6, <4>3, <5>2, <5>3
      <4>4. CASE ~(cyc.fill > 0 /\ l = Lane)
        <5>1. qty'[l] = qty[l] /\ cost'[l] = cost[l] /\ Pending(l) = 0
          <6>1. cyc.fill = 0 \/ l # Lane
            BY <1>2, <4>4
          <6>2. Pending(l) = 0
            BY <6>1 DEF Pending
          <6>3. QED
            BY <1>5, <6>1, <6>2, Zenon
        <5>2. posRec'[l] = posRec[l]
          BY <1>2, <1>7, <4>4, Zenon DEF IInv, TypeOK, AppendPositionRecord
        <5>3. remote[l] = qty[l] + 0
          BY <4>1, <5>1
        <5>4. remote[l] = qty'[l]
          BY <4>2, <5>1, <5>3
        <5>5. posRec'[l] = [qty |-> qty'[l], cost |-> cost'[l]]
          BY <4>1, <5>1, <5>2, Zenon
        <5>6. QED
          BY <5>4, <5>5, Zenon
      <4>5. QED
        BY <4>3, <4>4, Zenon
    <3>2. torn' = torn /\ remote' = remote /\ \A l \in Lanes: qty'[l] \in Nat
      BY <1>1, <1>3, <1>7
    <3>3. \A l \in Lanes \ torn: remote'[l] = qty'[l] + Pending(l)'
      <4> SUFFICES ASSUME NEW l \in Lanes \ torn
                   PROVE  remote'[l] = qty'[l] + Pending(l)'
        OBVIOUS
      <4>1. Pending(l)' = 0
        BY <2>1 DEF Pending
      <4>2. remote'[l] = qty'[l] /\ qty'[l] \in Nat
        BY <3>1, <3>2, Zenon
      <4>3. QED
        BY <4>1, <4>2
    <3>4. QED
      BY <3>1, <3>2, <3>3, Zenon DEF Agreement
  <2>8. PositionLimit'
    BY <1>4, <1>7 DEF PositionLimit
  <2>9. ExecutedIsTraced' /\ TriggerExecutesOnce'
    BY <1>1, <1>7, <2>1, Zenon DEF IInv, ExecutedIsTraced, TriggerExecutesOnce
  <2>10. QED
    BY <2>4, <2>5, <2>6, <2>7, <2>8, <2>9, Zenon DEF IInv
<1>8. CASE /\ cyc.fill > 0 /\ Fault /\ Abort
           /\ torn' = torn \cup {Lane} /\ UNCHANGED <<posRec, led>>
  <2>1. cyc'.pc = "idle"
    BY <1>8, AbortFrame, SMTT(30) DEF IInv
  <2>2. TypeOK'
    BY <1>1, <1>2, <1>3, <1>8, FaultType, AbortFrame, Zenon DEF IInv, TypeOK
  <2>3. ReservationEndsWithSubmission'
    BY <1>2, <1>8, <2>1 DEF ReservationEndsWithSubmission, At
  <2>4. Agreement'
    BY <1>1, <1>2, <1>5, <1>8, <2>1, Zenon DEF IInv, TypeOK, Agreement, Pending
  <2>5. PositionLimit'
    BY <1>8 DEF PositionLimit
  <2>6. ExecutedIsTraced' /\ TriggerExecutesOnce'
    BY <1>8, FaultForgets DEF IInv, ExecutedIsTraced, TriggerExecutesOnce
  <2>7. QED
    BY <1>8, <2>2, <2>3, <2>4, <2>5, <2>6, AbortFrame DEF IInv
<1>9. QED
  BY <1>7, <1>8 DEF ApplyProcessBarState

\* Writing the cycle's trace ends the cycle.
LEMMA TraceStep == IInv /\ PersistCycleTrace => IInv'
<1> SUFFICES ASSUME IInv, PersistCycleTrace PROVE IInv'
  OBVIOUS
<1>1. /\ cyc.pc = "trace" /\ cyc.pc \in Steps /\ Abort
      /\ UNCHANGED <<memory, led, posRec, remote, accepted, history, begun, crashes>>
      /\ \/ traces' = traces \cup {cyc.trigger} /\ UNCHANGED faults
         \/ Fault /\ UNCHANGED traces
  BY DEF PersistCycleTrace, At, Steps
<1>2. cyc.trigger \in Triggers /\ cyc'.pc = "idle"
  BY <1>1, CycleFields, AbortFrame, SMTT(30) DEF IInv
<1>3. TypeOK'
  BY <1>1, <1>2, FaultType, AbortFrame, Zenon DEF IInv, TypeOK, memory, history
<1>4. ReservationEndsWithSubmission'
  BY <1>1, <1>2, Zenon DEF IInv, ReservationEndsWithSubmission, At
<1>5. Agreement' /\ PositionLimit'
  BY <1>1, <1>2, PositionsFrame DEF memory, history
<1>6. ExecutedIsTraced' /\ TriggerExecutesOnce'
  <2>1. CASE traces' = traces \cup {cyc.trigger} /\ UNCHANGED faults
    <3>1. UNCHANGED <<executed, faults, crashes>> /\ cyc.trigger \in traces'
      BY <1>1, <2>1 DEF history
    <3>2. ASSUME faults = 0, crashes = 0, NEW e \in executed
          PROVE  e.trigger \in traces'
      BY <2>1, <3>1, <3>2 DEF IInv, ExecutedIsTraced
    <3>3. ExecutedIsTraced'
      BY <3>1, <3>2, Zenon DEF ExecutedIsTraced
    <3>4. TriggerExecutesOnce'
      BY <3>1, Zenon DEF IInv, TriggerExecutesOnce
    <3>5. QED
      BY <3>3, <3>4
  <2>2. CASE Fault /\ UNCHANGED traces
    BY <2>2, FaultForgets DEF IInv, ExecutedIsTraced, TriggerExecutesOnce
  <2>3. QED
    BY <1>1, <2>1, <2>2, SMTT(30)
<1>7. QED
  BY <1>1, <1>3, <1>4, <1>5, <1>6, AbortFrame DEF IInv

\* A crash keeps the lane's last position: the memory is lost at the restart.
LEMMA CrashStep == IInv /\ Crash => IInv'
<1> SUFFICES ASSUME IInv, Crash PROVE IInv'
  OBVIOUS
<1>1. /\ cyc'.pc = "down" /\ cyc' = Down /\ crashes' = crashes + 1
      /\ torn' = IF cyc.pc \in {"journal", "state"} /\ cyc.fill > 0
                 THEN torn \cup {Lane} ELSE torn
      /\ UNCHANGED <<memory, led, posRec, traces, remote, accepted, executed, begun,
                     faults>>
  BY DEF Crash, Down
<1>2. torn' \subseteq Lanes /\ torn \subseteq torn'
  BY <1>1, CycleFields DEF IInv, TypeOK, Steps
<1>3. crashes' \in Nat /\ crashes' # 0
  BY <1>1 DEF IInv, TypeOK
<1>4. TypeOK'
  BY <1>1, <1>2, <1>3, SMTT(30) DEF IInv, TypeOK, memory
<1>5. CycleControl' /\ SizedEntryIsReservable' /\ ReservationEndsWithSubmission'
  BY <1>1, ZenonT(30)
  DEF CycleControl, SizedEntryIsReservable, ReservationEndsWithSubmission, Steps, At
<1>6. Agreement'
  <2>1. \A l \in Lanes \ torn': Pending(l) = 0
    BY <1>1, CycleFields DEF IInv, Pending, Steps
  <2>2. QED
    BY <1>1, <1>2, <2>1, Zenon DEF IInv, Agreement, Pending, memory
<1>7. PositionLimit'
  BY <1>1, <1>2, SameOpenPositions DEF IInv, PositionLimit, memory
<1>8. ExecutedIsTraced' /\ TriggerExecutesOnce'
  BY <1>3 DEF ExecutedIsTraced, TriggerExecutesOnce
<1>9. QED
  BY <1>4, <1>5, <1>6, <1>7, <1>8 DEF IInv

\* The fields of a position record.
LEMMA PositionFields ==
    ASSUME NEW p, NEW q, NEW c, p = [qty |-> q, cost |-> c]
    PROVE  p.qty = q /\ p.cost = c
OBVIOUS

\* The restart reads the journal's positions.
LEMMA RestartStep ==
    ASSUME IInv, NEW balance \in Balances, Restart(balance)
    PROVE  IInv'
<1>1. /\ cyc.pc = "down" /\ cyc' = Idle /\ cyc'.pc = "idle"
      /\ qty' = [l \in Lanes |-> posRec[l].qty]
      /\ cost' = [l \in Lanes |-> posRec[l].cost]
      /\ notional' = cost'
      /\ until' = [l \in Lanes |-> 0]
      /\ led' = RefreshFromSnapshot(NewLedger, notional', balance, Deficit)
      /\ UNCHANGED <<posRec, traces, remote, accepted, history, counters>>
  BY DEF Restart, At, Idle
<1>2. /\ qty' \in [Lanes -> Nat] /\ cost' \in [Lanes -> Nat]
      /\ until' \in [Lanes -> Nat]
  BY <1>1 DEF IInv, TypeOK, Positions
<1>3. led' \in Ledger /\ led'.reserved = [l \in Lanes |-> 0]
  <2>1. balance \in Nat \cup {NoBalance} /\ Deficit \in BOOLEAN
    BY CycleAssumption, Zenon DEF Deficit
  <2>2. QED
    BY <1>1, <1>2, <2>1, Zenon
    DEF RefreshFromSnapshot, SyncFromLanes, NewLedger, Ledger
<1>4. TypeOK'
  BY <1>1, <1>2, <1>3, Zenon DEF IInv, TypeOK, history, counters
<1>5. CycleControl' /\ SizedEntryIsReservable' /\ ReservationEndsWithSubmission'
  BY <1>1, <1>3, Zenon
  DEF CycleControl, SizedEntryIsReservable, ReservationEndsWithSubmission, Steps, At
<1>6. \A l \in Lanes \ torn: qty'[l] = qty[l] /\ cost'[l] = cost[l]
  <2> SUFFICES ASSUME NEW l \in Lanes \ torn
               PROVE  qty'[l] = qty[l] /\ cost'[l] = cost[l]
    OBVIOUS
  <2>1. posRec[l] = [qty |-> qty[l], cost |-> cost[l]]
    BY Zenon DEF IInv, Agreement
  <2>2. posRec[l].qty = qty[l] /\ posRec[l].cost = cost[l]
    BY <2>1, PositionFields, Zenon
  <2>3. QED
    BY <1>1, <2>2, Zenon
<1>7. Agreement'
  BY <1>1, <1>2, <1>6, ZenonT(30) DEF IInv, Agreement, Pending, history
<1>8. PositionLimit'
  <2>1. torn = {} => {l \in Lanes: qty'[l] > 0} = {l \in Lanes: qty[l] > 0}
    BY <1>6
  <2>2. QED
    BY <1>1, <2>1, Zenon DEF IInv, PositionLimit, OpenPositions, history
<1>9. ExecutedIsTraced' /\ TriggerExecutesOnce'
  BY <1>1, Zenon DEF IInv, ExecutedIsTraced, TriggerExecutesOnce, history, counters
<1>10. QED
  BY <1>4, <1>5, <1>7, <1>8, <1>9 DEF IInv
-----------------------------------------------------------------------------
(***************************************************************************)
(* Theorems.                                                               *)
(***************************************************************************)
\* Every step of the specification preserves the inductive invariant.
LEMMA NextPreserves == IInv /\ [Next]_vars => IInv'
<1> SUFFICES ASSUME IInv, [Next]_vars PROVE IInv'
  OBVIOUS
<1>1. CASE Evaluate
  BY <1>1, EvaluateStep
<1>2. CASE RefuseCycle
  BY <1>2, RefuseStep
<1>3. CASE AppendProcessBarRecords
  BY <1>3, RecordsStep
<1>4. CASE ApplyRiskDecisionEffects
  BY <1>4, EffectsStep
<1>5. CASE Submit
  BY <1>5, FilledStep, LostStep, RefusedStep DEF Submit
<1>6. CASE AppendOrderRecords
  BY <1>6, OrderRecordsStep
<1>7. CASE ApplyProcessBarState
  BY <1>7, StateStep
<1>8. CASE PersistCycleTrace
  BY <1>8, TraceStep
<1>9. CASE \E balance \in Balances: RefreshAccountLedger(balance)
  BY <1>9, RefreshStep
<1>10. CASE Crash
  BY <1>10, CrashStep
<1>11. CASE \E balance \in Balances: Restart(balance)
  BY <1>11, RestartStep
<1>12. CASE UNCHANGED vars
  <2>1. /\ qty' = qty /\ cost' = cost /\ notional' = notional /\ until' = until
        /\ led' = led /\ cyc' = cyc /\ posRec' = posRec /\ traces' = traces
        /\ remote' = remote /\ accepted' = accepted /\ executed' = executed
        /\ torn' = torn /\ begun' = begun /\ faults' = faults /\ crashes' = crashes
    BY <1>12, SMTT(30) DEF vars
  <2>2. TypeOK' /\ CycleControl' /\ PositionLimit'
    <3>1. TypeOK'
      BY <2>1, Zenon DEF IInv, TypeOK
    <3>2. CycleControl'
      BY <2>1, SameOpenPositions, Zenon DEF IInv, CycleControl, Lane
    <3>3. PositionLimit'
      BY <2>1, SameOpenPositions, Zenon DEF IInv, PositionLimit
    <3> QED  BY <3>1, <3>2, <3>3
  <2>3. ReservationEndsWithSubmission' /\ SizedEntryIsReservable'
    BY <2>1, Zenon DEF IInv, ReservationEndsWithSubmission, SizedEntryIsReservable, At, Lane,
                Held, Close, CanReserve
  <2>4. Agreement'
    BY <2>1, Zenon DEF IInv, Agreement, Pending, Lane
  <2>5. ExecutedIsTraced' /\ TriggerExecutesOnce'
    BY <2>1 DEF IInv, ExecutedIsTraced, TriggerExecutesOnce
  <2>6. QED
    BY <2>2, <2>3, <2>4, <2>5 DEF IInv
<1>13. QED
  BY <1>1, <1>2, <1>3, <1>4, <1>5, <1>6, <1>7, <1>8, <1>9, <1>10, <1>11, <1>12 DEF Next

(***************************************************************************)
(* The inductive invariant holds in every reachable state.                 *)
(***************************************************************************)
THEOREM Invariance == Spec => []IInv
BY InitEstablishes, NextPreserves, PTL DEF Spec

(***************************************************************************)
(* The state of the cycle, the lanes, the ledger and the journal keeps its *)
(* types: no position or room of the ledger ever becomes negative.         *)
(***************************************************************************)
THEOREM TypeCorrect == Spec => []TypeOK
<1>1. IInv => TypeOK
  BY DEF IInv
<1>2. QED
  BY <1>1, Invariance, PTL

(***************************************************************************)
(* Whatever fails in a cycle, a lane's reservation ends with the           *)
(* submission it was taken for (apply_risk_decision_effects).              *)
(***************************************************************************)
THEOREM ReservationsEnd == Spec => []ReservationEndsWithSubmission
<1>1. IInv => ReservationEndsWithSubmission
  BY DEF IInv
<1>2. QED
  BY <1>1, Invariance, PTL

(***************************************************************************)
(* An entry that sizing and risk have allowed can be reserved when the     *)
(* cycle comes to it (resolve_order_quantity against AccountLedger).       *)
(***************************************************************************)
THEOREM SizingAgreesWithLedger == Spec => []SizedEntryIsReservable
<1>1. IInv => SizedEntryIsReservable
  BY SMTT(30) DEF IInv
<1>2. QED
  BY <1>1, Invariance, PTL

(***************************************************************************)
(* Memory, journal and exchange agree on the position of every lane whose  *)
(* cycles all reached the position record, crashes included.               *)
(***************************************************************************)
THEOREM PositionsStayTogether == Spec => []PositionsAgree
<1>1. IInv => PositionsAgree
  BY DEF IInv, TypeOK, Agreement, Pending, PositionsAgree, At
<1>2. QED
  BY <1>1, Invariance, PTL

(***************************************************************************)
(* The account's limit on open positions holds over all lanes and restarts *)
(* (BasicRiskPolicy), for every limit and any number of lanes.             *)
(***************************************************************************)
THEOREM PositionLimitHolds == Spec => []OpenPositionsWithinLimit
<1>1. IInv => OpenPositionsWithinLimit
  BY DEF IInv, PositionLimit, OpenPositionsWithinLimit
<1>2. QED
  BY <1>1, Invariance, PTL

(***************************************************************************)
(* Without failures every trigger is executed at most once                 *)
(* (has_matching_cycle_trace).                                             *)
(***************************************************************************)
THEOREM TriggersExecuteOnce == Spec => []TriggerExecutesOnce
<1>1. IInv => TriggerExecutesOnce
  BY DEF IInv
<1>2. QED
  BY <1>1, Invariance, PTL

(***************************************************************************)
(* With any failures, a trigger whose trace is in the journal is never     *)
(* executed again.                                                         *)
(***************************************************************************)
THEOREM TracesAreFinal == Spec => TracedTriggerIsFinal
<1> DEFINE Final == \A e \in executed' \ executed: e.trigger \notin traces
<1>1. IInv /\ [Next]_vars => [Final]_vars
  <2> SUFFICES ASSUME IInv, Next PROVE Final
    OBVIOUS
  <2>1. CASE executed' = executed
    BY <2>1
  <2>2. CASE /\ cyc.pc = "submit"
             /\ executed' = executed \cup {[trigger |-> cyc.trigger, cycle |-> begun]}
    BY <2>2 DEF IInv, CycleControl, Steps
  <2>3. CASE Evaluate
    <3>1. PICK l \in Lanes, k \in Kinds, b \in 1..MaxBar, p \in Prices,
               signal \in Signals, stale \in BOOLEAN:
                 EvaluateCycle(l, k, b, p, signal, stale)
      BY <2>3, Zenon DEF Evaluate
    <3>2. executed' = executed
      BY <3>1, Zenon DEF EvaluateCycle, history
    <3>3. QED
      BY <2>1, <3>2
  <2>4. CASE Submit
    <3>1. ASSUME NEW n \in 1..cyc.qty, NEW price \in Prices,
                 SubmitOrderFilled(n, price)
          PROVE  Final
      BY <2>2, <3>1 DEF SubmitOrderFilled, Execute, At
    <3>2. ASSUME NEW n \in 1..cyc.qty, SubmitOrderLost(n) PROVE Final
      BY <2>2, <3>2 DEF SubmitOrderLost, Execute, At
    <3>3. CASE SubmitOrderRefused
      BY <2>1, <3>3 DEF SubmitOrderRefused, history
    <3>4. QED
      BY <2>4, <3>1, <3>2, <3>3 DEF Submit
  <2>5. CASE \/ RefuseCycle \/ AppendProcessBarRecords \/ ApplyRiskDecisionEffects
             \/ AppendOrderRecords \/ ApplyProcessBarState \/ PersistCycleTrace
             \/ Crash
    <3>1. executed' = executed
      BY <2>5, Zenon DEF RefuseCycle, AppendProcessBarRecords, ApplyRiskDecisionEffects,
                  AppendOrderRecords, ApplyProcessBarState, PersistCycleTrace, Crash,
                  history
    <3>2. QED
      BY <2>1, <3>1, SMTT(30)
  <2>6. CASE \E balance \in Balances: RefreshAccountLedger(balance) \/ Restart(balance)
    BY <2>1, <2>6 DEF RefreshAccountLedger, Restart, history
  <2>7. QED
    BY <2>3, <2>4, <2>5, <2>6 DEF Next
<1>2. QED
  BY <1>1, Invariance, PTL DEF Spec, TracedTriggerIsFinal
-----------------------------------------------------------------------------
(***************************************************************************)
(* Entries and the budgets.                                                *)
(***************************************************************************)
\* The ledger's sums are integers and grow by what is added to one lane.
LEMMA TotalIsInteger ==
    ASSUME NEW f \in [Lanes -> Nat], NEW S \in SUBSET Lanes
    PROVE  Total(f, S) \in Int
<1>1. IsFiniteSet(S) /\ \A x \in S : f[x] \in Int
  BY LedgerAssumption, FS_Subset
<1> QED  BY <1>1, SumIsInt DEF Total

LEMMA TotalIsRaised ==
    ASSUME NEW f \in [Lanes -> Nat], NEW S \in SUBSET Lanes, NEW l \in S, NEW n \in Nat,
           NEW g, g = [f EXCEPT ![l] = f[l] + n]
    PROVE  Total(g, S) = Total(f, S) + n
<1>1. IsFiniteSet(S) /\ S \subseteq Lanes /\ f \in [Lanes -> Int] /\ n \in Int
  BY LedgerAssumption, FS_Subset
<1>2. SumFunctionOnSet([f EXCEPT ![l] = f[l] + n], S) = SumFunctionOnSet(f, S) + n
  BY <1>1, SumOfRaised, Zenon
<1> QED  BY <1>2, Zenon DEF Total

\* A positive amount that can be reserved keeps both budgets once it is reserved, and
\* nothing blocks the account.
LEMMA ReservedIsInBudget ==
    ASSUME NEW ledger \in Ledger, NEW l \in Lanes, NEW n \in Nat, n > 0,
           CanReserve(ledger, l, n)
    PROVE  /\ BotCommitted(Reserve(ledger, l, n), BotOf[l])
                <= BotAllocated(Reserve(ledger, l, n), BotOf[l])
           /\ TotalCommitted(Reserve(ledger, l, n)) <= EffectiveCap(Reserve(ledger, l, n))
           /\ ~Reserve(ledger, l, n).blocked
<1> DEFINE b == BotOf[l]
           r == Reserve(ledger, l, n)
           mine == LanesOfBot(b)
<1>1. b \in Bots /\ mine \in SUBSET Lanes /\ l \in mine /\ Lanes \in SUBSET Lanes
  BY LedgerAssumption DEF LanesOfBot
<1>2. /\ ledger.open \in [Lanes -> Nat] /\ ledger.reserved \in [Lanes -> Nat]
      /\ ledger.live \in Nat \cup {NoBalance} /\ ledger.blocked \in BOOLEAN
  BY DEF Ledger
<1>3. /\ r.open = ledger.open /\ r.live = ledger.live /\ r.blocked = ledger.blocked
      /\ r.reserved = [ledger.reserved EXCEPT ![l] = ledger.reserved[l] + n]
  BY DEF Ledger, Reserve
<1> HIDE DEF b, r, mine
<1> DEFINE cap == EffectiveCap(ledger)
           share == BotAllocated(ledger, b)
           botSum == BotCommitted(ledger, b)
           allSum == TotalCommitted(ledger)
<1>4. cap \in Int /\ EffectiveCap(r) = cap
  <2>1. DeclaredTotal \in Int /\ (ledger.live # NoBalance => ledger.live \in Int)
    BY <1>2, LedgerAssumption
  <2>2. cap \in Int
    BY <2>1 DEF EffectiveCap, Lesser
  <2>3. EffectiveCap(r) = cap
    BY <1>3, Zenon DEF EffectiveCap
  <2> QED  BY <2>2, <2>3, Zenon
<1>5. share \in Int /\ BotAllocated(r, b) = share
  <2>1. BudgetPct[b] \in Int
    BY <1>1, LedgerAssumption
  <2> HIDE DEF cap
  <2>2. (cap * BudgetPct[b]) \div 100 \in Int
    BY <1>4, <2>1
  <2> QED  BY <1>4, <2>2 DEF BotAllocated, cap
<1>6. botSum \in Int /\ BotCommitted(r, b) = botSum + n
  <2> DEFINE o == Total(ledger.open, mine)
             q == Total(ledger.reserved, mine)
             q2 == Total(r.reserved, mine)
  <2>1. o \in Int /\ q \in Int
    BY <1>1, <1>2, TotalIsInteger, Zenon
  <2>2. q2 = q + n
    <3> DEFINE f == ledger.reserved
               g == r.reserved
    <3>1. f \in [Lanes -> Nat] /\ g = [f EXCEPT ![l] = f[l] + n]
      BY <1>2, <1>3, Zenon
    <3> HIDE DEF f, g
    <3>2. Total(g, mine) = Total(f, mine) + n
      <4>1. mine \in SUBSET Lanes /\ l \in mine
        BY <1>1, Zenon
      <4> QED  BY <3>1, <4>1, TotalIsRaised, ZenonT(60)
    <3> QED  BY <3>2, Zenon DEF f, g
  <2>3. botSum = o + q /\ BotCommitted(r, b) = o + q2
    BY <1>3, Zenon DEF BotCommitted, mine
  <2> HIDE DEF o, q, q2, botSum
  <2> QED  BY <2>1, <2>2, <2>3
<1>7. allSum \in Int /\ TotalCommitted(r) = allSum + n
  <2> DEFINE o == Total(ledger.open, Lanes)
             q == Total(ledger.reserved, Lanes)
             q2 == Total(r.reserved, Lanes)
  <2>1. o \in Int /\ q \in Int
    BY <1>1, <1>2, TotalIsInteger, Zenon
  <2>2. q2 = q + n
    <3> DEFINE f == ledger.reserved
               g == r.reserved
               all == Lanes
    <3>1. f \in [Lanes -> Nat] /\ g = [f EXCEPT ![l] = f[l] + n]
      BY <1>2, <1>3, Zenon
    <3>2. all \in SUBSET Lanes /\ l \in all
      OBVIOUS
    <3> HIDE DEF f, g, all
    <3>3. Total(g, all) = Total(f, all) + n
      BY <3>1, <3>2, TotalIsRaised, ZenonT(60)
    <3> QED  BY <3>3, Zenon DEF f, g, all
  <2>3. allSum = o + q /\ TotalCommitted(r) = o + q2
    BY <1>3, Zenon DEF TotalCommitted
  <2> HIDE DEF o, q, q2, allSum
  <2> QED  BY <2>1, <2>2, <2>3
<1>8. /\ n <= AtLeastZero(share - botSum)
      /\ n <= IF ledger.blocked THEN 0 ELSE AtLeastZero(cap - allSum)
  <2> DEFINE x == AtLeastZero(share - botSum)
             y == IF ledger.blocked THEN 0 ELSE AtLeastZero(cap - allSum)
  <2>1. x \in Nat /\ y \in Nat
    BY Clamped
  <2>2. n <= Lesser(x, y)
    BY Zenon DEF CanReserve, BotTradeable, BotAvailable, AccountTradeable, AccountAvailable, b
  <2> HIDE DEF x, y
  <2>3. n <= x /\ n <= y
    BY <2>1, <2>2 DEF Lesser
  <2> QED  BY <2>3 DEF x, y
<1> HIDE DEF cap, share, botSum, allSum
<1>9. ~ledger.blocked
  BY <1>2, <1>8
<1>10. n <= share - botSum /\ n <= cap - allSum
  BY <1>4, <1>5, <1>6, <1>7, <1>8, <1>9 DEF AtLeastZero
<1>11. botSum + n <= share /\ allSum + n <= cap
  BY <1>4, <1>5, <1>6, <1>7, <1>10
<1> QED  BY <1>3, <1>4, <1>5, <1>6, <1>7, <1>9, <1>11, Zenon DEF b, r

\* An entry that was allowed has a quantity.
EntryHasQuantity == cyc.pc \in Steps /\ cyc.decision \in Entries => cyc.qty > 0

\* Sizing and risk allow no entry without a quantity.
LEMMA EvaluatedHasQuantity == IInv /\ Evaluate => EntryHasQuantity' /\ ~At("submit")'
<1> SUFFICES ASSUME IInv, NEW l \in Lanes, NEW k \in Kinds, NEW b \in 1..MaxBar,
                    NEW p \in Prices, NEW signal \in Signals, NEW stale \in BOOLEAN,
                    EvaluateCycle(l, k, b, p, signal, stale)
             PROVE  EntryHasQuantity' /\ ~At("submit")'
  BY Zenon DEF Evaluate
<1> DEFINE synced == SyncFromLanes(led, [notional EXCEPT ![l] = qty[l] * p])
           intent == IntentFor(signal, qty[l] > 0)
           resolved == ResolveOrderQuantity(intent, p, qty[l],
                           BotTradeable(synced, BotOf[l]), AccountTradeable(synced))
           decision == RiskDecision(intent, p, resolved, stale \/ b < until[l], OpenPositions)
<1>1. /\ cyc'.pc = "records" /\ cyc'.qty = resolved.qty /\ cyc'.decision = decision
  BY Zenon DEF EvaluateCycle
<1> HIDE DEF synced, intent, resolved
<1>2. decision \in Entries => resolved.qty > 0
  BY DEF RiskDecision, PolicyAllows, Entries
<1> HIDE DEF decision
<1> QED  BY <1>1, <1>2, Zenon DEF EntryHasQuantity, At

\* A cycle comes to its submission only by reserving what the order asks for.
SubmitsByReserving ==
    /\ EntryHasQuantity'
    /\ At("submit")' =>
          \/ UNCHANGED <<led, cyc>>
          \/ /\ MaySubmit /\ led' = Reserve(led, Lane, Held)
             /\ cyc.pc = "effects" /\ Goto("submit")

LEMMA OnlyEffectsSubmit ==
    ASSUME IInv, EntryHasQuantity, [Next]_vars
    PROVE  SubmitsByReserving
<1>1. ASSUME cyc' \in {Idle, Down} PROVE SubmitsByReserving
  <2>1. cyc'.pc \in {"idle", "down"}
    BY <1>1 DEF Idle, Down
  <2>2. cyc'.pc \notin Steps
    BY <2>1 DEF Steps
  <2>3. cyc'.pc # "submit"
    BY <2>1
  <2> QED  BY <2>2, <2>3, Zenon DEF SubmitsByReserving, EntryHasQuantity, At
<1>2. ASSUME NEW pc \in Steps, cyc.pc \in Steps, Goto(pc), pc # "submit" PROVE SubmitsByReserving
  BY <1>2, GotoFields DEF IInv, EntryHasQuantity, At, SubmitsByReserving
<1>3. CASE Evaluate
  BY <1>3, EvaluatedHasQuantity, Zenon DEF SubmitsByReserving
<1>4. CASE RefuseCycle
  BY <1>4 DEF RefuseCycle, EntryHasQuantity, At, SubmitsByReserving
<1>5. CASE AppendProcessBarRecords
  BY <1>1, <1>2, <1>5, Zenon DEF AppendProcessBarRecords, Abort, At, Steps
<1>6. CASE ApplyRiskDecisionEffects
  <2>1. cyc.pc = "effects" /\ cyc.pc \in Steps
    BY <1>6 DEF ApplyRiskDecisionEffects, At, Steps
  <2>2. CASE MaySubmit /\ Goto("submit") /\ led' = Reserve(led, Lane, Held)
    <3>1. EntryHasQuantity'
      BY <2>1, <2>2, GotoFields DEF IInv, EntryHasQuantity, Steps
    <3> QED  BY <2>1, <2>2, <3>1, Zenon DEF SubmitsByReserving
  <2>3. CASE Goto("state")
    BY <1>2, <2>1, <2>3 DEF Steps
  <2>4. CASE Abort
    BY <1>1, <2>4, Zenon DEF Abort
  <2> QED  BY <1>6, <2>2, <2>3, <2>4, Zenon DEF ApplyRiskDecisionEffects
<1>7. CASE At("submit") /\ Submit
  <2>1. ASSUME NEW n \in 1..cyc.qty, NEW price \in Prices, SubmitOrderFilled(n, price)
        PROVE  SubmitsByReserving
    <3>1. cyc' = [cyc EXCEPT !.pc = "journal", !.fill = n, !.price = price]
      BY <2>1, Zenon DEF SubmitOrderFilled
    <3>2. cyc \in Cycles /\ cyc.pc \in Steps
      BY <1>7, CycleFields DEF IInv, At, Steps
    <3>3. cyc'.pc = "journal" /\ cyc'.decision = cyc.decision /\ cyc'.qty = cyc.qty
      BY <3>1, <3>2 DEF Cycles
    <3> QED  BY <3>2, <3>3, Zenon DEF EntryHasQuantity, At, SubmitsByReserving
  <2>2. CASE SubmitOrderRefused
    BY <1>1, <2>2, Zenon DEF SubmitOrderRefused, Abort
  <2>3. ASSUME NEW n \in 1..cyc.qty, SubmitOrderLost(n) PROVE SubmitsByReserving
    BY <1>1, <2>3, Zenon DEF SubmitOrderLost, Abort
  <2> QED  BY <1>7, <2>1, <2>2, <2>3, Zenon DEF Submit
<1>8. CASE AppendOrderRecords
  BY <1>1, <1>2, <1>8, Zenon DEF AppendOrderRecords, Abort, At, Steps
<1>9. CASE ApplyProcessBarState
  BY <1>1, <1>2, <1>9, Zenon DEF ApplyProcessBarState, Abort, At, Steps
<1>10. CASE PersistCycleTrace
  BY <1>1, <1>10, Zenon DEF PersistCycleTrace, Abort
<1>11. CASE \E balance \in Balances: RefreshAccountLedger(balance)
  BY <1>11 DEF RefreshAccountLedger, EntryHasQuantity, At, SubmitsByReserving
<1>12. CASE Crash
  BY <1>1, <1>12, Zenon DEF Crash
<1>13. CASE \E balance \in Balances: Restart(balance)
  BY <1>1, <1>13, Zenon DEF Restart
<1>14. CASE UNCHANGED vars
  <2>1. cyc' = cyc /\ led' = led
    BY <1>14, Zenon DEF vars
  <2> QED  BY <2>1, Zenon DEF EntryHasQuantity, SubmitsByReserving
<1> QED
  BY <1>3, <1>4, <1>5, <1>6, <1>7, <1>8, <1>9, <1>10, <1>11, <1>12, <1>13, <1>14, Zenon DEF Next

(***************************************************************************)
(* An entry goes to the exchange only inside both budgets: what the bot    *)
(* and the account have committed, this order included, is within the      *)
(* bot's share and the effective cap, and no exception blocks the account  *)
(* (bot_tradeable_notional, reserve), for any number of lanes and bots.    *)
(***************************************************************************)
THEOREM EntriesStayInBudget == Spec => []SubmittedEntryIsInBudget
<1> DEFINE Inv == EntryHasQuantity /\ SubmittedEntryIsInBudget
<1>1. Init => Inv
  <2> SUFFICES ASSUME Init PROVE Inv
    OBVIOUS
  <2>1. cyc.pc = "idle"
    BY DEF Init, Idle
  <2>2. cyc.pc \notin Steps /\ cyc.pc # "submit"
    BY <2>1 DEF Steps
  <2> QED  BY <2>2, Zenon DEF EntryHasQuantity, SubmittedEntryIsInBudget, At
<1>2. IInv /\ Inv /\ [Next]_vars => Inv'
  <2> SUFFICES ASSUME IInv, Inv, [Next]_vars PROVE Inv'
    OBVIOUS
  <2>1. EntryHasQuantity'
    BY OnlyEffectsSubmit DEF SubmitsByReserving
  <2>2. SUFFICES ASSUME At("submit")', (cyc.decision \in Entries)'
                 PROVE  (/\ BotCommitted(led, BotOf[Lane]) <= BotAllocated(led, BotOf[Lane])
                         /\ TotalCommitted(led) <= EffectiveCap(led)
                         /\ ~led.blocked)'
    BY <2>1, Zenon DEF SubmittedEntryIsInBudget
  <2>3. CASE UNCHANGED <<led, cyc>>
    BY <2>2, <2>3, Zenon DEF SubmittedEntryIsInBudget, At, Lane, BotCommitted, BotAllocated,
                     TotalCommitted, EffectiveCap
  <2>4. CASE /\ MaySubmit /\ led' = Reserve(led, Lane, Held)
             /\ cyc.pc = "effects" /\ Goto("submit")
    <3>1. /\ cyc'.trigger = cyc.trigger /\ cyc'.decision = cyc.decision
          /\ cyc.pc \in Steps
      BY <2>4, GotoFields, Zenon DEF IInv, Steps
    <3>2. cyc.decision \in Entries /\ cyc.qty > 0 /\ CanReserve(led, Lane, Held)
      BY <2>2, <2>4, <3>1, Zenon DEF EntryHasQuantity, MaySubmit
    <3>3. Lane \in Lanes /\ Held \in Nat /\ Held > 0 /\ led \in Ledger
      <4>1. Lane \in Lanes /\ Close \in Nat \ {0} /\ cyc.qty \in Nat /\ led \in Ledger
        BY <3>1, CycleFields DEF IInv, TypeOK
      <4>2. cyc.qty * Close \in Nat /\ cyc.qty * Close > 0
        BY <3>2, <4>1
      <4> QED  BY <3>2, <4>1, <4>2 DEF Held
    <3>4. Lane' = Lane
      BY <3>1 DEF Lane
    <3> QED  BY <2>4, <3>2, <3>3, <3>4, ReservedIsInBudget, Zenon
                DEF BotCommitted, BotAllocated, TotalCommitted, EffectiveCap
  <2> QED  BY <2>2, <2>3, <2>4, OnlyEffectsSubmit, Zenon DEF SubmitsByReserving
<1>3. Inv => SubmittedEntryIsInBudget
  OBVIOUS
<1> QED  BY <1>1, <1>2, <1>3, Invariance, PTL DEF Spec
=============================================================================
