----------------------------- MODULE LaneProofs -----------------------------
(***************************************************************************)
(* A running lane holds what its records say, for any bots, closers,       *)
(* faults, rows of older versions and number of restarts, as long as the   *)
(* records are within the scan.                                            *)
(***************************************************************************)
EXTENDS SharedSymbol, FiniteSetTheorems, TLAPS

-----------------------------------------------------------------------------
(* A nonempty set of indices has a largest one. *)
LEMMA LargestIndex ==
    ASSUME NEW n \in Nat, NEW J \in SUBSET (1 .. n), J # {}
    PROVE  \E m \in J : \A j \in J : j <= m
<1> DEFINE Above(j) == {k \in 1 .. n : k > j}
           T == {Above(j) : j \in J}
           R == StrictSubsetOrdering(1 .. n)
<1>1. IsFiniteSet(1 .. n)
  BY FS_Interval
<1>2. T \subseteq FiniteSubsetsOf(1 .. n) /\ T # {}
  <2>1. T \subseteq SUBSET (1 .. n) /\ T # {}
    BY Zenon
  <2> HIDE DEF T
  <2> QED  BY <1>1, <2>1, FS_FiniteSubsetsOfFinite, Zenon
<1>3. IsWellFoundedOn(R, FiniteSubsetsOf(1 .. n))
  BY FS_StrictSubsetOrderingWellFounded
<1> HIDE DEF T
<1>4. \E x \in T : \A y \in T : ~(<<y, x>> \in R)
  <2> HIDE DEF R
  <2> QED  BY <1>2, <1>3, WFMin
<1>5. PICK m \in J : \A y \in T : ~(<<y, Above(m)>> \in R)
  BY <1>4, Zenon DEF T
<1>6. ASSUME NEW j \in J, j > m PROVE FALSE
  <2>1. Above(j) \subseteq Above(m) /\ j \in Above(m) /\ j \notin Above(j)
    BY <1>6
  <2>2. Above(j) \in T
    BY DEF T
  <2>3. <<Above(j), Above(m)>> \in R
    <3>1. Above(j) \in SUBSET (1 .. n) /\ Above(m) \in SUBSET (1 .. n) /\ Above(j) # Above(m)
      BY <2>1
    <3> HIDE DEF Above
    <3> QED  BY <2>1, <3>1 DEF StrictSubsetOrdering
  <2> QED  BY <1>5, <2>2, <2>3
<1> QED  BY <1>6

RowSet == [here : BOOLEAN, has : BOOLEAN, qty : Nat, priced : BOOLEAN, reason : Reasons]

(* What the records of a bot say it holds, and what a reconciliation takes it to hold. *)
Held(rs) == AuthoritativeQuantity(AuthoritativeIn(rs, 0))
Resolved(q, rs) == IF q > 0 THEN q ELSE Held(rs)

(* The rows that count, by their index. *)
Counted(rs) == {i \in DOMAIN rs : i > 0 /\ rs[i].here /\ Authoritative(rs[i])}

LEMMA NewestCounts ==
    ASSUME NEW rs \in Seq(RowSet), Counted(rs) # {}
    PROVE  /\ Max(Counted(rs)) \in Counted(rs)
           /\ \A i \in Counted(rs) : i <= Max(Counted(rs))
<1> DEFINE J == Counted(rs)
<1>1. Len(rs) \in Nat /\ J \in SUBSET (1 .. Len(rs))
  BY DEF Counted
<1> HIDE DEF J
<1>2. \E m \in J : \A j \in J : j <= m
  BY <1>1, LargestIndex, Zenon DEF J
<1>3. \E m \in J : \A j \in J : m >= j
  BY <1>1, <1>2
<1>4. Max(J) \in J /\ \A j \in J : Max(J) >= j
  BY <1>3 DEF Max
<1> QED  BY <1>1, <1>4 DEF J

(* A record that counts is the newest once it is written. *)
LEMMA HeldAfterAppend ==
    ASSUME NEW rs \in Seq(RowSet), NEW row \in RowSet, row.here, Authoritative(row)
    PROVE  Held(Append(rs, row)) = AuthoritativeQuantity(row)
<1> DEFINE n == Len(rs) + 1
           r == Append(rs, row)
<1>1. /\ r \in Seq(RowSet) /\ Len(r) = n /\ n \in Nat /\ r[n] = row /\ DOMAIN r = 1 .. n
  OBVIOUS
<1> HIDE DEF r
<1>2. n \in Counted(r)
  BY <1>1 DEF Counted
<1>3. Max(Counted(r)) = n
  <2>1. Max(Counted(r)) \in Counted(r) /\ n <= Max(Counted(r))
    BY <1>1, <1>2, NewestCounts
  <2>2. Max(Counted(r)) \in 1 .. n
    BY <1>1, <2>1 DEF Counted
  <2> HIDE DEF n
  <2> QED  BY <1>1, <2>1, <2>2
<1>4. AuthoritativeIn(r, 0) = r[Max(Counted(r))]
  BY <1>2 DEF AuthoritativeIn, Counted
<1> QED  BY <1>1, <1>3, <1>4 DEF Held, r

(* A record of another symbol changes nothing. *)
LEMMA HeldAfterOther ==
    ASSUME NEW rs \in Seq(RowSet), NEW row \in RowSet, ~row.here
    PROVE  Held(Append(rs, row)) = Held(rs)
<1> DEFINE n == Len(rs)
           r == Append(rs, row)
<1>1. /\ r \in Seq(RowSet) /\ n \in Nat /\ r[n + 1] = row /\ DOMAIN r = 1 .. n + 1
      /\ DOMAIN rs = 1 .. n /\ \A i \in 1 .. n : r[i] = rs[i]
  OBVIOUS
<1> HIDE DEF r, n
<1>2. Counted(r) = Counted(rs)
  BY <1>1 DEF Counted
<1>3. /\ AuthoritativeIn(r, 0) = IF Counted(r) = {} THEN NoRow ELSE r[Max(Counted(r))]
      /\ AuthoritativeIn(rs, 0) = IF Counted(rs) = {} THEN NoRow ELSE rs[Max(Counted(rs))]
  BY DEF AuthoritativeIn, Counted
<1>4. CASE Counted(rs) = {}
  BY <1>2, <1>3, <1>4 DEF Held, r
<1>5. CASE Counted(rs) # {}
  <2>1. Max(Counted(rs)) \in 1 .. n
    BY <1>1, <1>5, NewestCounts DEF Counted
  <2> QED  BY <1>1, <1>2, <1>3, <1>5, <2>1 DEF Held, r
<1> QED  BY <1>4, <1>5

LEMMA HeldIsNat ==
    ASSUME NEW rs \in Seq(RowSet)
    PROVE  Held(rs) \in Nat
<1>1. AuthoritativeIn(rs, 0) = IF Counted(rs) = {} THEN NoRow ELSE rs[Max(Counted(rs))]
  BY DEF AuthoritativeIn, Counted
<1>2. ASSUME Counted(rs) # {} PROVE rs[Max(Counted(rs))] \in RowSet
  <2>1. Max(Counted(rs)) \in DOMAIN rs
    BY <1>2, NewestCounts DEF Counted
  <2> QED  BY <2>1
<1>3. NoRow.qty = 0 /\ AuthoritativeQuantity(NoRow) \in Nat
  BY DEF NoRow, AuthoritativeQuantity
<1>4. \A row \in RowSet : AuthoritativeQuantity(row) \in Nat
  BY DEF RowSet, AuthoritativeQuantity
<1> QED  BY <1>1, <1>2, <1>3, <1>4 DEF Held

(* Within the scan, the newest record that counts is found. *)
LEMMA ScanFindsHeld ==
    ASSUME NEW rs \in Seq(RowSet), ScanLimit \in Nat, Len(rs) <= ScanLimit
    PROVE  AuthoritativeQuantity(LatestAuthoritative(rs)) = Held(rs)
<1>1. DOMAIN rs = 1 .. Len(rs) /\ Len(rs) \in Nat
  OBVIOUS
<1>2. {i \in DOMAIN rs : i > Len(rs) - ScanLimit /\ rs[i].here /\ Authoritative(rs[i])}
        = {i \in DOMAIN rs : i > 0 /\ rs[i].here /\ Authoritative(rs[i])}
  BY <1>1
<1> QED  BY <1>2, Zenon DEF LatestAuthoritative, AuthoritativeIn, Held

(* A position record says what it was written for. *)
LEMMA RowSays ==
    ASSUME NEW q \in Nat, NEW p \in BOOLEAN, NEW reason \in Reasons
    PROVE  /\ Row(q, p, reason) \in RowSet /\ Row(q, p, reason).here
           /\ Row(q, p, reason).reason = reason
           /\ AuthoritativeQuantity(Row(q, p, reason)) = q
<1>1. (q > 0) \in BOOLEAN
  OBVIOUS
<1>2. Row(q, p, reason).qty = q /\ Row(q, p, reason).has = (q > 0)
  BY Zenon DEF Row
<1>3. AuthoritativeQuantity(Row(q, p, reason)) = q
  <2>1. CASE q > 0
    BY <1>2, <2>1 DEF AuthoritativeQuantity
  <2>2. CASE ~(q > 0)
    <3>1. q = 0 /\ (q > 0) = FALSE
      BY <2>2
    <3>2. ~Row(q, p, reason).has
      BY <1>2, <3>1, Zenon
    <3> QED  BY <1>2, <3>1, <3>2 DEF AuthoritativeQuantity
  <2> QED  BY <2>1, <2>2
<1> QED  BY <1>1, <1>3 DEF Row, RowSet

(* A lane's record, by its fields. *)
Shaped(ln) == ln = [state |-> ln.state, qty |-> ln.qty, priced |-> ln.priced,
                    blocked |-> ln.blocked, booting |-> ln.booting, resume |-> ln.resume]

(* Lane and records of one bot: a lane that is trusted holds what the records say; one that
   was built flat by a restart holds nothing or what the records say. *)
Agree(ln, rs, t) ==
    /\ Shaped(ln) /\ ln.qty \in Nat
    /\ rs \in Seq(RowSet) /\ Len(rs) <= ScanLimit
    /\ t \in {"yes", "torn", "restarted"}
    /\ t = "yes" => ln.qty = Held(rs)
    /\ t = "restarted" => ln.qty = 0 \/ ln.qty = Held(rs)

AllAgree ==
    /\ lane = [b \in Bots |-> lane[b]]
    /\ rows = [b \in Bots |-> rows[b]]
    /\ trusted = [b \in Bots |-> trusted[b]]
    /\ \A b \in Bots : Agree(lane[b], rows[b], trusted[b])

VenueFine == venue = [qty |-> venue.qty, open |-> venue.open] /\ venue.qty \in Nat

(* An assessment that is still to be applied says what the lane and the records say. *)
ReconFine ==
    recon.at = "apply" =>
        /\ recon.bot \in Bots
        /\ ~recon.synced => recon.first.summary.qty
                              = Resolved(lane[recon.bot].qty, rows[recon.bot])

MatchInv == AllAgree /\ VenueFine /\ ReconFine

(* A lane whose quantity is recorded agrees with its records. *)
LEMMA RecordedAgrees ==
    ASSUME Scanned, NEW ln, Shaped(ln), ln.qty \in Nat, NEW rs \in Seq(RowSet),
           Len(rs) < MaxRows, NEW p \in BOOLEAN, NEW t \in {"yes", "torn", "restarted"},
           NEW reason \in {"order_filled", "close_positions_sync", "managed_state_refresh"}
    PROVE  /\ Agree(ln, Append(rs, Row(ln.qty, p, reason)), t)
           /\ Held(Append(rs, Row(ln.qty, p, reason))) = ln.qty
           /\ Append(rs, Row(ln.qty, p, reason)) # rs
<1> DEFINE row == Row(ln.qty, p, reason)
           r == Append(rs, row)
<1>1. /\ row \in RowSet /\ row.here /\ row.reason = reason
      /\ AuthoritativeQuantity(row) = ln.qty
  BY RowSays DEF Reasons
<1>2. Authoritative(row)
  BY <1>1 DEF Authoritative
<1> HIDE DEF row
<1>3. Held(r) = ln.qty
  BY <1>1, <1>2, HeldAfterAppend
<1>4. r \in Seq(RowSet) /\ Len(r) = Len(rs) + 1 /\ r # rs /\ Len(rs) \in Nat
  BY <1>1
<1>5. Len(r) <= ScanLimit
  BY <1>4 DEF Scanned, ConstantsOK
<1> HIDE DEF r
<1>6. Agree(ln, r, t)
  BY <1>3, <1>4, <1>5 DEF Agree
<1> QED  BY <1>3, <1>4, <1>6 DEF r, row

(* A step of one bot. *)
LEMMA OneMoves ==
    ASSUME AllAgree, NEW b \in Bots, NEW x, NEW y, NEW z, Agree(x, y, z),
           lane' = [lane EXCEPT ![b] = x], rows' = [rows EXCEPT ![b] = y],
           trusted' = [trusted EXCEPT ![b] = z]
    PROVE  AllAgree'
<1>1. /\ lane' = [c \in Bots |-> IF c = b THEN x ELSE lane[c]]
      /\ rows' = [c \in Bots |-> IF c = b THEN y ELSE rows[c]]
      /\ trusted' = [c \in Bots |-> IF c = b THEN z ELSE trusted[c]]
  BY Zenon DEF AllAgree
<1>2. \A c \in Bots : Agree(lane'[c], rows'[c], trusted'[c])
  BY <1>1, Zenon DEF AllAgree
<1> QED  BY <1>1, <1>2, Zenon DEF AllAgree

(* An idle reconciliation. *)
LEMMA IdleIsFine ==
    ASSUME recon' = Idle
    PROVE  ReconFine'
  BY DEF ReconFine, Idle

(* What a trade makes of a lane. *)
MovedLane(x, delta) ==
    [state |-> x.state, qty |-> x.qty + delta,
     priced |-> x.qty + delta > 0 /\ (x.priced \/ delta > 0),
     blocked |-> x.blocked, booting |-> x.booting, resume |-> x.resume]

(* A lane's record after one of its fields changed. *)
LaneOf(s, q, p, k, b, r) == [state |-> s, qty |-> q, priced |-> p, blocked |-> k,
                             booting |-> b, resume |-> r]

LEMMA SetField ==
    ASSUME NEW s, NEW q, NEW p, NEW k, NEW b, NEW r, NEW v
    PROVE  /\ [LaneOf(s, q, p, k, b, r) EXCEPT !.state = v] = LaneOf(v, q, p, k, b, r)
           /\ [LaneOf(s, q, p, k, b, r) EXCEPT !.qty = v] = LaneOf(s, v, p, k, b, r)
           /\ [LaneOf(s, q, p, k, b, r) EXCEPT !.priced = v] = LaneOf(s, q, v, k, b, r)
           /\ [LaneOf(s, q, p, k, b, r) EXCEPT !.blocked = v] = LaneOf(s, q, p, v, b, r)
           /\ [LaneOf(s, q, p, k, b, r) EXCEPT !.booting = v] = LaneOf(s, q, p, k, v, r)
           /\ [LaneOf(s, q, p, k, b, r) EXCEPT !.resume = v] = LaneOf(s, q, p, k, b, v)
           /\ Shaped(LaneOf(s, q, p, k, b, r)) /\ LaneOf(s, q, p, k, b, r).qty = q
           /\ LaneOf(s, q, p, k, b, r).priced = p
  BY DEF LaneOf, Shaped

LEMMA TwoFields ==
    ASSUME NEW x, Shaped(x), NEW q, NEW w
    PROVE  /\ [x EXCEPT !.qty = q].priced = x.priced
           /\ [[x EXCEPT !.qty = q] EXCEPT !.priced = w]
                = [state |-> x.state, qty |-> q, priced |-> w, blocked |-> x.blocked,
                   booting |-> x.booting, resume |-> x.resume]
<1>1. PICK s, v, p, k, b, r : x = LaneOf(s, v, p, k, b, r)
  BY Zenon DEF Shaped, LaneOf
<1>2. x.state = s /\ x.priced = p /\ x.blocked = k /\ x.booting = b /\ x.resume = r
  BY <1>1 DEF LaneOf
<1> DEFINE u == [x EXCEPT !.qty = q]
<1>3. u = LaneOf(s, q, p, k, b, r)
  BY <1>1, SetField
<1> HIDE DEF u
<1>4. [u EXCEPT !.priced = w] = LaneOf(s, q, w, k, b, r)
  BY <1>3, SetField
<1>5. u.priced = p
  BY <1>3 DEF LaneOf
<1> QED  BY <1>2, <1>4, <1>5 DEF LaneOf, u

LEMMA LaneMovesOnce ==
    ASSUME AllAgree, NEW b \in Bots, NEW x, Shaped(x), NEW delta \in Int
    PROVE  /\ LaneMoves(b, [lane EXCEPT ![b] = x], delta)
                = [lane EXCEPT ![b] = MovedLane(x, delta)]
           /\ LaneMoves(b, [lane EXCEPT ![b] = x], delta)[b] = MovedLane(x, delta)
<1> DEFINE ln == [lane EXCEPT ![b] = x]
           q == x.qty + delta
           p == x.qty + delta > 0 /\ (x.priced \/ delta > 0)
           m == MovedLane(x, delta)
<1>1. /\ ln = [c \in Bots |-> IF c = b THEN x ELSE lane[c]] /\ ln[b] = x
  BY Zenon DEF AllAgree
<1>2. LaneMoves(b, ln, delta)
        = [c \in Bots |-> IF c = b
                           THEN [[x EXCEPT !.qty = q] EXCEPT !.priced =
                                   x.qty + delta > 0 /\ (@ \/ delta > 0)]
                           ELSE lane[c]]
  <2> HIDE DEF ln
  <2> QED  BY <1>1 DEF LaneMoves
<1>3. [[x EXCEPT !.qty = q] EXCEPT !.priced = x.qty + delta > 0 /\ (@ \/ delta > 0)] = m
  <2> DEFINE w == x.qty + delta > 0 /\ ([x EXCEPT !.qty = q].priced \/ delta > 0)
  <2>1. [x EXCEPT !.qty = q].priced = x.priced
    <3> HIDE DEF q
    <3> QED  BY TwoFields, Zenon
  <2>2. w = p
    <3> HIDE DEF q
    <3> QED  BY <2>1, Zenon
  <2>3. [[x EXCEPT !.qty = q] EXCEPT !.priced = w]
          = [state |-> x.state, qty |-> q, priced |-> w, blocked |-> x.blocked,
             booting |-> x.booting, resume |-> x.resume]
    <3> HIDE DEF q, w
    <3> QED  BY TwoFields, Zenon
  <2> QED  BY <2>2, <2>3, Zenon DEF MovedLane
<1> HIDE DEF ln, m
<1>4. LaneMoves(b, ln, delta) = [c \in Bots |-> IF c = b THEN m ELSE lane[c]]
  BY <1>2, <1>3
<1>5. [lane EXCEPT ![b] = m] = [c \in Bots |-> IF c = b THEN m ELSE lane[c]]
  BY Zenon DEF AllAgree
<1> QED  BY <1>4, <1>5 DEF ln, m

LEMMA MovedIsShaped ==
    ASSUME NEW x, NEW delta \in Int, x.qty + delta \in Nat
    PROVE  /\ Shaped(MovedLane(x, delta)) /\ MovedLane(x, delta).qty = x.qty + delta
           /\ MovedLane(x, delta).priced \in BOOLEAN
<1>1. (x.qty + delta > 0 /\ (x.priced \/ delta > 0)) \in BOOLEAN
  OBVIOUS
<1>2. MovedLane(x, delta).priced \in BOOLEAN
  BY <1>1, Zenon DEF MovedLane
<1>3. Shaped(MovedLane(x, delta)) /\ MovedLane(x, delta).qty = x.qty + delta
  BY Zenon DEF Shaped, MovedLane
<1> QED  BY <1>2, <1>3

(* The venue after an execution. *)
LEMMA ExecutedIsFine ==
    ASSUME Scanned, VenueFine, NEW b, NEW delta, Executed(b, delta)
    PROVE  VenueFine'
<1> DEFINE q == venue.qty + delta
<1>1. q \in Nat /\ venue' = [venue EXCEPT !.qty = q]
  BY DEF Executed, Scanned, ConstantsOK
<1>2. PICK v, o : venue = [qty |-> v, open |-> o]
  BY DEF VenueFine
<1> HIDE DEF q
<1>3. venue' = [qty |-> q, open |-> o]
  BY <1>1, <1>2
<1> QED  BY <1>1, <1>3 DEF VenueFine

(* However a trade ends, the lane agrees with its records afterwards, or is known not to. *)
LEMMA TradeAgrees ==
    ASSUME Scanned, AllAgree, VenueFine, NEW b \in Bots, NEW delta \in Int, NEW x, NEW y,
           Agree(x, y, trusted[b]), x.qty + delta \in Nat,
           Trade(b, delta, [lane EXCEPT ![b] = x], [rows EXCEPT ![b] = y])
    PROVE  AllAgree' /\ VenueFine'
<1> DEFINE ln == [lane EXCEPT ![b] = x]
           rws == [rows EXCEPT ![b] = y]
           m == MovedLane(x, delta)
           r == Append(y, Row(m.qty, m.priced, "order_filled"))
<1>1. LaneMoves(b, ln, delta) = [lane EXCEPT ![b] = m] /\ LaneMoves(b, ln, delta)[b] = m
  BY LaneMovesOnce, Zenon DEF Agree
<1>2. Shaped(m) /\ m.qty = x.qty + delta /\ m.qty \in Nat /\ m.priced \in BOOLEAN
  BY MovedIsShaped
<1>3. /\ rws[b] = y /\ [rws EXCEPT ![b] = r] = [rows EXCEPT ![b] = r]
      /\ trusted = [trusted EXCEPT ![b] = trusted[b]]
  BY Zenon DEF AllAgree
<1>4. CASE /\ Len(rws[b]) < MaxRows /\ Executed(b, delta)
           /\ lane' = [lane EXCEPT ![b] = m] /\ rows' = [rws EXCEPT ![b] = r]
           /\ trusted' = [trusted EXCEPT ![b] = "yes"]
  <2> HIDE DEF m
  <2>1. Agree(m, r, "yes")
    BY <1>2, <1>3, <1>4, RecordedAgrees DEF Agree
  <2> HIDE DEF r, rws
  <2>2. AllAgree'
    BY <1>3, <1>4, <2>1, OneMoves, Zenon
  <2> QED  BY <1>4, <2>2, ExecutedIsFine
<1>5. CASE lane' = ln /\ rows' = rws /\ UNCHANGED trusted
  <2>1. AllAgree'
    BY <1>3, <1>5, OneMoves, Zenon
  <2>2. CASE Executed(b, delta)
    BY <2>1, <2>2, ExecutedIsFine
  <2>3. CASE venue' = [venue EXCEPT !.open = @ \cup {NextId(b)}]
    <3>1. PICK v, o : venue = [qty |-> v, open |-> o] /\ v \in Nat
      BY DEF VenueFine
    <3> DEFINE w == venue.open \cup {NextId(b)}
    <3>2. venue' = [venue EXCEPT !.open = w]
      BY <2>3
    <3> HIDE DEF w
    <3>3. venue' = [qty |-> v, open |-> w]
      BY <3>1, <3>2
    <3> QED  BY <2>1, <3>1, <3>3 DEF VenueFine
  <2> HIDE DEF ln, rws
  <2> QED  BY <2>1, <2>2, <2>3, <1>5, Zenon DEF Trade, ln, rws
<1>6. CASE /\ Executed(b, delta) /\ lane' = [lane EXCEPT ![b] = m] /\ rows' = rws
           /\ trusted' = [trusted EXCEPT ![b] = "torn"]
  <2>1. Agree(m, y, "torn")
    <3> HIDE DEF m
    <3> QED  BY <1>2 DEF Agree
  <2> HIDE DEF m
  <2>2. AllAgree'
    BY <1>6, <2>1, OneMoves, Zenon
  <2> QED  BY <1>6, <2>2, ExecutedIsFine
<1>7. \/ /\ Len(rws[b]) < MaxRows /\ Executed(b, delta)
         /\ lane' = LaneMoves(b, ln, delta)
         /\ rows' = [rws EXCEPT ![b] = Append(@, Row(LaneMoves(b, ln, delta)[b].qty,
                                       LaneMoves(b, ln, delta)[b].priced, "order_filled"))]
         /\ trusted' = [trusted EXCEPT ![b] = "yes"]
      \/ lane' = ln /\ rows' = rws /\ UNCHANGED trusted
      \/ /\ Executed(b, delta) /\ lane' = LaneMoves(b, ln, delta) /\ rows' = rws
         /\ trusted' = [trusted EXCEPT ![b] = "torn"]
  BY Zenon DEF Trade
<1> HIDE DEF ln, m
<1>8. [rws EXCEPT ![b] = Append(@, Row(m.qty, m.priced, "order_filled"))] = [rws EXCEPT ![b] = r]
  BY <1>3, Zenon
<1> QED  BY <1>1, <1>4, <1>5, <1>6, <1>7, <1>8, Zenon

(* A bot's signal, when no reconciliation is in progress. *)
LEMMA SignalKeeps ==
    ASSUME Scanned, MatchInv, NEW b \in Bots, Open(b) \/ Close(b)
    PROVE  MatchInv'
<1>1. /\ lane = [lane EXCEPT ![b] = lane[b]] /\ rows = [rows EXCEPT ![b] = rows[b]]
      /\ Agree(lane[b], rows[b], trusted[b])
  BY Zenon DEF MatchInv, AllAgree
<1>2. recon' = Idle
  BY DEF Open, Close, Running, Quiet
<1>3. PICK delta \in Int : lane[b].qty + delta \in Nat /\ Trade(b, delta, lane, rows)
  <2>1. CASE Open(b)
    <3>1. 1 \in Int /\ lane[b].qty + 1 \in Nat
      BY <1>1 DEF Agree
    <3> QED  BY <2>1, <3>1, Zenon DEF Open
  <2>2. CASE Close(b)
    <3> DEFINE d == -lane[b].qty
    <3>1. d \in Int /\ lane[b].qty + d \in Nat
      BY <1>1 DEF Agree
    <3>2. Trade(b, d, lane, rows)
      BY <2>2, Zenon DEF Close
    <3> HIDE DEF d
    <3> QED  BY <3>1, <3>2, Zenon
  <2> QED  BY <2>1, <2>2
<1>4. AllAgree' /\ VenueFine'
  <2> DEFINE x == lane[b]
             y == rows[b]
  <2>1. Trade(b, delta, [lane EXCEPT ![b] = x], [rows EXCEPT ![b] = y])
    BY <1>1, <1>3, Zenon
  <2>2. Agree(x, y, trusted[b]) /\ x.qty + delta \in Nat
    BY <1>1, <1>3
  <2> HIDE DEF x, y
  <2> QED  BY <2>1, <2>2, TradeAgrees DEF MatchInv
<1> QED  BY <1>2, <1>4, IdleIsFine DEF MatchInv

(* A fill of another symbol. *)
LEMMA OtherKeeps ==
    ASSUME Scanned, MatchInv, NEW b \in Bots, OtherSymbolFill(b)
    PROVE  MatchInv'
<1> DEFINE row == [Row(0, FALSE, "order_filled") EXCEPT !.here = FALSE]
           y == Append(rows[b], row)
<1>1. row \in RowSet /\ ~row.here
  <2> DEFINE v == Row(0, FALSE, "order_filled")
  <2>1. v \in RowSet
    BY RowSays, Zenon DEF Reasons
  <2> HIDE DEF v
  <2>2. [v EXCEPT !.here = FALSE] \in RowSet /\ ~[v EXCEPT !.here = FALSE].here
    BY <2>1, Zenon DEF RowSet
  <2> QED  BY <2>2 DEF v
<1>2. /\ rows' = [rows EXCEPT ![b] = y] /\ UNCHANGED <<lane, trusted, venue, recon>>
      /\ recon = Idle /\ Len(rows[b]) < MaxRows
  BY Zenon DEF OtherSymbolFill, Running, Quiet, HasRoom
<1>3. /\ Agree(lane[b], rows[b], trusted[b]) /\ lane = [lane EXCEPT ![b] = lane[b]]
      /\ trusted = [trusted EXCEPT ![b] = trusted[b]]
  BY Zenon DEF MatchInv, AllAgree
<1> HIDE DEF row
<1>4. Held(y) = Held(rows[b])
  BY <1>1, <1>3, HeldAfterOther DEF Agree
<1>5. y \in Seq(RowSet) /\ Len(y) <= ScanLimit
  <2>1. rows[b] \in Seq(RowSet)
    BY <1>3 DEF Agree
  <2>2. y \in Seq(RowSet) /\ Len(y) = Len(rows[b]) + 1 /\ Len(rows[b]) \in Nat
    BY <1>1, <2>1
  <2> HIDE DEF y
  <2> QED  BY <1>2, <2>2 DEF Scanned, ConstantsOK
<1> HIDE DEF y
<1>6. Agree(lane[b], y, trusted[b])
  BY <1>3, <1>4, <1>5 DEF Agree
<1>7. AllAgree'
  <2> DEFINE x == lane[b]
             z == trusted[b]
  <2>1. /\ lane' = [lane EXCEPT ![b] = x] /\ trusted' = [trusted EXCEPT ![b] = z]
        /\ Agree(x, y, z)
    BY <1>2, <1>3, <1>6
  <2> HIDE DEF x, z
  <2> QED  BY <1>2, <2>1, OneMoves, Zenon DEF MatchInv
<1> QED  BY <1>2, <1>7, IdleIsFine DEF MatchInv, VenueFine

(* The manual close first takes over what the venue shows, and records it. *)
LEMMA AdoptAgrees ==
    ASSUME Scanned, MatchInv, NEW b \in Bots, HasRoom(b)
    PROVE  \E x, y : /\ Adopt(b).lane = [lane EXCEPT ![b] = x]
                     /\ Adopt(b).rows = [rows EXCEPT ![b] = y]
                     /\ Adopt(b).lane[b] = x
                     /\ Agree(x, y, trusted[b])
                     /\ Adopt(b).rows # rows => Agree(x, y, "yes")
<1>1. /\ lane = [lane EXCEPT ![b] = lane[b]] /\ rows = [rows EXCEPT ![b] = rows[b]]
      /\ Agree(lane[b], rows[b], trusted[b])
  BY Zenon DEF MatchInv, AllAgree
<1>2. CASE ~RemoteSnapshot \/ lane[b].qty = venue.qty
  <2>1. Adopt(b).lane = lane /\ Adopt(b).rows = rows
    BY <1>2 DEF Adopt
  <2> QED  BY <1>1, <2>1, Zenon
<1>3. CASE ~(~RemoteSnapshot \/ lane[b].qty = venue.qty)
  <2> DEFINE p == lane[b].priced /\ venue.qty > 0
             x == [[lane[b] EXCEPT !.qty = venue.qty] EXCEPT !.priced = p]
             y == Append(rows[b], Row(venue.qty, p, "close_positions_sync"))
             L == [lane EXCEPT ![b].qty = venue.qty, ![b].priced = p]
             R == [rows EXCEPT ![b] = Append(@, Row(venue.qty, p, "close_positions_sync"))]
  <2>0. Adopt(b) = [lane |-> L, rows |-> R]
    BY <1>3, Zenon DEF Adopt
  <2>1. Adopt(b).lane = L /\ Adopt(b).rows = R
    <3> HIDE DEF L, R
    <3> QED  BY <2>0
  <2>2. p \in BOOLEAN
    OBVIOUS
  <2> HIDE DEF p
  <2>3. /\ Shaped(x) /\ x.qty = venue.qty /\ venue.qty \in Nat
    <3>1. x = LaneOf(lane[b].state, venue.qty, p, lane[b].blocked, lane[b].booting,
                     lane[b].resume)
      BY <1>1, TwoFields, Zenon DEF Agree, LaneOf
    <3> HIDE DEF x
    <3> QED  BY <3>1, SetField DEF MatchInv, VenueFine
  <2>4. /\ L = [lane EXCEPT ![b] = x] /\ [lane EXCEPT ![b] = x][b] = x
        /\ R = [rows EXCEPT ![b] = y]
    <3>1. b \in DOMAIN lane /\ b \in DOMAIN rows
      BY DEF MatchInv, AllAgree
    <3> QED  BY <3>1, Zenon
  <2>5. ASSUME NEW t \in {"yes", "torn", "restarted"} PROVE Agree(x, y, t)
    <3> HIDE DEF x
    <3>1. rows[b] \in Seq(RowSet) /\ Len(rows[b]) < MaxRows
      BY <1>1 DEF Agree, HasRoom
    <3> QED  BY <2>2, <2>3, <3>1, RecordedAgrees
  <2>6. Agree(x, y, trusted[b]) /\ Agree(x, y, "yes")
    BY <1>1, <2>5 DEF Agree
  <2>7. /\ Adopt(b).lane = [lane EXCEPT ![b] = x] /\ Adopt(b).rows = [rows EXCEPT ![b] = y]
        /\ Adopt(b).lane[b] = x
    <3> HIDE DEF L, R, x, y
    <3> QED  BY <2>1, <2>4
  <2> HIDE DEF x, y
  <2> QED  BY <2>6, <2>7, Zenon
<1> QED  BY <1>2, <1>3, Zenon

(* manual_close: whatever becomes of the sell signal. *)
LEMMA ManualCloseKeeps ==
    ASSUME Scanned, MatchInv, NEW b \in Bots, ManualClose(b)
    PROVE  MatchInv'
<1> DEFINE a == Adopt(b)
           Keeps == /\ lane' = a.lane /\ rows' = a.rows
                    /\ trusted' = IF a.rows # rows THEN [trusted EXCEPT ![b] = "yes"]
                                   ELSE trusted
                    /\ UNCHANGED venue
<1>1. recon' = Idle /\ HasRoom(b)
  BY Zenon DEF ManualClose, Quiet
<1>2. PICK x, y : /\ a.lane = [lane EXCEPT ![b] = x] /\ a.rows = [rows EXCEPT ![b] = y]
                  /\ a.lane[b] = x /\ Agree(x, y, trusted[b])
                  /\ a.rows # rows => Agree(x, y, "yes")
  BY <1>1, AdoptAgrees, Zenon
<1>3. trusted = [trusted EXCEPT ![b] = trusted[b]]
  BY Zenon DEF MatchInv, AllAgree
<1>4. CASE Keeps
  <2>1. CASE a.rows # rows
    <3> HIDE DEF a
    <3> QED  BY <1>1, <1>2, <1>4, <2>1, OneMoves, IdleIsFine, Zenon DEF MatchInv, VenueFine
  <2>2. CASE a.rows = rows
    <3> DEFINE z == trusted[b]
    <3>1. trusted' = [trusted EXCEPT ![b] = z] /\ Agree(x, y, z)
      BY <1>2, <1>3, <1>4, <2>2
    <3> HIDE DEF a, z
    <3> QED  BY <1>1, <1>2, <1>4, <3>1, OneMoves, IdleIsFine, Zenon DEF MatchInv, VenueFine
  <2> QED  BY <2>1, <2>2
<1>5. CASE Trade(b, -x.qty, a.lane, a.rows)
  <2> DEFINE d == -x.qty
  <2>1. d \in Int /\ x.qty + d \in Nat
    BY <1>2 DEF Agree
  <2>2. Trade(b, d, [lane EXCEPT ![b] = x], [rows EXCEPT ![b] = y])
    BY <1>2, <1>5, Zenon
  <2> HIDE DEF d, a
  <2>3. AllAgree' /\ VenueFine'
    BY <1>2, <2>1, <2>2, TradeAgrees, Zenon DEF MatchInv
  <2> QED  BY <1>1, <2>3, IdleIsFine DEF MatchInv
<1>6. Keeps \/ Trade(b, -a.lane[b].qty, a.lane, a.rows)
  BY Zenon DEF ManualClose, SellSignal
<1> HIDE DEF a, Keeps
<1> QED  BY <1>2, <1>4, <1>5, <1>6, Zenon

(* Steps that leave lanes, records and reconciliation alone. *)
LEMMA MarketKeeps ==
    ASSUME Scanned, MatchInv, UNCHANGED <<lane, rows, trusted, recon>>,
           \/ UNCHANGED venue
           \/ \E id \in venue.open : VenueFills(id)
           \/ ExternalTrade
    PROVE  MatchInv'
<1>1. AllAgree' /\ ReconFine'
  BY DEF MatchInv, AllAgree, ReconFine
<1>2. VenueFine'
  <2>1. CASE UNCHANGED venue
    BY <2>1 DEF MatchInv, VenueFine
  <2>2. CASE \E id \in venue.open : VenueFills(id)
    BY <2>2 DEF MatchInv, VenueFine, VenueFills
  <2>3. CASE ExternalTrade
    <3>1. PICK q \in 0 .. MaxShares : venue' = [venue EXCEPT !.qty = q]
      BY <2>3 DEF ExternalTrade
    <3>2. q \in Nat
      BY DEF Scanned, ConstantsOK
    <3>3. PICK v, o : venue = [qty |-> v, open |-> o]
      BY DEF MatchInv, VenueFine
    <3>4. venue' = [qty |-> q, open |-> o]
      BY <3>1, <3>3
    <3> QED  BY <3>2, <3>4 DEF VenueFine
  <2> QED  BY <2>1, <2>2, <2>3
<1> QED  BY <1>1, <1>2 DEF MatchInv

(* A lane whose quantity is left alone still agrees with its records. *)
LEMMA SameQuantity ==
    ASSUME NEW x, NEW y, NEW t, Agree(x, y, t), NEW u, Shaped(u), u.qty = x.qty
    PROVE  Agree(u, y, t)
  BY DEF Agree

LEMMA StateMoves ==
    ASSUME NEW x, Shaped(x), NEW v
    PROVE  Shaped([x EXCEPT !.state = v]) /\ [x EXCEPT !.state = v].qty = x.qty
<1>1. PICK s, q, p, k, b, r : x = LaneOf(s, q, p, k, b, r)
  BY Zenon DEF Shaped, LaneOf
<1> DEFINE u == [x EXCEPT !.state = v]
<1>2. u = LaneOf(v, q, p, k, b, r)
  BY <1>1 DEF LaneOf
<1> HIDE DEF u
<1>3. Shaped(u) /\ u.qty = x.qty
  BY <1>1, <1>2 DEF LaneOf, Shaped
<1> QED  BY <1>3 DEF u

(* start, resume and pause. *)
LEMMA ResumeOrPauseKeeps ==
    ASSUME MatchInv, NEW b \in Bots, Resume(b) \/ Pause(b)
    PROVE  MatchInv'
<1>1. PICK v : lane' = [lane EXCEPT ![b].state = v]
  BY Zenon DEF Resume, Pause
<1>2. UNCHANGED <<rows, trusted, venue>> /\ recon' = Idle
  BY DEF Resume, Pause, Running, Quiet
<1> DEFINE x == [lane[b] EXCEPT !.state = v]
           y == rows[b]
           z == trusted[b]
<1>3. /\ lane' = [lane EXCEPT ![b] = x] /\ rows' = [rows EXCEPT ![b] = y]
      /\ trusted' = [trusted EXCEPT ![b] = z] /\ Agree(lane[b], y, z)
  BY <1>1, <1>2, Zenon DEF MatchInv, AllAgree
<1>4. Agree(x, y, z)
  <2>1. Shaped(x) /\ x.qty = lane[b].qty
    BY <1>3, StateMoves, Zenon DEF Agree
  <2> HIDE DEF x, y, z
  <2> QED  BY <1>3, <2>1, SameQuantity
<1> HIDE DEF x, y, z
<1>5. AllAgree'
  BY <1>3, <1>4, OneMoves, Zenon DEF MatchInv
<1> QED  BY <1>2, <1>5, IdleIsFine DEF MatchInv, VenueFine

(* A restart forgets the lanes and keeps the records. *)
LEMMA RestartKeeps ==
    ASSUME MatchInv, Restart
    PROVE  MatchInv'
<1> DEFINE reb(b) == lane[b].state # "paused"
           F(b) == LaneOf(IF reb(b) THEN "reconciling" ELSE "paused", 0, FALSE, reb(b), reb(b),
                          lane[b].state = "running" \/ lane[b].resume)
<1>1. /\ lane' = [b \in Bots |-> F(b)] /\ trusted' = [b \in Bots |-> "restarted"]
      /\ UNCHANGED <<venue, rows>> /\ recon' = Idle
  BY Zenon DEF Restart, LaneOf
<1>2. ASSUME NEW b \in Bots PROVE Shaped(F(b)) /\ F(b).qty = 0
  <2> DEFINE s == IF reb(b) THEN "reconciling" ELSE "paused"
             k == reb(b)
             r == lane[b].state = "running" \/ lane[b].resume
  <2>1. F(b) = LaneOf(s, 0, FALSE, k, k, r)
    OBVIOUS
  <2> HIDE DEF s, k, r, F
  <2> QED  BY <2>1 DEF LaneOf, Shaped
<1> HIDE DEF F
<1>3. ASSUME NEW b \in Bots PROVE Agree(lane'[b], rows'[b], trusted'[b])
  <2>1. lane'[b] = F(b) /\ rows'[b] = rows[b] /\ trusted'[b] = "restarted"
    BY <1>1
  <2> QED  BY <1>2, <2>1 DEF MatchInv, AllAgree, Agree
<1>4. AllAgree'
  BY <1>1, <1>3 DEF MatchInv, AllAgree
<1> QED  BY <1>1, <1>4, IdleIsFine DEF MatchInv, VenueFine

(* What an assessment takes the lane to hold. *)
LEMMA AssessedQuantity ==
    ASSUME Scanned, AllAgree, NEW b \in Bots, NEW available
    PROVE  /\ Assess(b, available).summary.qty = Resolved(lane[b].qty, rows[b])
           /\ Resolved(lane[b].qty, rows[b]) \in Nat
           /\ Assess(b, available).summary.priced \in BOOLEAN
<1>1. Agree(lane[b], rows[b], trusted[b])
  BY DEF AllAgree
<1>2. AuthoritativeQuantity(LatestAuthoritative(rows[b])) = Held(rows[b])
  BY <1>1, ScanFindsHeld DEF Agree, Scanned, ConstantsOK
<1>3. Held(rows[b]) \in Nat
  BY <1>1, HeldIsNat DEF Agree
<1> DEFINE latest == LatestAuthoritative(rows[b])
           open == IF RemoteSnapshot /\ available THEN venue.open ELSE {}
           stale == LocalOpenOrders(orders, b) \ ManagedOrders(orders, open, b)
           unsafe == UnsafeOrders(orders, open)
           reachable == available \/ ~RemoteSnapshot
           q == lane[b].qty
<1>4. Assess(b, available).summary = AssessmentSummary(q, latest, stale, unsafe, reachable)
  BY Zenon DEF Assess, Assessed
<1>5. /\ AssessmentSummary(q, latest, stale, unsafe, reachable).qty
            = IF q > 0 THEN q ELSE AuthoritativeQuantity(latest)
      /\ AssessmentSummary(q, latest, stale, unsafe, reachable).priced \in BOOLEAN
  <2> HIDE DEF latest, stale, unsafe, reachable, q
  <2>1. ASSUME NEW r, NEW w \in BOOLEAN, NEW f
        PROVE  /\ [qty |-> r, priced |-> w, stale |-> stale, safe |-> f].qty = r
               /\ [qty |-> r, priced |-> w, stale |-> stale, safe |-> f].priced \in BOOLEAN
    OBVIOUS
  <2> QED  BY <2>1, Zenon DEF AssessmentSummary
<1> HIDE DEF latest, stale, unsafe, reachable
<1>6. Assess(b, available).summary.qty = Resolved(q, rows[b])
  BY <1>2, <1>4, <1>5, Zenon DEF Resolved, latest
<1>7. Resolved(q, rows[b]) \in Nat
  BY <1>1, <1>3 DEF Resolved, Agree
<1> QED  BY <1>4, <1>5, <1>6, <1>7, Zenon

(* A reconciliation begins: what it writes is what it has resolved. *)
LEMMA BeginKeeps ==
    ASSUME Scanned, MatchInv, NEW b \in Bots, NEW source, BeginReconcile(b, source)
    PROVE  MatchInv'
<1> DEFINE x == [lane[b] EXCEPT !.state = "reconciling"]
           z == trusted[b]
<1>1. PICK available \in SnapshotOutcomes, refresh \in BOOLEAN, stale \in BOOLEAN :
        LET a == Assess(b, available).summary
        IN  /\ rows' = IF refresh
                       THEN [rows EXCEPT ![b] = Append(@, Row(a.qty, a.priced,
                                                              "managed_state_refresh"))]
                       ELSE rows
            /\ recon' = [at |-> "apply", bot |-> b, source |-> source,
                         first |-> Assess(b, available), synced |-> refresh \/ stale]
  <2>1. PICK available \in SnapshotOutcomes :
          LET assessment == Assess(b, available)
              a == assessment.summary
              refresh == assessment.available /\ ShouldRefresh(b, a)
              stale == IF assessment.available THEN a.stale ELSE {}
          IN  /\ rows' = IF refresh
                         THEN [rows EXCEPT ![b] = Append(@, Row(a.qty, a.priced,
                                                                "managed_state_refresh"))]
                         ELSE rows
              /\ recon' = [at |-> "apply", bot |-> b, source |-> source,
                           first |-> assessment, synced |-> refresh \/ stale # {}]
    BY Zenon DEF BeginReconcile
  <2> DEFINE s == Assess(b, available)
             f == s.available /\ ShouldRefresh(b, s.summary)
             g == (IF s.available THEN s.summary.stale ELSE {}) # {}
  <2>2. f \in BOOLEAN /\ g \in BOOLEAN
    OBVIOUS
  <2>3. /\ rows' = IF f THEN [rows EXCEPT ![b] = Append(@, Row(s.summary.qty, s.summary.priced,
                                                              "managed_state_refresh"))]
                   ELSE rows
        /\ recon' = [at |-> "apply", bot |-> b, source |-> source, first |-> s,
                     synced |-> f \/ g]
    BY <2>1, Zenon
  <2> HIDE DEF f, g
  <2> QED  BY <2>2, <2>3, Zenon
<1>2. /\ lane' = [lane EXCEPT ![b] = x] /\ trusted' = [trusted EXCEPT ![b] = z]
      /\ Agree(lane[b], rows[b], z) /\ HasRoom(b) /\ UNCHANGED venue
  BY Zenon DEF BeginReconcile, MatchInv, AllAgree
<1>3. Shaped(x) /\ x.qty = lane[b].qty
  BY <1>2, StateMoves, Zenon DEF Agree
<1> DEFINE q == Resolved(lane[b].qty, rows[b])
           p == Assess(b, available).summary.priced
           w == Assess(b, available)
<1>4. w.summary.qty = q /\ q \in Nat /\ p \in BOOLEAN
  BY AssessedQuantity DEF MatchInv
<1>5. lane'[b] = x /\ Agree(x, rows[b], z)
  <2>1. b \in DOMAIN lane
    BY DEF MatchInv, AllAgree
  <2>2. lane'[b] = x
    <3> HIDE DEF x
    <3> QED  BY <1>2, <2>1
  <2> HIDE DEF x, z
  <2> QED  BY <1>2, <1>3, <2>2, SameQuantity
<1>6. CASE refresh
  <2> DEFINE y == Append(rows[b], Row(q, p, "managed_state_refresh"))
  <2>1. rows' = [rows EXCEPT ![b] = y]
    <3>1. rows' = [rows EXCEPT ![b] = Append(@, Row(w.summary.qty, p, "managed_state_refresh"))]
      BY <1>1, <1>6, Zenon
    <3> HIDE DEF q, p, w
    <3> QED  BY <1>4, <3>1
  <2>2. rows[b] \in Seq(RowSet) /\ Len(rows[b]) < MaxRows /\ z \in {"yes", "torn", "restarted"}
    BY <1>2 DEF Agree, HasRoom
  <2>3. Held(y) = q /\ y \in Seq(RowSet) /\ Len(y) <= ScanLimit
    <3> DEFINE u == LaneOf(0, q, 0, 0, 0, 0)
    <3>1. Shaped(u) /\ u.qty = q
      BY Zenon DEF LaneOf, Shaped
    <3> HIDE DEF u, q, p
    <3>2. /\ Agree(u, Append(rows[b], Row(u.qty, p, "managed_state_refresh")), "torn")
          /\ Held(Append(rows[b], Row(u.qty, p, "managed_state_refresh"))) = u.qty
      BY <1>4, <2>2, <3>1, RecordedAgrees
    <3> QED  BY <3>1, <3>2 DEF Agree
  <2>4. Agree(x, y, z)
    <3>1. z = "yes" => x.qty = q
      BY <1>2, <1>3 DEF Agree, Resolved
    <3>2. z = "restarted" => x.qty = 0 \/ x.qty = q
      BY <1>2, <1>3 DEF Agree, Resolved
    <3> HIDE DEF x, y, z, q
    <3> QED  BY <1>5, <2>3, <3>1, <3>2 DEF Agree
  <2>5. ReconFine'
    <3>1. recon'.bot = b /\ recon'.synced
      BY <1>1, <1>6, Zenon
    <3> QED  BY <3>1 DEF ReconFine
  <2> HIDE DEF x, y, z
  <2>6. AllAgree'
    BY <1>2, <2>1, <2>4, OneMoves, Zenon DEF MatchInv
  <2> QED  BY <1>2, <2>5, <2>6 DEF MatchInv, VenueFine
<1>7. CASE ~refresh
  <2>1. rows' = rows /\ rows' = [rows EXCEPT ![b] = rows[b]]
    BY <1>1, <1>7, Zenon DEF MatchInv, AllAgree
  <2>2. ReconFine'
    <3>1. recon'.bot = b /\ recon'.first = w
      BY <1>1, Zenon
    <3>2. lane'[b].qty = lane[b].qty /\ rows'[b] = rows[b]
      BY <1>3, <1>5, <2>1
    <3> HIDE DEF w
    <3> QED  BY <1>4, <3>1, <3>2, Zenon DEF ReconFine
  <2> DEFINE y == rows[b]
  <2>3. Agree(x, y, z) /\ rows' = [rows EXCEPT ![b] = y]
    BY <1>5, <2>1, Zenon
  <2> HIDE DEF x, y, z
  <2>4. AllAgree'
    BY <1>2, <2>3, OneMoves, Zenon DEF MatchInv
  <2> QED  BY <1>2, <2>2, <2>4 DEF MatchInv, VenueFine
<1> QED  BY <1>6, <1>7

(* A reconciliation ends: the lane holds what the records say. *)
LEMMA FinishKeeps ==
    ASSUME Scanned, MatchInv, NEW available, FinishReconcile(available)
    PROVE  MatchInv'
<1> DEFINE b == recon.bot
           a == IF recon.synced THEN Assess(b, available) ELSE recon.first
           st == IF a.summary.safe /\ lane[b].resume THEN "running" ELSE "paused"
           x == [Applied(lane[b], a.summary) EXCEPT !.state = st, !.booting = FALSE,
                                                    !.resume = FALSE]
           z == IF trusted[b] = "restarted" THEN "yes" ELSE trusted[b]
           y == rows[b]
<1>1. /\ recon.at = "apply" /\ recon' = Idle /\ UNCHANGED <<venue, rows>>
      /\ lane' = [lane EXCEPT ![b] = [Applied(@, a.summary) EXCEPT !.state = st,
                                        !.booting = FALSE, !.resume = FALSE]]
      /\ trusted' = [trusted EXCEPT ![b] = IF @ = "restarted" THEN "yes" ELSE @]
  BY Zenon DEF FinishReconcile
<1>2. b \in Bots
  BY <1>1 DEF MatchInv, ReconFine
<1>3. /\ b \in DOMAIN lane /\ b \in DOMAIN trusted /\ rows = [rows EXCEPT ![b] = y]
      /\ Agree(lane[b], y, trusted[b])
  <2> HIDE DEF b
  <2> QED  BY <1>2, Zenon DEF MatchInv, AllAgree
<1>4. a.summary.qty = Resolved(lane[b].qty, y) /\ Resolved(lane[b].qty, y) \in Nat
  <2>1. /\ Assess(b, available).summary.qty = Resolved(lane[b].qty, y)
        /\ Resolved(lane[b].qty, y) \in Nat
    BY <1>2, AssessedQuantity DEF MatchInv
  <2>2. ~recon.synced => recon.first.summary.qty = Resolved(lane[b].qty, y)
    BY <1>1 DEF MatchInv, ReconFine
  <2> QED  BY <2>1, <2>2, Zenon
<1>5. Shaped(x) /\ x.qty = a.summary.qty
  <2> HIDE DEF a, st, b
  <2>1. PICK s, q, p, k, g, r : lane[b] = LaneOf(s, q, p, k, g, r)
    BY <1>3, Zenon DEF Agree, Shaped, LaneOf
  <2> DEFINE sm == a.summary
             sq == sm.qty
             sp == sm.priced
             sb == ~sm.safe
             u == Applied(lane[b], sm)
  <2>2. u = LaneOf(s, sq, sp, sb, g, r)
    <3> DEFINE l == lane[b]
    <3>1. l = LaneOf(s, q, p, k, g, r) /\ u = [l EXCEPT !.qty = sq, !.priced = sp, !.blocked = sb]
      BY <2>1 DEF Applied
    <3> HIDE DEF l, u, sq, sp, sb
    <3> QED  BY <3>1, Zenon DEF LaneOf
  <2>3. x = [u EXCEPT !.state = st, !.booting = FALSE, !.resume = FALSE]
    OBVIOUS
  <2>4. x.qty = sq /\ x = LaneOf(st, sq, sp, sb, FALSE, FALSE)
    <3> HIDE DEF u, x, sq, sp, sb
    <3> QED  BY <2>2, <2>3, Zenon DEF LaneOf
  <2>5. Shaped(x)
    <3> HIDE DEF u, x, sq, sp, sb
    <3> QED  BY <2>4 DEF LaneOf, Shaped
  <2> QED  BY <2>4, <2>5, Zenon
<1>6. /\ lane' = [lane EXCEPT ![b] = x] /\ trusted' = [trusted EXCEPT ![b] = z]
      /\ rows' = [rows EXCEPT ![b] = y]
  <2> HIDE DEF a, b, st
  <2> QED  BY <1>1, <1>3, Zenon
<1>7. Agree(x, y, z)
  <2> HIDE DEF x, y, a
  <2>1. z \in {"yes", "torn", "restarted"} /\ z # "restarted"
    BY <1>3, Zenon DEF Agree
  <2>2. z = "yes" => Resolved(lane[b].qty, y) = Held(y)
    BY <1>3 DEF Agree, Resolved
  <2> HIDE DEF z, b
  <2> QED  BY <1>3, <1>4, <1>5, <2>1, <2>2, Zenon DEF Agree
<1> HIDE DEF x, y, z, b, a
<1>8. AllAgree'
  BY <1>2, <1>6, <1>7, OneMoves, Zenon DEF MatchInv
<1> QED  BY <1>1, <1>8, IdleIsFine DEF MatchInv, VenueFine

(* A reconciliation that fails leaves what the lane holds. *)
LEMMA FailKeeps ==
    ASSUME MatchInv, FailReconcile
    PROVE  MatchInv'
<1> DEFINE b == recon.bot
           x == [lane[b] EXCEPT !.state = "paused", !.blocked = TRUE, !.booting = FALSE,
                                !.resume = FALSE]
           y == rows[b]
           z == trusted[b]
<1>1. /\ recon.at = "apply" /\ recon' = Idle /\ UNCHANGED <<venue, rows, trusted>>
      /\ lane' = IF recon.source = "startup"
                  THEN [lane EXCEPT ![b].state = "paused", ![b].blocked = TRUE,
                                    ![b].booting = FALSE, ![b].resume = FALSE]
                  ELSE lane
  BY DEF FailReconcile
<1>2. b \in Bots
  BY <1>1 DEF MatchInv, ReconFine
<1>3. /\ b \in DOMAIN lane /\ rows = [rows EXCEPT ![b] = y]
      /\ trusted = [trusted EXCEPT ![b] = z] /\ Agree(lane[b], y, z)
  <2> HIDE DEF b
  <2> QED  BY <1>2, Zenon DEF MatchInv, AllAgree
<1>4. CASE lane' = lane
  BY <1>1, <1>4, IdleIsFine, Zenon DEF MatchInv, AllAgree, VenueFine
<1>5. CASE lane' = [lane EXCEPT ![b].state = "paused", ![b].blocked = TRUE,
                                ![b].booting = FALSE, ![b].resume = FALSE]
  <2>1. lane' = [lane EXCEPT ![b] = x]
    <3> HIDE DEF b
    <3> QED  BY <1>3, <1>5, Zenon
  <2>2. Shaped(x) /\ x.qty = lane[b].qty
    <3>1. PICK s, q, p, k, g, r : lane[b] = LaneOf(s, q, p, k, g, r)
      BY <1>3, Zenon DEF Agree, Shaped, LaneOf
    <3> DEFINE l == lane[b]
    <3>2. x = [l EXCEPT !.state = "paused", !.blocked = TRUE, !.booting = FALSE, !.resume = FALSE]
      OBVIOUS
    <3>3. l = LaneOf(s, q, p, k, g, r)
      BY <3>1
    <3> HIDE DEF l, x
    <3>4. x = LaneOf("paused", q, p, TRUE, FALSE, FALSE) /\ l.qty = q
      BY <3>2, <3>3, Zenon DEF LaneOf
    <3>5. Shaped(x) /\ x.qty = l.qty
      BY <3>4 DEF LaneOf, Shaped
    <3> QED  BY <3>5 DEF l
  <2> HIDE DEF x, y, z, b
  <2>3. Agree(x, y, z)
    BY <1>3, <2>2, SameQuantity
  <2>4. AllAgree'
    BY <1>1, <1>2, <1>3, <2>1, <2>3, OneMoves, Zenon DEF MatchInv
  <2> QED  BY <1>1, <2>4, IdleIsFine DEF MatchInv, VenueFine
<1> QED  BY <1>1, <1>4, <1>5

(* At the start the lanes are flat, and the rows an older version left do not count. *)
LEMMA StartsAgreed ==
    ASSUME Scanned, Init
    PROVE  MatchInv
<1>1. ASSUME NEW b \in Bots PROVE Agree(lane[b], rows[b], trusted[b])
  <2>1. lane[b] = LaneOf("paused", 0, FALSE, FALSE, FALSE, FALSE) /\ trusted[b] = "yes"
    BY DEF Init, LaneOf
  <2>2. rows[b] = <<>> \/ \E row \in LegacyRows : rows[b] = <<row>>
    BY DEF Init
  <2>3. rows[b] \in Seq(RowSet) /\ Len(rows[b]) <= 1 /\ Counted(rows[b]) = {}
    <3>1. CASE rows[b] = <<>>
      BY <3>1 DEF Counted
    <3>2. CASE \E row \in LegacyRows : rows[b] = <<row>>
      <4>1. PICK row \in LegacyRows : rows[b] = <<row>>
        BY <3>2
      <4>2. row \in RowSet /\ ~Authoritative(row)
        BY DEF Scanned, ConstantsOK, Rows, RowSet
      <4> QED  BY <4>1, <4>2 DEF Counted
    <3> QED  BY <2>2, <3>1, <3>2
  <2>4. Held(rows[b]) = 0
    <3>1. AuthoritativeIn(rows[b], 0) = NoRow
      BY <2>3 DEF AuthoritativeIn, Counted
    <3> QED  BY <3>1 DEF Held, NoRow, AuthoritativeQuantity
  <2>5. Shaped(lane[b]) /\ lane[b].qty = 0
    BY <2>1 DEF LaneOf, Shaped
  <2>6. Len(rows[b]) <= ScanLimit
    BY <2>3 DEF Scanned, ConstantsOK
  <2>7. lane[b].qty \in Nat /\ lane[b].qty = Held(rows[b]) /\ trusted[b] = "yes"
    <3>1. 0 \in Nat
      OBVIOUS
    <3> QED  BY <2>1, <2>4, <2>5, <3>1, Zenon
  <2> QED  BY <2>3, <2>5, <2>6, <2>7, Zenon DEF Agree
<1>2. /\ lane = [b \in Bots |-> lane[b]] /\ rows = [b \in Bots |-> rows[b]]
      /\ trusted = [b \in Bots |-> trusted[b]]
  BY DEF Init
<1>3. VenueFine /\ ReconFine
  BY DEF Init, VenueFine, ReconFine, Idle
<1> QED  BY <1>1, <1>2, <1>3 DEF MatchInv, AllAgree

(* RunningLaneMatchesJournal for every number of bots, bounds and faults: whatever trades,
   closes, restarts and reconciliations did, a running lane whose records were all written
   holds what its newest record says. *)
THEOREM JournalMatched == Scanned => (Spec => []RunningLaneMatchesJournal)
<1> SUFFICES ASSUME Scanned PROVE Spec => []RunningLaneMatchesJournal
  OBVIOUS
<1>1. Init => MatchInv
  BY StartsAgreed
<1>2. MatchInv /\ [Next]_vars => MatchInv'
  <2> SUFFICES ASSUME MatchInv, [Next]_vars PROVE MatchInv'
    OBVIOUS
  <2>1. CASE \E b \in Bots : Open(b) \/ Close(b)
    BY <2>1, SignalKeeps
  <2>2. CASE \E b \in Bots : OtherSymbolFill(b)
    BY <2>2, OtherKeeps
  <2>3. CASE \E b \in Bots : ManualClose(b)
    BY <2>3, ManualCloseKeeps
  <2>4. CASE \E b \in Bots : CancelOpenOrders(b)
    BY <2>4, MarketKeeps, Zenon DEF CancelOpenOrders
  <2>5. CASE \E b \in Bots : BeginReconcile(b, "manual") \/ BeginReconcile(b, "startup")
    BY <2>5, BeginKeeps
  <2>6. CASE \E b \in Bots : Resume(b) \/ Pause(b)
    BY <2>6, ResumeOrPauseKeeps
  <2>7. CASE \E available \in SnapshotOutcomes : FinishReconcile(available)
    BY <2>7, FinishKeeps
  <2>8. CASE FailReconcile
    BY <2>8, FailKeeps
  <2>9. CASE Restart
    BY <2>9, RestartKeeps
  <2>10. CASE \E id \in venue.open : VenueFills(id)
    <3>1. UNCHANGED <<lane, rows, trusted, recon>>
      BY <2>10, Zenon DEF VenueFills
    <3> QED  BY <2>10, <3>1, MarketKeeps
  <2>11. CASE ExternalTrade
    <3>1. UNCHANGED <<lane, rows, trusted, recon>>
      BY <2>11 DEF ExternalTrade
    <3> QED  BY <2>11, <3>1, MarketKeeps
  <2>12. CASE NextBar \/ UNCHANGED vars
    <3>1. UNCHANGED <<lane, rows, trusted, recon, venue>>
      BY <2>12 DEF NextBar, vars
    <3> QED  BY <3>1, MarketKeeps
  <2> QED  BY <2>1, <2>2, <2>3, <2>4, <2>5, <2>6, <2>7, <2>8, <2>9, <2>10, <2>11, <2>12,
              Zenon DEF Next
<1>3. MatchInv => RunningLaneMatchesJournal
  BY DEF MatchInv, AllAgree, Agree, Held, RunningLaneMatchesJournal
<1> QED  BY <1>1, <1>2, <1>3, PTL DEF Spec
=============================================================================
