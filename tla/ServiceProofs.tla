---------------------------- MODULE ServiceProofs ----------------------------
(***************************************************************************)
(* Two parts of the service that several tasks or threads share: the file  *)
(* of the journal (JournalFile) and the configuration (ConfigReload).      *)
(* Their safety properties hold for any threads, clocks, bots, trees,      *)
(* requests and bounds.                                                    *)
(***************************************************************************)
EXTENDS JournalFile, TLAPS

CONSTANTS BotOrder, Trees, InitialTree, Operations, HistoryLimit, MaxEdits, MaxWork,
          MaxRequests

VARIABLES disk, pending, bundle, runtime, query, streams, journal, generation, history,
          work, dashboard, engaged, abandoned, edits, works, requests

Conf == INSTANCE ConfigReload WITH client <- dashboard
-----------------------------------------------------------------------------
(***************************************************************************)
(* The journal's file.  The shape of the state: rows that a synced commit  *)
(* wrote, and threads at a point of an append or of a read.                *)
(***************************************************************************)
Row == [v : Nat, by : Threads, run : Nat, at : Nat]
Rows(f) == {f.rows[i] : i \in DOMAIN f.rows}
Appends(x) ==
    x = [pc |-> x.pc, row |-> x.row] /\ x.row \in Row /\ x.pc \in {"append", "execute", "return"}
Tries(x) ==
    /\ x = [pc |-> x.pc, start |-> x.start, offset |-> x.offset, acked |-> x.acked]
    /\ x.pc \in {"try", "fallback"}
Queries(x) == x = [pc |-> "query", slot |-> x.slot, acked |-> x.acked]
Answers(x) == x = [pc |-> "answer", slot |-> x.slot, acked |-> x.acked, seen |-> x.seen]
ThreadOK(x) == x = Idle \/ Appends(x) \/ Tries(x) \/ Queries(x) \/ Answers(x)

FileRecord(f) ==
    f = [version |-> f.version, statements |-> f.statements, rows |-> f.rows,
         synced |-> f.synced]

ShapeInv ==
    /\ FileRecord(file)
    /\ file.rows \in Seq(Row) /\ file.synced = Len(file.rows)
    /\ floor \in Nat /\ calls \in Nat /\ crashes \in Nat
    /\ thread = [t \in Threads |-> thread[t]]
    /\ \A t \in Threads : ThreadOK(thread[t])

Pending(t) == thread[t].pc \in {"append", "execute", "return"}

(***************************************************************************)
(* Strengthens AcknowledgedSurvives and ReadsSeeAcknowledged: a row is in  *)
(* the file before its append returns, and a reader carries along what was *)
(* acknowledged when it began.                                             *)
(***************************************************************************)
AckInv ==
    /\ acked \subseteq Rows(file)
    /\ \A t \in Threads :
          /\ thread[t].pc = "return" => thread[t].row \in Rows(file)
          /\ thread[t].pc \in {"try", "fallback", "query"} => thread[t].acked \subseteq acked
          /\ thread[t].pc = "answer" => thread[t].acked \subseteq thread[t].seen

SchemaInv ==
    /\ file.version \in {0, Version} /\ file.statements \in 0 .. Statements
    /\ process = "up" => file.statements = Statements /\ file.version = Version

(***************************************************************************)
(* Strengthens StampsNeverRegress: no row of this run of the process, and  *)
(* no row that waits, is stamped after the floor, and a row that waits is  *)
(* not stamped before the rows its thread wrote in this run.               *)
(***************************************************************************)
StampInv ==
    /\ \A i \in DOMAIN file.rows :
          /\ file.rows[i].run <= crashes
          /\ file.rows[i].run = crashes => file.rows[i].at <= floor
    /\ \A t \in Threads : Pending(t) =>
          /\ thread[t].row.by = t /\ thread[t].row.run = crashes /\ thread[t].row.at <= floor
          /\ \A i \in DOMAIN file.rows :
                file.rows[i].by = t /\ file.rows[i].run = crashes =>
                    file.rows[i].at <= thread[t].row.at
    /\ StampsNeverRegress

FileInv == ShapeInv /\ AckInv /\ SchemaInv /\ StampInv

\* An append goes on to its next step.
LEMMA AppendsMoves ==
    ASSUME NEW x, Appends(x), NEW p \in {"append", "execute", "return"}
    PROVE  [x EXCEPT !.pc = p] = [pc |-> p, row |-> x.row] /\ Appends([pc |-> p, row |-> x.row])
  BY DEF Appends

LEMMA SetThread ==
    ASSUME thread = [t \in Threads |-> thread[t]], NEW t \in Threads, NEW x,
           thread' = [thread EXCEPT ![t] = x]
    PROVE  /\ thread' = [u \in Threads |-> thread'[u]]
           /\ thread'[t] = x
           /\ \A u \in Threads \ {t} : thread'[u] = thread[u]
  OBVIOUS

LEMMA TriesMoves ==
    ASSUME thread = [t \in Threads |-> thread[t]], NEW t \in Threads, Tries(thread[t]), NEW p, NEW o
    PROVE  [thread EXCEPT ![t].offset = o, ![t].pc = p] =
           [thread EXCEPT ![t] = [pc |-> p, start |-> thread[t].start, offset |-> o, acked |-> thread[t].acked]]
<1> DEFINE x == [thread[t] EXCEPT !.offset = o]
           th1 == [thread EXCEPT ![t] = x]
<1>1. [thread EXCEPT ![t].offset = o, ![t].pc = p] = [th1 EXCEPT ![t] = [@ EXCEPT !.pc = p]]
  OBVIOUS
<1>2. x = [pc |-> thread[t].pc, start |-> thread[t].start, offset |-> o, acked |-> thread[t].acked]
  BY DEF Tries
<1> HIDE DEF x
<1>3. th1[t] = x
  OBVIOUS
<1>4. [x EXCEPT !.pc = p] = [pc |-> p, start |-> thread[t].start, offset |-> o, acked |-> thread[t].acked]
  BY <1>2
<1>5. [th1 EXCEPT ![t] = [@ EXCEPT !.pc = p]] = [thread EXCEPT ![t] = [x EXCEPT !.pc = p]]
  BY <1>3, ZenonT(30)
<1> QED BY <1>1, <1>4, <1>5, ZenonT(30)

Stamped(x, t) ==
    /\ x.row.by = t /\ x.row.run = crashes /\ x.row.at <= floor
    /\ \A i \in DOMAIN file.rows :
          file.rows[i].by = t /\ file.rows[i].run = crashes => file.rows[i].at <= x.row.at

Waiting == {"append", "execute", "return"}

LEMMA ThreadChanges ==
    ASSUME FileInv, NEW t \in Threads, NEW x, ThreadOK(x),
           thread' = [thread EXCEPT ![t] = x],
           UNCHANGED <<file, process, floor, crashes>>, calls' \in Nat,
           acked \subseteq acked', acked' \subseteq Rows(file),
           x.pc = "return" => x.row \in Rows(file),
           x.pc \in {"try", "fallback", "query"} => x.acked \subseteq acked',
           x.pc = "answer" => x.acked \subseteq x.seen,
           x.pc \in Waiting => Stamped(x, t)
    PROVE  FileInv'
<1>1. /\ thread' = [u \in Threads |-> thread'[u]]
      /\ thread'[t] = x
      /\ \A u \in Threads \ {t} : thread'[u] = thread[u]
  BY SetThread DEF FileInv, ShapeInv
<1>2. ShapeInv'
  <2>1. \A u \in Threads : ThreadOK(thread'[u])
    BY <1>1, Zenon DEF FileInv, ShapeInv
  <2>2. FileRecord(file)' /\ (file.rows \in Seq(Row))' /\ file'.synced = Len(file'.rows)
        /\ floor' \in Nat /\ calls' \in Nat /\ crashes' \in Nat
    BY DEF FileInv, ShapeInv, FileRecord
  <2> QED  BY <1>1, <2>1, <2>2, Zenon DEF ShapeInv, ThreadOK, Appends, Tries, Queries, Answers, Idle
<1>3. AckInv'
  <2>1. acked' \subseteq Rows(file')
    OBVIOUS
  <2>2. ASSUME NEW u \in Threads
        PROVE  /\ thread'[u].pc = "return" => thread'[u].row \in Rows(file')
               /\ thread'[u].pc \in {"try", "fallback", "query"} => thread'[u].acked \subseteq acked'
               /\ thread'[u].pc = "answer" => thread'[u].acked \subseteq thread'[u].seen
    <3>1. CASE u = t
      BY <1>1, <3>1
    <3>2. CASE u # t
      BY <1>1, <3>2 DEF FileInv, AckInv
    <3> QED  BY <3>1, <3>2
  <2> QED  BY <2>1, <2>2 DEF AckInv
<1>4. SchemaInv'
  BY DEF FileInv, SchemaInv
<1>5. StampInv'
  <2>1. ASSUME NEW u \in Threads, thread'[u].pc \in Waiting
        PROVE  /\ thread'[u].row.by = u /\ thread'[u].row.run = crashes /\ thread'[u].row.at <= floor
               /\ \A i \in DOMAIN file.rows :
                     file.rows[i].by = u /\ file.rows[i].run = crashes =>
                         file.rows[i].at <= thread'[u].row.at
    <3>1. CASE u = t
      BY <1>1, <2>1, <3>1, Zenon DEF Stamped
    <3>2. CASE u # t
      BY <1>1, <2>1, <3>2, Zenon DEF FileInv, StampInv, Pending, Waiting
    <3> QED  BY <3>1, <3>2
  <2>2. \A i \in DOMAIN file.rows :
          /\ file.rows[i].run <= crashes
          /\ file.rows[i].run = crashes => file.rows[i].at <= floor
    BY DEF FileInv, StampInv
  <2>3. StampsNeverRegress'
    BY DEF FileInv, StampInv, StampsNeverRegress
  <2> QED  BY <2>1, <2>2, <2>3, Zenon DEF StampInv, Pending, Waiting
<1> QED  BY <1>2, <1>3, <1>4, <1>5 DEF FileInv

\* What a thread's program counter says about its record.
LEMMA ByCounter ==
    ASSUME NEW x, ThreadOK(x)
    PROVE  /\ x.pc \in Waiting => Appends(x)
           /\ x.pc \in {"try", "fallback"} => Tries(x)
           /\ x.pc = "query" => Queries(x)
           /\ x.pc = "answer" => Answers(x)
<1>1. x = Idle => x.pc = "idle"
  BY DEF Idle
<1>2. Queries(x) => x.pc = "query"
  BY DEF Queries
<1>3. Answers(x) => x.pc = "answer"
  BY DEF Answers
<1>4. Tries(x) => x.pc \in {"try", "fallback"}
  BY DEF Tries
<1>5. Appends(x) => x.pc \in Waiting
  BY DEF Appends, Waiting
<1> QED  BY <1>1, <1>2, <1>3, <1>4, <1>5 DEF ThreadOK, Waiting

LEMMA IdleOK == ThreadOK(Idle) /\ Idle.pc = "idle"
  BY DEF ThreadOK, Idle

LEMMA LockWriterPreserves ==
    ASSUME FileInv, NEW t \in Threads, LockWriter(t) PROVE FileInv'
<1> DEFINE x == [pc |-> "execute", row |-> thread[t].row]
<1>1. thread[t].pc = "append" /\ Appends(thread[t])
  BY ByCounter DEF FileInv, ShapeInv, LockWriter, Waiting
<1>2. [thread[t] EXCEPT !.pc = "execute"] = x /\ Appends(x)
  BY <1>1, AppendsMoves, ZenonT(30)
<1>3. thread' = [thread EXCEPT ![t] = [thread[t] EXCEPT !.pc = "execute"]]
  BY DEF LockWriter
<1>4. x.pc = "execute" /\ x.row = thread[t].row
  OBVIOUS
<1>5. UNCHANGED <<file, process, floor, crashes, calls, acked>>
  BY DEF LockWriter, bounds
<1> HIDE DEF x
<1>6. thread' = [thread EXCEPT ![t] = x] /\ ThreadOK(x)
  BY <1>2, <1>3, ZenonT(30) DEF ThreadOK
<1>7. Stamped(x, t)
  BY <1>1, <1>4 DEF FileInv, StampInv, Stamped, Pending
<1>8. acked \subseteq Rows(file) /\ calls \in Nat
  BY DEF FileInv, AckInv, ShapeInv
<1> QED  BY <1>4, <1>5, <1>6, <1>7, <1>8, ThreadChanges, ZenonT(30)

LEMMA ReturnAppendPreserves ==
    ASSUME FileInv, NEW t \in Threads, ReturnAppend(t) PROVE FileInv'
<1>1. /\ thread' = [thread EXCEPT ![t] = Idle]
      /\ acked' = acked \cup {thread[t].row} /\ thread[t].pc = "return"
      /\ UNCHANGED <<file, process, floor, crashes, calls>>
  BY DEF ReturnAppend, bounds
<1>2. acked \subseteq acked' /\ acked' \subseteq Rows(file) /\ calls \in Nat
  BY <1>1 DEF FileInv, AckInv, ShapeInv
<1> QED  BY <1>1, <1>2, IdleOK, ThreadChanges, ZenonT(30) DEF Waiting

LEMMA StartReadPreserves ==
    ASSUME FileInv, NEW t \in Threads, StartRead(t) PROVE FileInv'
<1> DEFINE x == [pc |-> "try", start |-> cursor, offset |-> 0, acked |-> acked]
<1>1. thread' = [thread EXCEPT ![t] = x] /\ UNCHANGED <<file, process, floor, crashes, acked>>
      /\ calls' = calls + 1
  BY DEF StartRead
<1>2. ThreadOK(x) /\ x.pc = "try" /\ x.acked = acked
  BY DEF ThreadOK, Tries
<1>3. acked \subseteq Rows(file) /\ calls + 1 \in Nat
  BY DEF FileInv, AckInv, ShapeInv
<1> HIDE DEF x
<1> QED  BY <1>1, <1>2, <1>3, ThreadChanges, ZenonT(30) DEF Waiting

LEMMA TryLockPreserves ==
    ASSUME FileInv, NEW t \in Threads, TryLock(t) PROVE FileInv'
<1>1. thread[t].pc = "try" /\ Tries(thread[t]) /\ thread[t].acked \subseteq acked
  BY ByCounter DEF FileInv, ShapeInv, AckInv, TryLock
<1>2. UNCHANGED <<file, process, floor, crashes, calls, acked>>
  BY DEF TryLock, bounds
<1>3. acked \subseteq Rows(file) /\ calls \in Nat
  BY DEF FileInv, AckInv, ShapeInv
<1>4. CASE thread' = [thread EXCEPT ![t] = Query(t, SlotTried(t))]
  <2> DEFINE x == [pc |-> "query", slot |-> SlotTried(t), acked |-> thread[t].acked]
  <2>1. thread' = [thread EXCEPT ![t] = x]
    BY <1>4 DEF Query
  <2>2. ThreadOK(x) /\ x.pc = "query" /\ x.acked = thread[t].acked
    BY DEF ThreadOK, Queries
  <2> HIDE DEF x
  <2> QED  BY <1>1, <1>2, <1>3, <2>1, <2>2, ThreadChanges, ZenonT(30) DEF Waiting
<1>5. ASSUME NEW p \in {"try", "fallback"}, NEW o,
             thread' = [thread EXCEPT ![t].offset = o, ![t].pc = p]
      PROVE  FileInv'
  <2> DEFINE x == [pc |-> p, start |-> thread[t].start, offset |-> o, acked |-> thread[t].acked]
  <2>1. thread' = [thread EXCEPT ![t] = x]
    BY <1>1, <1>5, TriesMoves, ZenonT(30) DEF FileInv, ShapeInv
  <2>2. ThreadOK(x) /\ x.pc = p /\ x.acked = thread[t].acked
    BY DEF ThreadOK, Tries
  <2> HIDE DEF x
  <2> QED  BY <1>1, <1>2, <1>3, <2>1, <2>2, ThreadChanges, ZenonT(30) DEF Waiting
<1> QED  BY <1>4, <1>5 DEF TryLock

LEMMA LockFallbackPreserves ==
    ASSUME FileInv, NEW t \in Threads, LockFallback(t) PROVE FileInv'
<1> DEFINE x == [pc |-> "query", slot |-> thread[t].start, acked |-> thread[t].acked]
<1>1. thread' = [thread EXCEPT ![t] = x] /\ UNCHANGED <<file, process, floor, crashes, calls, acked>>
  BY DEF LockFallback, Query, bounds
<1>2. ThreadOK(x) /\ x.pc = "query" /\ x.acked = thread[t].acked
  BY DEF ThreadOK, Queries
<1>3. acked \subseteq Rows(file) /\ calls \in Nat /\ thread[t].acked \subseteq acked
  BY DEF FileInv, AckInv, ShapeInv, LockFallback
<1> HIDE DEF x
<1> QED  BY <1>1, <1>2, <1>3, ThreadChanges, ZenonT(30) DEF Waiting

LEMMA RunQueryPreserves ==
    ASSUME FileInv, NEW t \in Threads, RunQuery(t) PROVE FileInv'
<1> DEFINE x == [pc |-> "answer", slot |-> thread[t].slot, acked |-> thread[t].acked,
                 seen |-> Rows(file)]
<1>1. thread' = [thread EXCEPT ![t] = x] /\ UNCHANGED <<file, process, floor, crashes, calls, acked>>
  BY DEF RunQuery, bounds, Rows
<1>2. ThreadOK(x) /\ x.pc = "answer" /\ x.acked = thread[t].acked /\ x.seen = Rows(file)
  BY DEF ThreadOK, Answers
<1>3. acked \subseteq Rows(file) /\ calls \in Nat /\ thread[t].acked \subseteq acked
  BY DEF FileInv, AckInv, ShapeInv, RunQuery
<1> HIDE DEF x
<1> QED  BY <1>1, <1>2, <1>3, ThreadChanges, ZenonT(30) DEF Waiting

LEMMA EndPreserves ==
    ASSUME FileInv, NEW t \in Threads, ReturnRead(t) \/ Fail(t) \/ Panic(t)
    PROVE  FileInv'
<1>1. thread' = [thread EXCEPT ![t] = Idle]
      /\ UNCHANGED <<file, process, floor, crashes, calls, acked>>
  BY DEF ReturnRead, Fail, Panic, bounds
<1>2. acked \subseteq Rows(file) /\ calls \in Nat
  BY DEF FileInv, AckInv, ShapeInv
<1> QED  BY <1>1, <1>2, IdleOK, ThreadChanges, ZenonT(30) DEF Waiting

LEMMA TimestampGrows ==
    ASSUME ConstantsOK, floor \in Nat, NEW raw \in Clock
    PROVE  MonotonicTimestamp(floor, raw) \in Nat
           /\ MonotonicTimestamp(floor, raw) >= floor
  BY DEF ConstantsOK, MonotonicTimestamp, Larger

LEMMA StartAppendPreserves ==
    ASSUME ConstantsOK, FileInv, NEW t \in Threads, NEW raw \in Clock,
           StartAppend(t, raw)
    PROVE  FileInv'
<1> DEFINE at == MonotonicTimestamp(floor, raw)
           row == [v |-> calls, by |-> t, run |-> crashes, at |-> at]
           x == [pc |-> "append", row |-> row]
<1>1. at \in Nat /\ at >= floor
  BY TimestampGrows DEF FileInv, ShapeInv
<1>2. /\ thread' = [thread EXCEPT ![t] = x] /\ floor' = at /\ calls' = calls + 1
      /\ UNCHANGED <<file, process, acked, crashes>>
  BY DEF StartAppend
<1> HIDE DEF at
<1>3. row \in Row /\ row.by = t /\ row.run = crashes /\ row.at = at
  BY <1>1 DEF Row, FileInv, ShapeInv
<1> HIDE DEF row
<1>4. ThreadOK(x) /\ x.pc = "append" /\ x.row = row
  BY <1>3 DEF ThreadOK, Appends
<1> HIDE DEF x
<1>5. /\ thread' = [u \in Threads |-> thread'[u]]
      /\ thread'[t] = x
      /\ \A u \in Threads \ {t} : thread'[u] = thread[u]
  BY <1>2, SetThread DEF FileInv, ShapeInv
<1>6. ShapeInv'
  <2>1. \A u \in Threads : ThreadOK(thread'[u])
    BY <1>4, <1>5, Zenon DEF FileInv, ShapeInv
  <2>2. FileRecord(file)' /\ (file.rows \in Seq(Row))' /\ file'.synced = Len(file'.rows)
        /\ floor' \in Nat /\ calls' \in Nat /\ crashes' \in Nat
    BY <1>1, <1>2 DEF FileInv, ShapeInv, FileRecord
  <2> QED  BY <1>5, <2>1, <2>2, Zenon DEF ShapeInv, ThreadOK, Appends, Tries, Queries, Answers, Idle
<1>7. AckInv'
  <2>1. ASSUME NEW u \in Threads
        PROVE  /\ thread'[u].pc = "return" => thread'[u].row \in Rows(file')
               /\ thread'[u].pc \in {"try", "fallback", "query"} => thread'[u].acked \subseteq acked'
               /\ thread'[u].pc = "answer" => thread'[u].acked \subseteq thread'[u].seen
    <3>1. CASE u = t
      BY <1>4, <1>5, <3>1
    <3>2. CASE u # t
      BY <1>2, <1>5, <3>2 DEF FileInv, AckInv
    <3> QED  BY <3>1, <3>2
  <2> QED  BY <1>2, <2>1 DEF FileInv, AckInv
<1>8. SchemaInv'
  BY <1>2 DEF FileInv, SchemaInv
<1>9. StampInv'
  <2>1. \A i \in DOMAIN file.rows :
          /\ file.rows[i] \in Row
          /\ file.rows[i].run <= crashes
          /\ file.rows[i].run = crashes => file.rows[i].at <= floor
    BY DEF FileInv, ShapeInv, StampInv
  <2>2. \A i \in DOMAIN file.rows : file.rows[i].run = crashes => file.rows[i].at <= at
    BY <1>1, <2>1 DEF Row, FileInv, ShapeInv
  <2>3. ASSUME NEW u \in Threads, thread'[u].pc \in Waiting
        PROVE  /\ thread'[u].row.by = u /\ thread'[u].row.run = crashes /\ thread'[u].row.at <= at
               /\ \A i \in DOMAIN file.rows :
                     file.rows[i].by = u /\ file.rows[i].run = crashes =>
                         file.rows[i].at <= thread'[u].row.at
    <3>1. CASE u = t
      BY <1>1, <1>3, <1>4, <1>5, <2>2, <3>1
    <3>2. CASE u # t
      <4>1. thread'[u] = thread[u] /\ thread[u].row \in Row
        BY <1>5, <2>3, <3>2, ByCounter DEF FileInv, ShapeInv, Appends
      <4>2. /\ thread[u].row.by = u /\ thread[u].row.run = crashes /\ thread[u].row.at <= floor
            /\ \A i \in DOMAIN file.rows :
                  file.rows[i].by = u /\ file.rows[i].run = crashes =>
                      file.rows[i].at <= thread[u].row.at
        BY <2>3, <4>1, Zenon DEF FileInv, StampInv, Pending, Waiting
      <4>3. thread[u].row.at <= at
        BY <1>1, <4>1, <4>2 DEF Row, FileInv, ShapeInv
      <4> QED  BY <4>1, <4>2, <4>3, Zenon
    <3> QED  BY <3>1, <3>2
  <2>4. StampsNeverRegress'
    BY <1>2 DEF FileInv, StampInv, StampsNeverRegress
  <2> QED  BY <1>2, <2>1, <2>2, <2>3, <2>4, Zenon DEF StampInv, Pending, Waiting
<1> QED  BY <1>6, <1>7, <1>8, <1>9 DEF FileInv

\* The file after an insert, a statement of the schema, the version and a crash.
LEMMA FileSets ==
    ASSUME NEW f, FileRecord(f), NEW r, NEW n
    PROVE  /\ [f EXCEPT !.rows = r, !.synced = n] =
                  [version |-> f.version, statements |-> f.statements, rows |-> r, synced |-> n]
           /\ [f EXCEPT !.statements = n] =
                  [version |-> f.version, statements |-> n, rows |-> f.rows, synced |-> f.synced]
           /\ [f EXCEPT !.version = n] =
                  [version |-> n, statements |-> f.statements, rows |-> f.rows, synced |-> f.synced]
           /\ [f EXCEPT !.rows = r] =
                  [version |-> f.version, statements |-> f.statements, rows |-> r, synced |-> f.synced]
<1> DEFINE g == [f EXCEPT !.rows = r]
<1>1. [f EXCEPT !.rows = r, !.synced = n] = [g EXCEPT !.synced = n]
  OBVIOUS
<1>2. g = [version |-> f.version, statements |-> f.statements, rows |-> r, synced |-> f.synced]
  BY DEF FileRecord
<1> HIDE DEF g
<1>3. [g EXCEPT !.synced = n] =
          [version |-> f.version, statements |-> f.statements, rows |-> r, synced |-> n]
  BY <1>2
<1>4. [f EXCEPT !.statements = n] =
          [version |-> f.version, statements |-> n, rows |-> f.rows, synced |-> f.synced]
  BY DEF FileRecord
<1>5. [f EXCEPT !.version = n] =
          [version |-> n, statements |-> f.statements, rows |-> f.rows, synced |-> f.synced]
  BY DEF FileRecord
<1> QED  BY <1>1, <1>2, <1>3, <1>4, <1>5 DEF g

LEMMA ExecutePreserves ==
    ASSUME FileInv, NEW t \in Threads, Execute(t) PROVE FileInv'
<1> DEFINE row == thread[t].row
           x == [pc |-> "return", row |-> row]
           rows == Append(file.rows, row)
<1>1. thread[t].pc = "execute" /\ Appends(thread[t]) /\ row \in Row
  BY ByCounter DEF FileInv, ShapeInv, Execute, Waiting, Appends
<1>2. [thread[t] EXCEPT !.pc = "return"] = x /\ Appends(x) /\ x.pc = "return" /\ x.row = row
  BY <1>1, AppendsMoves, ZenonT(30)
<1>3. thread' = [thread EXCEPT ![t] = [thread[t] EXCEPT !.pc = "return"]]
      /\ UNCHANGED <<process, floor, acked, calls, crashes>>
  BY DEF Execute, bounds
<1>4. file.rows \in Seq(Row) /\ Len(file.rows) \in Nat
  BY DEF FileInv, ShapeInv
<1>5. /\ rows \in Seq(Row) /\ Len(rows) = Len(file.rows) + 1
      /\ rows[Len(file.rows) + 1] = row
      /\ \A i \in 1 .. Len(file.rows) : rows[i] = file.rows[i]
      /\ DOMAIN rows = 1 .. Len(file.rows) + 1 /\ DOMAIN file.rows = 1 .. Len(file.rows)
  BY <1>1, <1>4
<1>6. file' = [version |-> file.version, statements |-> file.statements, rows |-> rows,
               synced |-> Len(file.rows) + 1]
  BY FileSets, ZenonT(30) DEF Execute, FileInv, ShapeInv
<1> HIDE DEF x, rows
<1>7. /\ file'.rows = rows /\ file'.synced = Len(rows) /\ file'.version = file.version
      /\ file'.statements = file.statements
  BY <1>5, <1>6
<1>8. /\ thread' = [u \in Threads |-> thread'[u]]
      /\ thread'[t] = x
      /\ \A u \in Threads \ {t} : thread'[u] = thread[u]
  BY <1>2, <1>3, SetThread, ZenonT(30) DEF FileInv, ShapeInv
<1>9. Rows(file) \subseteq Rows(file') /\ row \in Rows(file')
  BY <1>4, <1>5, <1>7 DEF Rows
<1>10. ShapeInv'
  <2>1. \A u \in Threads : ThreadOK(thread'[u])
    BY <1>2, <1>8, Zenon DEF FileInv, ShapeInv, ThreadOK
  <2>2. FileRecord(file)' /\ (file.rows \in Seq(Row))' /\ file'.synced = Len(file'.rows)
        /\ floor' \in Nat /\ calls' \in Nat /\ crashes' \in Nat
    BY <1>3, <1>5, <1>6, <1>7 DEF FileInv, ShapeInv, FileRecord
  <2> QED  BY <1>8, <2>1, <2>2, Zenon DEF ShapeInv, ThreadOK, Appends, Tries, Queries, Answers, Idle
<1>11. AckInv'
  <2>1. ASSUME NEW u \in Threads
        PROVE  /\ thread'[u].pc = "return" => thread'[u].row \in Rows(file')
               /\ thread'[u].pc \in {"try", "fallback", "query"} => thread'[u].acked \subseteq acked'
               /\ thread'[u].pc = "answer" => thread'[u].acked \subseteq thread'[u].seen
    <3>1. CASE u = t
      BY <1>2, <1>8, <1>9, <3>1
    <3>2. CASE u # t
      BY <1>3, <1>8, <1>9, <3>2 DEF FileInv, AckInv
    <3> QED  BY <3>1, <3>2
  <2> QED  BY <1>3, <1>9, <2>1 DEF FileInv, AckInv
<1>12. SchemaInv'
  BY <1>3, <1>7 DEF FileInv, SchemaInv
<1>13. StampInv'
  <2>1. /\ row.by = t /\ row.run = crashes /\ row.at <= floor
        /\ \A i \in DOMAIN file.rows :
              file.rows[i].by = t /\ file.rows[i].run = crashes => file.rows[i].at <= row.at
    BY <1>1, Zenon DEF FileInv, StampInv, Pending
  <2>2. \A i \in DOMAIN rows : (i \in DOMAIN file.rows /\ rows[i] = file.rows[i])
                                \/ (i = Len(file.rows) + 1 /\ rows[i] = row)
    BY <1>4, <1>5
  <2>3. ASSUME NEW i \in DOMAIN rows
        PROVE  rows[i].run <= crashes /\ (rows[i].run = crashes => rows[i].at <= floor)
    <3>1. CASE i \in DOMAIN file.rows /\ rows[i] = file.rows[i]
      BY <3>1 DEF FileInv, StampInv
    <3>2. CASE rows[i] = row
      BY <2>1, <3>2 DEF FileInv, ShapeInv
    <3> QED  BY <2>2, <3>1, <3>2
  <2>4. ASSUME NEW u \in Threads, thread'[u].pc \in Waiting
        PROVE  /\ thread'[u].row.by = u /\ thread'[u].row.run = crashes /\ thread'[u].row.at <= floor
               /\ \A i \in DOMAIN rows :
                     rows[i].by = u /\ rows[i].run = crashes => rows[i].at <= thread'[u].row.at
    <3>1. CASE u = t
      <4>1. thread'[u].row = row
        BY <1>2, <1>8, <3>1
      <4>2. row.at <= row.at
        BY <1>1 DEF Row
      <4> QED  BY <2>1, <2>2, <3>1, <4>1, <4>2, Zenon
    <3>2. CASE u # t
      <4>1. thread'[u] = thread[u]
        BY <1>8, <3>2
      <4>2. /\ thread[u].row.by = u /\ thread[u].row.run = crashes /\ thread[u].row.at <= floor
            /\ \A i \in DOMAIN file.rows :
                  file.rows[i].by = u /\ file.rows[i].run = crashes =>
                      file.rows[i].at <= thread[u].row.at
        BY <2>4, <4>1, Zenon DEF FileInv, StampInv, Pending, Waiting
      <4> QED  BY <2>1, <2>2, <3>2, <4>1, <4>2, Zenon
    <3> QED  BY <3>1, <3>2
  <2>5. StampsNeverRegress'
    <3>1. ASSUME NEW i \in DOMAIN rows, NEW j \in DOMAIN rows, i < j,
                 rows[i].by = rows[j].by, rows[i].run = rows[j].run
          PROVE  rows[i].at <= rows[j].at
      <4>1. CASE j \in DOMAIN file.rows /\ rows[j] = file.rows[j]
        <5>1. i \in DOMAIN file.rows /\ rows[i] = file.rows[i]
          BY <1>4, <1>5, <3>1, <4>1
        <5> QED  BY <3>1, <4>1, <5>1 DEF FileInv, StampInv, StampsNeverRegress
      <4>2. CASE j = Len(file.rows) + 1 /\ rows[j] = row
        <5>1. i \in DOMAIN file.rows /\ rows[i] = file.rows[i]
          BY <1>4, <1>5, <3>1, <4>2
        <5> QED  BY <2>1, <3>1, <4>2, <5>1, Zenon
      <4> QED  BY <2>2, <4>1, <4>2
    <3> QED  BY <1>7, <3>1 DEF StampsNeverRegress
  <2> QED  BY <1>3, <1>7, <2>3, <2>4, <2>5, Zenon DEF StampInv, Pending, Waiting
<1> QED  BY <1>10, <1>11, <1>12, <1>13 DEF FileInv

LEMMA MigratePreserves ==
    ASSUME ConstantsOK, FileInv, Open \/ Migrate PROVE FileInv'
<1>1. UNCHANGED <<floor, thread, acked, calls, crashes>>
  BY ZenonT(30) DEF Open, Migrate, bounds
<1>2. /\ file'.rows = file.rows /\ file'.synced = file.synced /\ FileRecord(file')
      /\ SchemaInv'
  <2>1. CASE UNCHANGED file /\ process' \in {"opening", "up"}
             /\ (process' = "up" => file.statements = Statements /\ file.version = Version)
    BY <2>1 DEF FileInv, ShapeInv, SchemaInv, FileRecord
  <2>2. CASE file.statements < Statements /\ file' = [file EXCEPT !.statements = @ + 1]
             /\ process' = "opening"
    <3>1. file' = [version |-> file.version, statements |-> file.statements + 1,
                   rows |-> file.rows, synced |-> file.synced]
      BY <2>2, FileSets, ZenonT(30) DEF FileInv, ShapeInv
    <3>2. file.statements + 1 \in 0 .. Statements /\ file.version \in {0, Version}
      BY <2>2 DEF FileInv, SchemaInv, ConstantsOK
    <3>3. process' = "opening"
      BY <2>2
    <3> QED  BY <3>1, <3>2, <3>3 DEF SchemaInv, FileRecord
  <2>3. CASE file' = [file EXCEPT !.version = Version] /\ process' = "opening"
    <3>1. file' = [version |-> Version, statements |-> file.statements,
                   rows |-> file.rows, synced |-> file.synced]
      BY <2>3, FileSets, ZenonT(30) DEF FileInv, ShapeInv
    <3> QED  BY <2>3, <3>1, ZenonT(30) DEF FileInv, SchemaInv, FileRecord
  <2>4. CASE Open
    BY <2>1, <2>4 DEF Open
  <2>5. CASE Migrate
    <3>1. process = "opening" /\ file.statements \in 0 .. Statements /\ Statements \in Nat
          /\ file.version \in {0, Version}
      BY <2>5 DEF Migrate, FileInv, SchemaInv, ConstantsOK
    <3>2. CASE file.statements < Statements
      <4>1. file.statements # Statements
        BY <3>1, <3>2
      <4>2. file' = [file EXCEPT !.statements = @ + 1] /\ UNCHANGED process
        BY <2>5, <3>2, <4>1, ZenonT(30) DEF Migrate
      <4> QED  BY <2>2, <3>1, <3>2, <4>2
    <3>3. CASE file.statements = Statements /\ file.version = 0
      <4>1. ~(file.statements < Statements)
        BY <3>1, <3>3
      <4> QED  BY <2>3, <2>5, <3>1, <3>3, <4>1, ZenonT(30) DEF Migrate, ConstantsOK
    <3>4. CASE file.statements = Statements /\ file.version = Version
      <4>1. ~(file.statements < Statements) /\ Version # 0
        BY <3>1, <3>4 DEF ConstantsOK
      <4> QED  BY <2>1, <2>5, <3>1, <3>4, <4>1 DEF Migrate
    <3> QED  BY <3>1, <3>2, <3>3, <3>4
  <2> QED  BY <2>4, <2>5
<1>3. Rows(file') = Rows(file)
  BY <1>2 DEF Rows
<1>4. ShapeInv'
  BY <1>1, <1>2 DEF FileInv, ShapeInv
<1>5. AckInv'
  BY <1>1, <1>3 DEF FileInv, AckInv
<1>6. StampInv'
  BY <1>1, <1>2 DEF FileInv, StampInv, Pending, StampsNeverRegress
<1> QED  BY <1>2, <1>4, <1>5, <1>6 DEF FileInv

\* What a crash can take from the end of the file is nothing: every row is synced.
LEMMA CrashPreserves ==
    ASSUME FileInv, NEW kept, Crash(kept) PROVE FileInv'
<1>1. /\ crashes' = crashes + 1 /\ process' = "down" /\ floor' = 0
      /\ thread' = [t \in Threads |-> Idle] /\ UNCHANGED <<acked, calls>>
  BY DEF Crash
<1>2. kept = Len(file.rows)
  BY DEF Crash, FileInv, ShapeInv
<1>3. file' = [file EXCEPT !.rows = SubSeq(file.rows, 1, Len(file.rows))]
  BY <1>2 DEF Crash
<1>4. SubSeq(file.rows, 1, Len(file.rows)) = file.rows
  BY DEF FileInv, ShapeInv
<1>5. file' = file
  BY <1>3, <1>4, FileSets, ZenonT(30) DEF FileInv, ShapeInv, FileRecord
<1>6. \A t \in Threads : thread'[t] = Idle /\ thread'[t].pc = "idle"
  BY <1>1, IdleOK
<1>7. ShapeInv'
  <2>1. \A t \in Threads : ThreadOK(thread'[t])
    BY <1>6, IdleOK, Zenon
  <2>2. FileRecord(file)' /\ (file.rows \in Seq(Row))' /\ file'.synced = Len(file'.rows)
        /\ floor' \in Nat /\ calls' \in Nat /\ crashes' \in Nat
    BY <1>1, <1>5 DEF FileInv, ShapeInv, FileRecord
  <2>3. thread' = [t \in Threads |-> thread'[t]]
    BY <1>1
  <2> QED  BY <2>1, <2>2, <2>3, Zenon DEF ShapeInv, ThreadOK, Appends, Tries, Queries, Answers, Idle
<1>8. AckInv'
  BY <1>1, <1>5, <1>6 DEF FileInv, AckInv
<1>9. SchemaInv'
  BY <1>1, <1>5 DEF FileInv, SchemaInv
<1>10. StampInv'
  <2>1. \A i \in DOMAIN file.rows : file.rows[i] \in Row /\ file.rows[i].run <= crashes
    BY DEF FileInv, ShapeInv, StampInv
  <2>2. \A i \in DOMAIN file.rows : file.rows[i].run <= crashes + 1 /\ file.rows[i].run # crashes + 1
    <3> TAKE i \in DOMAIN file.rows
    <3>1. file.rows[i].run \in Nat /\ file.rows[i].run <= crashes /\ crashes \in Nat
      BY <2>1 DEF Row, FileInv, ShapeInv
    <3> QED  BY <3>1
  <2>3. StampsNeverRegress'
    BY <1>5 DEF FileInv, StampInv, StampsNeverRegress
  <2> QED  BY <1>1, <1>5, <1>6, <2>2, <2>3 DEF StampInv, Pending
<1> QED  BY <1>7, <1>8, <1>9, <1>10 DEF FileInv

LEMMA FileInit == ASSUME ConstantsOK, Init PROVE FileInv
<1>1. ShapeInv
  BY DEF Init, ShapeInv, FileRecord, ThreadOK
<1>2. AckInv
  BY DEF Init, AckInv, Idle
<1>3. SchemaInv
  BY DEF Init, SchemaInv, ConstantsOK
<1>4. StampInv
  BY DEF Init, StampInv, Pending, Idle, StampsNeverRegress
<1> QED  BY <1>1, <1>2, <1>3, <1>4 DEF FileInv

LEMMA FileNext ==
    ASSUME ConstantsOK, FileInv, [Next]_vars PROVE FileInv'
<1>1. CASE Open \/ Migrate
  BY <1>1, MigratePreserves
<1>2. ASSUME NEW t \in Threads, NEW raw \in Clock, StartAppend(t, raw) PROVE FileInv'
  BY <1>2, StartAppendPreserves
<1>3. ASSUME NEW t \in Threads, StartRead(t) \/ ThreadStep(t) \/ Fail(t) \/ Panic(t)
      PROVE  FileInv'
  BY <1>3, StartReadPreserves, LockWriterPreserves, ExecutePreserves, ReturnAppendPreserves,
     TryLockPreserves, LockFallbackPreserves, RunQueryPreserves, EndPreserves
     DEF ThreadStep
<1>4. ASSUME NEW kept, Crash(kept) PROVE FileInv'
  BY <1>4, CrashPreserves
<1>5. CASE UNCHANGED vars
  BY <1>5 DEF vars, bounds, FileInv, ShapeInv, AckInv, SchemaInv, StampInv, Pending,
     StampsNeverRegress
<1> QED  BY <1>1, <1>2, <1>3, <1>4, <1>5 DEF Next

\* FileInv is an inductive invariant of the journal's file.
LEMMA FileInvariance == ConstantsOK => (Spec => []FileInv)
<1> SUFFICES ASSUME ConstantsOK PROVE Spec => []FileInv
  OBVIOUS
<1>1. Init => FileInv
  BY FileInit
<1>2. FileInv /\ [Next]_vars => FileInv'
  BY FileNext
<1> QED  BY <1>1, <1>2, PTL DEF Spec

(***************************************************************************)
(* open_write_connection: an order or fill whose append returned is in the *)
(* journal for ever, over any number of crashes and panics.                *)
(***************************************************************************)
THEOREM AppendsAreDurable == ConstantsOK => (Spec => []AcknowledgedSurvives)
<1>1. FileInv => AcknowledgedSurvives
  BY DEF FileInv, AckInv, AcknowledgedSurvives, Rows
<1> QED  BY <1>1, FileInvariance, PTL

(***************************************************************************)
(* with_connection: a query sees every append that returned before it      *)
(* began, on whichever of the connections it runs.                         *)
(***************************************************************************)
THEOREM ReadsAreCurrent == ConstantsOK => (Spec => []ReadsSeeAcknowledged)
<1>1. FileInv => ReadsSeeAcknowledged
  BY DEF FileInv, AckInv, ReadsSeeAcknowledged
<1> QED  BY <1>1, FileInvariance, PTL

(***************************************************************************)
(* migrations::run: a journal that is in use has its whole schema,         *)
(* wherever earlier attempts to create it were cut off.                    *)
(***************************************************************************)
THEOREM SchemaIsWhole == ConstantsOK => (Spec => []SchemaComplete)
<1>1. FileInv => SchemaComplete
  BY DEF FileInv, SchemaInv, SchemaComplete
<1> QED  BY <1>1, FileInvariance, PTL

(***************************************************************************)
(* The floor of the timestamps: the records of one thread are never        *)
(* stamped backwards while the process lives, whatever the clock reads.    *)
(***************************************************************************)
THEOREM StampsGrow == ConstantsOK => (Spec => []StampsNeverRegress)
<1>1. FileInv => StampsNeverRegress
  BY DEF FileInv, StampInv
<1> QED  BY <1>1, FileInvariance, PTL
-----------------------------------------------------------------------------
(***************************************************************************)
(* The configuration.  One task at a time holds config_write_lock; work is *)
(* how far it has come.                                                    *)
(***************************************************************************)
Steps == {"loaded", "checked", "booting", "built", "saved",
          "swapped", "queried", "streamed", "set"}
RuntimeReplaced == {"swapped", "queried", "streamed", "set"}
QueryReplaced == {"queried", "streamed", "set"}
StreamsReplaced == {"streamed", "set"}
Built == {"built", "saved"} \union RuntimeReplaced
Written == {"saved"} \union RuntimeReplaced

WorkRecord(w) ==
    w = [step |-> w.step, trigger |-> w.trigger, next |-> w.next, op |-> w.op,
         seen |-> w.seen, boot |-> w.boot, built |-> w.built, wrote |-> w.wrote]

RuntimeRecord(r) ==
    r = [bundle |-> r.bundle, kill_switch_active |-> r.kill_switch_active,
         state |-> r.state]

WorkInv ==
    \/ work = Conf!Idle
    \/ /\ WorkRecord(work) /\ work.step \in Steps
       /\ work.step # "loaded" => Conf!Valid(work.next.tree)
       /\ work.step \in Built => RuntimeRecord(work.built) /\ work.built.bundle = work.next
       /\ work.wrote <=> work.trigger = "config_write" /\ work.step \in Written
       /\ work.wrote \in BOOLEAN

(***************************************************************************)
(* Strengthens SettledOnOneBundle: while the lock is held, each of the     *)
(* four parts has the bundle that the steps taken so far give it, and the  *)
(* active one before unless a swap was abandoned.                          *)
(***************************************************************************)
InstallInv ==
    /\ RuntimeRecord(runtime)
    /\ Conf!Valid(bundle.tree) /\ Conf!Valid(runtime.bundle.tree)
    /\ work.step \in RuntimeReplaced => runtime.bundle = work.next
    /\ work.step \in QueryReplaced => query = work.next
    /\ work.step \in StreamsReplaced => streams = work.next
    /\ work.step = "set" => bundle = work.next
    /\ "swap" \notin abandoned =>
           /\ work.step \notin RuntimeReplaced => runtime.bundle = bundle
           /\ work.step \notin QueryReplaced => query = bundle
           /\ work.step \notin StreamsReplaced => streams = bundle

(***************************************************************************)
(* Strengthens GuardedWriteReplacesWhatWasRead: a dashboard whose token is *)
(* of the current generation has read the active bundle, except between    *)
(* the change of the bundle and that of the generation, which a client     *)
(* that leaves in between keeps apart until the next change.               *)
(***************************************************************************)
TokenInv ==
    /\ generation \in Nat
    /\ dashboard = [token |-> dashboard.token, seen |-> dashboard.seen]
    /\ dashboard.token # None => dashboard.token \in 0 .. generation
    /\ dashboard.seen # None => dashboard.token # None
    /\ work.step # "set" /\ "record" \notin abandoned =>
           /\ dashboard.seen # None /\ dashboard.token = generation => dashboard.seen = bundle
           /\ work # Conf!Idle /\ work.seen # None => work.seen = bundle

ConfInv == WorkInv /\ InstallInv /\ TokenInv

\* The record of the work after a step that changes the field step alone.
LEMMA WorkMoves ==
    ASSUME NEW w, WorkRecord(w), NEW s
    PROVE  /\ WorkRecord([w EXCEPT !.step = s])
           /\ [w EXCEPT !.step = s].step = s
           /\ [w EXCEPT !.step = s].trigger = w.trigger
           /\ [w EXCEPT !.step = s].next = w.next
           /\ [w EXCEPT !.step = s].seen = w.seen
           /\ [w EXCEPT !.step = s].built = w.built
           /\ [w EXCEPT !.step = s].wrote = w.wrote
  BY DEF WorkRecord

LEMMA ConfInit == Conf!ConstantsOK /\ Conf!Init => ConfInv
  BY DEF Conf!ConstantsOK, Conf!Init, ConfInv, WorkInv, InstallInv, TokenInv, Conf!Idle,
         Conf!NewRuntime, Conf!ToBundle, RuntimeRecord, RuntimeReplaced, QueryReplaced,
         StreamsReplaced

LEMMA StartPreserves ==
    ASSUME ConfInv, work = Conf!Idle, NEW trigger, NEW next, NEW op, NEW seen,
           seen # None /\ "record" \notin abandoned => seen = bundle,
           work' = Conf!Start(trigger, next, op, seen),
           UNCHANGED <<bundle, runtime, query, streams, generation, dashboard, abandoned>>
    PROVE  ConfInv'
<1>1. WorkInv'
  BY DEF Conf!Start, WorkInv, WorkRecord, Steps, Built, Written, RuntimeReplaced
<1>2. InstallInv'
  BY DEF Conf!Start, ConfInv, InstallInv, Conf!Idle, RuntimeReplaced, QueryReplaced,
         StreamsReplaced
<1>3. TokenInv'
  BY DEF Conf!Start, ConfInv, TokenInv, Conf!Idle
<1> QED  BY <1>1, <1>2, <1>3 DEF ConfInv

LEMMA AbandonPreserves ==
    ASSUME ConfInv, work.step \notin RuntimeReplaced, work' = Conf!Idle,
           UNCHANGED <<bundle, runtime, query, streams, generation, dashboard, abandoned>>
    PROVE  ConfInv'
<1>1. WorkInv'
  BY DEF WorkInv
<1>2. InstallInv'
  BY DEF ConfInv, InstallInv, Conf!Idle, RuntimeReplaced, QueryReplaced, StreamsReplaced
<1>3. TokenInv'
  BY DEF ConfInv, TokenInv, Conf!Idle, RuntimeReplaced
<1> QED  BY <1>1, <1>2, <1>3 DEF ConfInv

LEMMA CheckPreserves == ASSUME ConfInv, Conf!Check PROVE ConfInv'
<1>1. work # Conf!Idle /\ WorkRecord(work) /\ work.step = "loaded"
  BY DEF ConfInv, WorkInv, Conf!Check, Conf!Idle
<1>2. CASE Conf!Valid(work.next.tree) /\ work' = [work EXCEPT !.step = "checked"]
           /\ UNCHANGED generation
  <2>1. WorkInv'
    BY <1>1, <1>2, WorkMoves DEF ConfInv, WorkInv, Steps, Built, Written, RuntimeReplaced
  <2>2. InstallInv'
    BY <1>1, <1>2, WorkMoves DEF ConfInv, InstallInv, Conf!Check, Conf!service,
       RuntimeReplaced, QueryReplaced, StreamsReplaced
  <2>3. TokenInv'
    BY <1>1, <1>2, WorkMoves DEF ConfInv, TokenInv, Conf!Check, Conf!service, Conf!Idle
  <2> QED  BY <2>1, <2>2, <2>3 DEF ConfInv
<1>3. CASE work' = Conf!Idle /\ UNCHANGED generation
  BY <1>1, <1>3, AbandonPreserves DEF Conf!Check, Conf!service, RuntimeReplaced
<1> QED
  BY <1>2, <1>3 DEF Conf!Check, Conf!GiveUp, Conf!RecordStatus, Conf!status

\* The record of the work with the snapshots the lanes are built from.
LEMMA WorkBoots ==
    ASSUME NEW w, WorkRecord(w), NEW s, NEW x
    PROVE  [w EXCEPT !.step = s, !.boot = x]
               = [step |-> s, trigger |-> w.trigger, next |-> w.next, op |-> w.op,
                  seen |-> w.seen, boot |-> x, built |-> w.built, wrote |-> w.wrote]
<1> DEFINE r == [w EXCEPT !.step = s]
<1>1. [w EXCEPT !.step = s, !.boot = x] = [r EXCEPT !.boot = x]
  OBVIOUS
<1>2. r = [step |-> s, trigger |-> w.trigger, next |-> w.next, op |-> w.op,
           seen |-> w.seen, boot |-> w.boot, built |-> w.built, wrote |-> w.wrote]
  BY DEF WorkRecord
<1> HIDE DEF r
<1> QED  BY <1>1, <1>2

\* The runtime that was built.
LEMMA WorkBuilds ==
    ASSUME NEW w, WorkRecord(w), NEW s, NEW x
    PROVE  [w EXCEPT !.step = s, !.built = x]
               = [step |-> s, trigger |-> w.trigger, next |-> w.next, op |-> w.op,
                  seen |-> w.seen, boot |-> w.boot, built |-> x, wrote |-> w.wrote]
<1> DEFINE r == [w EXCEPT !.step = s]
<1>1. [w EXCEPT !.step = s, !.built = x] = [r EXCEPT !.built = x]
  OBVIOUS
<1>2. r = [step |-> s, trigger |-> w.trigger, next |-> w.next, op |-> w.op,
           seen |-> w.seen, boot |-> w.boot, built |-> w.built, wrote |-> w.wrote]
  BY DEF WorkRecord
<1> HIDE DEF r
<1> QED  BY <1>1, <1>2

\* The mark of the file operation.
LEMMA WorkWrites ==
    ASSUME NEW w, WorkRecord(w), NEW s, NEW x
    PROVE  [w EXCEPT !.step = s, !.wrote = x]
               = [step |-> s, trigger |-> w.trigger, next |-> w.next, op |-> w.op,
                  seen |-> w.seen, boot |-> w.boot, built |-> w.built, wrote |-> x]
<1> DEFINE r == [w EXCEPT !.step = s]
<1>1. [w EXCEPT !.step = s, !.wrote = x] = [r EXCEPT !.wrote = x]
  OBVIOUS
<1>2. r = [step |-> s, trigger |-> w.trigger, next |-> w.next, op |-> w.op,
           seen |-> w.seen, boot |-> w.boot, built |-> w.built, wrote |-> w.wrote]
  BY DEF WorkRecord
<1> HIDE DEF r
<1> QED  BY <1>1, <1>2

LEMMA BootstrapPreserves == ASSUME ConfInv, Conf!Bootstrap PROVE ConfInv'
<1>1. work # Conf!Idle /\ WorkRecord(work) /\ work.step = "checked"
  BY DEF ConfInv, WorkInv, Conf!Bootstrap, Conf!Idle
<1>2. work' = [step |-> "booting", trigger |-> work.trigger, next |-> work.next,
               op |-> work.op, seen |-> work.seen, boot |-> journal', built |-> work.built,
               wrote |-> work.wrote]
  <2> DEFINE snapshots == journal'
  <2>1. work' = [work EXCEPT !.step = "booting", !.boot = snapshots]
    BY DEF Conf!Bootstrap
  <2> HIDE DEF snapshots
  <2>2. work' = [step |-> "booting", trigger |-> work.trigger, next |-> work.next,
                 op |-> work.op, seen |-> work.seen, boot |-> snapshots,
                 built |-> work.built, wrote |-> work.wrote]
    BY <1>1, <2>1, WorkBoots, ZenonT(30)
  <2> QED  BY <2>2 DEF snapshots
<1>3. UNCHANGED <<bundle, runtime, query, streams, generation, dashboard, abandoned>>
  BY DEF Conf!Bootstrap, Conf!service, Conf!status
<1>4. WorkInv'
  BY <1>1, <1>2 DEF ConfInv, WorkInv, WorkRecord, Steps, Built, Written, RuntimeReplaced,
     Conf!Idle
<1>5. InstallInv'
  BY <1>1, <1>2, <1>3 DEF ConfInv, InstallInv, RuntimeReplaced, QueryReplaced,
     StreamsReplaced
<1>6. TokenInv'
  BY <1>1, <1>2, <1>3 DEF ConfInv, TokenInv, Conf!Idle
<1> QED  BY <1>4, <1>5, <1>6 DEF ConfInv

LEMMA StartUpPreserves == ASSUME ConfInv, Conf!StartUp PROVE ConfInv'
<1>1. work # Conf!Idle /\ WorkRecord(work) /\ work.step = "booting"
  <2>1. work.step = "booting"
    BY ZenonT(30) DEF Conf!StartUp
  <2> QED  BY <2>1 DEF ConfInv, WorkInv, Conf!Idle
<1>2. UNCHANGED <<bundle, runtime, query, streams, dashboard, abandoned>>
  BY ZenonT(30) DEF Conf!StartUp, Conf!service
<1>3. /\ UNCHANGED generation
      /\ \/ work' = Conf!Idle
         \/ \E state : work' = [work EXCEPT !.step = "built",
                                          !.built = Conf!NewRuntime(work.next, state)]
  BY Zenon DEF Conf!StartUp, Conf!GiveUp, Conf!RecordStatus, Conf!status
<1>4. CASE work' = Conf!Idle
  BY <1>1, <1>2, <1>3, <1>4, AbandonPreserves DEF RuntimeReplaced
<1>5. ASSUME NEW state, work' = [work EXCEPT !.step = "built",
                                             !.built = Conf!NewRuntime(work.next, state)]
      PROVE  ConfInv'
  <2> DEFINE r == Conf!NewRuntime(work.next, state)
  <2>1. RuntimeRecord(r) /\ r.bundle = work.next
    BY DEF Conf!NewRuntime, RuntimeRecord
  <2> HIDE DEF r
  <2>2. work' = [step |-> "built", trigger |-> work.trigger, next |-> work.next,
                 op |-> work.op, seen |-> work.seen, boot |-> work.boot, built |-> r,
                 wrote |-> work.wrote]
    BY <1>1, <1>5, WorkBuilds, ZenonT(30) DEF r
  <2>3. WorkInv'
    BY <1>1, <2>1, <2>2 DEF ConfInv, WorkInv, WorkRecord, Steps, Built, Written,
       RuntimeReplaced, Conf!Idle
  <2>4. InstallInv'
    BY <1>1, <1>2, <2>2, ZenonT(30) DEF ConfInv, InstallInv, RuntimeReplaced, QueryReplaced,
       StreamsReplaced
  <2>5. TokenInv'
    BY <1>1, <1>2, <1>3, <2>2, ZenonT(30) DEF ConfInv, TokenInv, Conf!Idle
  <2> QED  BY <2>3, <2>4, <2>5 DEF ConfInv
<1> QED  BY <1>3, <1>4, <1>5, ZenonT(30)

LEMMA PersistPreserves == ASSUME ConfInv, Conf!Persist PROVE ConfInv'
<1>1. work # Conf!Idle /\ WorkRecord(work) /\ work.step = "built"
      /\ work.trigger = "config_write"
  BY DEF ConfInv, WorkInv, Conf!Persist, Conf!Idle
<1>2. UNCHANGED <<bundle, runtime, query, streams, generation, dashboard, abandoned>>
  BY DEF Conf!Persist, Conf!service, Conf!GiveUp, Conf!RecordStatus, Conf!status
<1>3. CASE work' = Conf!Idle
  BY <1>1, <1>2, <1>3, AbandonPreserves DEF RuntimeReplaced
<1>4. CASE work' = [work EXCEPT !.step = "saved", !.wrote = TRUE]
  <2>1. work' = [step |-> "saved", trigger |-> work.trigger, next |-> work.next,
                 op |-> work.op, seen |-> work.seen, boot |-> work.boot,
                 built |-> work.built, wrote |-> TRUE]
    BY <1>1, <1>4, WorkWrites, ZenonT(30)
  <2>2. WorkInv'
    BY <1>1, <2>1 DEF ConfInv, WorkInv, WorkRecord, Steps, Built, Written,
       RuntimeReplaced, RuntimeRecord, Conf!Idle
  <2>3. InstallInv'
    BY <1>1, <1>2, <2>1, ZenonT(30) DEF ConfInv, InstallInv, RuntimeReplaced, QueryReplaced,
       StreamsReplaced
  <2>4. TokenInv'
    BY <1>1, <1>2, <2>1 DEF ConfInv, TokenInv, Conf!Idle
  <2> QED  BY <2>2, <2>3, <2>4 DEF ConfInv
<1> QED  BY <1>3, <1>4 DEF Conf!Persist, Conf!GiveUp

LEMMA SwapRuntimePreserves == ASSUME ConfInv, Conf!SwapRuntime PROVE ConfInv'
<1>1. /\ work # Conf!Idle /\ WorkRecord(work)
      /\ \/ work.step = "saved"
         \/ work.step = "built" /\ work.trigger # "config_write"
  BY DEF ConfInv, WorkInv, Conf!SwapRuntime, Conf!Ready, Conf!Idle
<1>2. /\ work' = [work EXCEPT !.step = "swapped"]
      /\ runtime' = work.built
      /\ UNCHANGED <<bundle, query, streams, generation, dashboard, abandoned>>
  BY DEF Conf!SwapRuntime, Conf!status
<1>3. WorkInv'
  BY <1>1, <1>2, WorkMoves DEF ConfInv, WorkInv, Steps, Built, Written, RuntimeReplaced,
     Conf!Idle
<1>4. InstallInv'
  BY <1>1, <1>2, WorkMoves DEF ConfInv, WorkInv, InstallInv, Built, RuntimeReplaced,
     QueryReplaced, StreamsReplaced, RuntimeRecord, Conf!Idle
<1>5. TokenInv'
  BY <1>1, <1>2, WorkMoves DEF ConfInv, TokenInv, Conf!Idle
<1> QED  BY <1>3, <1>4, <1>5 DEF ConfInv

LEMMA SwapQueryPreserves == ASSUME ConfInv, Conf!SwapQuery PROVE ConfInv'
<1>1. work # Conf!Idle /\ WorkRecord(work) /\ work.step = "swapped"
  BY DEF ConfInv, WorkInv, Conf!SwapQuery, Conf!Idle
<1>2. /\ work' = [work EXCEPT !.step = "queried"]
      /\ query' = work.built.bundle
      /\ UNCHANGED <<bundle, runtime, streams, generation, dashboard, abandoned>>
  BY DEF Conf!SwapQuery, Conf!status
<1>3. WorkInv'
  BY <1>1, <1>2, WorkMoves DEF ConfInv, WorkInv, Steps, Built, Written, RuntimeReplaced,
     Conf!Idle
<1>4. InstallInv'
  BY <1>1, <1>2, WorkMoves DEF ConfInv, WorkInv, InstallInv, Built, RuntimeReplaced,
     QueryReplaced, StreamsReplaced, RuntimeRecord, Conf!Idle
<1>5. TokenInv'
  BY <1>1, <1>2, WorkMoves DEF ConfInv, TokenInv, Conf!Idle
<1> QED  BY <1>3, <1>4, <1>5 DEF ConfInv

LEMMA ReplaceStreamsPreserves == ASSUME ConfInv, Conf!ReplaceStreams PROVE ConfInv'
<1>1. work # Conf!Idle /\ WorkRecord(work) /\ work.step = "queried"
  BY DEF ConfInv, WorkInv, Conf!ReplaceStreams, Conf!Idle
<1>2. /\ work' = [work EXCEPT !.step = "streamed"]
      /\ streams' = runtime.bundle
      /\ UNCHANGED <<bundle, runtime, query, generation, dashboard, abandoned>>
  BY DEF Conf!ReplaceStreams, Conf!status
<1>3. WorkInv'
  BY <1>1, <1>2, WorkMoves DEF ConfInv, WorkInv, Steps, Built, Written, RuntimeReplaced,
     Conf!Idle
<1>4. InstallInv'
  BY <1>1, <1>2, WorkMoves DEF ConfInv, WorkInv, InstallInv, Built, RuntimeReplaced,
     QueryReplaced, StreamsReplaced, RuntimeRecord, Conf!Idle
<1>5. TokenInv'
  BY <1>1, <1>2, WorkMoves DEF ConfInv, TokenInv, Conf!Idle
<1> QED  BY <1>3, <1>4, <1>5 DEF ConfInv

LEMMA SetBundlePreserves == ASSUME ConfInv, Conf!SetBundle PROVE ConfInv'
<1>1. work # Conf!Idle /\ WorkRecord(work) /\ work.step = "streamed"
  BY DEF ConfInv, WorkInv, Conf!SetBundle, Conf!Idle
<1>2. /\ work' = [work EXCEPT !.step = "set"]
      /\ bundle' = work.next
      /\ abandoned' = abandoned \ {"swap"}
      /\ UNCHANGED <<runtime, query, streams, generation, dashboard>>
  BY DEF Conf!SetBundle, Conf!status
<1>3. WorkInv'
  BY <1>1, <1>2, WorkMoves DEF ConfInv, WorkInv, Steps, Built, Written, RuntimeReplaced,
     Conf!Idle
<1>4. InstallInv'
  BY <1>1, <1>2, WorkMoves DEF ConfInv, WorkInv, InstallInv, Built, RuntimeReplaced,
     QueryReplaced, StreamsReplaced, RuntimeRecord, Conf!Idle
<1>5. TokenInv'
  BY <1>1, <1>2, WorkMoves DEF ConfInv, TokenInv, Conf!Idle
<1> QED  BY <1>3, <1>4, <1>5 DEF ConfInv

LEMMA RecordAppliedPreserves == ASSUME ConfInv, Conf!RecordApplied PROVE ConfInv'
<1>1. work # Conf!Idle /\ work.step = "set"
  BY DEF Conf!RecordApplied, Conf!Idle
<1>2. /\ work' = Conf!Idle /\ generation' = generation + 1
      /\ abandoned' = abandoned \ {"record"}
      /\ UNCHANGED <<bundle, runtime, query, streams, dashboard>>
  BY DEF Conf!RecordApplied, Conf!service
<1>3. WorkInv'
  BY <1>2 DEF WorkInv
<1>4. InstallInv'
  BY <1>1, <1>2 DEF ConfInv, InstallInv, Conf!Idle, RuntimeReplaced, QueryReplaced,
     StreamsReplaced
<1>5. TokenInv'
  BY <1>1, <1>2 DEF ConfInv, TokenInv, Conf!Idle
<1> QED  BY <1>3, <1>4, <1>5 DEF ConfInv

\* The handler of a client that is gone.
LEMMA CancelPreserves == ASSUME ConfInv, Conf!Cancel PROVE ConfInv'
<1>1. /\ work # Conf!Idle /\ work' = Conf!Idle
      /\ abandoned' = abandoned \union Conf!LeftUndone(work.step)
      /\ UNCHANGED <<bundle, runtime, query, streams, generation, dashboard>>
  BY DEF Conf!Cancel, Conf!service, Conf!status
<1>2. WorkInv'
  BY <1>1 DEF WorkInv
<1>3. InstallInv'
  <2>1. CASE work.step \in {"swapped", "queried", "streamed"}
    <3>1. "swap" \in abandoned'
      BY <1>1, <2>1 DEF Conf!LeftUndone
    <3> QED  BY <1>1, <3>1 DEF ConfInv, InstallInv, Conf!Idle, RuntimeReplaced,
                QueryReplaced, StreamsReplaced
  <2>2. CASE work.step \notin {"swapped", "queried", "streamed"}
    <3>1. "swap" \notin abandoned' => "swap" \notin abandoned
      BY <1>1
    <3> QED  BY <1>1, <2>2, <3>1 DEF ConfInv, InstallInv, Conf!Idle, RuntimeReplaced,
                QueryReplaced, StreamsReplaced
  <2> QED  BY <2>1, <2>2
<1>4. TokenInv'
  <2>1. "record" \notin abandoned' => "record" \notin abandoned /\ work.step # "set"
    BY <1>1 DEF Conf!LeftUndone
  <2> QED  BY <1>1, <2>1 DEF ConfInv, TokenInv, Conf!Idle
<1> QED  BY <1>2, <1>3, <1>4 DEF ConfInv

\* A reload and a write begin when nobody holds the lock.
LEMMA ReloadPreserves ==
    ASSUME ConfInv, NEW trigger, Conf!ReloadFromDisk(trigger) PROVE ConfInv'
<1>1. work = Conf!Idle /\ UNCHANGED <<bundle, runtime, query, streams, generation, dashboard, abandoned>>
  BY DEF Conf!ReloadFromDisk, Conf!RecordStatus, Conf!service, Conf!status
<1>2. CASE UNCHANGED work
  BY <1>1, <1>2 DEF ConfInv, WorkInv, InstallInv, TokenInv
<1>3. CASE work' = Conf!Start(trigger, Conf!Load, None, None)
  BY <1>1, <1>3, StartPreserves
<1> QED  BY <1>2, <1>3 DEF Conf!ReloadFromDisk

LEMMA WritePreserves ==
    ASSUME ConfInv, NEW op, NEW exists, NEW order, Conf!BeginConfigWrite(op, exists, order)
    PROVE  ConfInv'
<1>1. work = Conf!Idle /\ UNCHANGED <<bundle, runtime, query, streams, generation, dashboard, abandoned>>
  BY DEF Conf!BeginConfigWrite, Conf!service, Conf!status
<1> DEFINE next == Conf!ToBundle(Conf!Edited(disk.tree, op), order)
<1>2. PICK guarded \in BOOLEAN :
        /\ Conf!IfMatch(guarded)
        /\ work' = Conf!Start("config_write", next, op,
                              IF guarded THEN dashboard.seen ELSE None)
  BY DEF Conf!BeginConfigWrite
<1> DEFINE seen == IF guarded THEN dashboard.seen ELSE None
<1>3. seen # None /\ "record" \notin abandoned => seen = bundle
  BY <1>1, <1>2 DEF ConfInv, TokenInv, Conf!IfMatch, Conf!Idle
<1>4. work' = Conf!Start("config_write", next, op, seen)
  BY <1>2
<1> HIDE DEF next, seen
<1> QED  BY <1>1, <1>3, <1>4, StartPreserves

\* What goes on meanwhile.
LEMMA RequestPreserves ==
    ASSUME ConfInv, RuntimeRecord(runtime)', runtime'.bundle = runtime.bundle,
           UNCHANGED <<bundle, query, streams, work, generation, dashboard, abandoned>>
    PROVE  ConfInv'
<1>1. WorkInv'
  BY DEF ConfInv, WorkInv
<1>2. InstallInv'
  BY DEF ConfInv, InstallInv
<1>3. TokenInv'
  BY DEF ConfInv, TokenInv
<1> QED  BY <1>1, <1>2, <1>3 DEF ConfInv

LEMMA MoveBotsKeepsBundle ==
    ASSUME RuntimeRecord(runtime), NEW bots, NEW state, Conf!MoveBots(bots, state)
    PROVE  RuntimeRecord(runtime)' /\ runtime'.bundle = runtime.bundle
<1> DEFINE f == [b \in DOMAIN runtime.state |-> IF b \in bots THEN state ELSE runtime.state[b]]
<1>1. runtime' = [runtime EXCEPT !.state = f]
  BY DEF Conf!MoveBots
<1> HIDE DEF f
<1> QED  BY <1>1 DEF RuntimeRecord

LEMMA RuntimeSets ==
    ASSUME NEW r, RuntimeRecord(r), NEW k
    PROVE  [r EXCEPT !.kill_switch_active = k]
               = [bundle |-> r.bundle, kill_switch_active |-> k, state |-> r.state]
  BY DEF RuntimeRecord

LEMMA KillSwitchKeepsBundle ==
    ASSUME RuntimeRecord(runtime), Conf!EnableKillSwitch \/ Conf!ClearKillSwitch
    PROVE  RuntimeRecord(runtime)' /\ runtime'.bundle = runtime.bundle
<1>1. CASE Conf!EnableKillSwitch
  <2> DEFINE f == [b \in DOMAIN runtime.state |->
                     IF b \in Conf!Running THEN "paused" ELSE runtime.state[b]]
             r == [runtime EXCEPT !.kill_switch_active = TRUE]
  <2>1. runtime' = [runtime EXCEPT !.kill_switch_active = TRUE, !.state = f]
    BY <1>1 DEF Conf!EnableKillSwitch
  <2>2. r = [bundle |-> runtime.bundle, kill_switch_active |-> TRUE,
             state |-> runtime.state]
    BY RuntimeSets, ZenonT(30)
  <2> HIDE DEF f
  <2>3. runtime' = [r EXCEPT !.state = f]
    BY <2>1
  <2> HIDE DEF r
  <2>4. runtime' = [bundle |-> runtime.bundle, kill_switch_active |-> TRUE, state |-> f]
    BY <2>2, <2>3, ZenonT(30)
  <2> QED  BY <2>4 DEF RuntimeRecord
<1>2. CASE Conf!ClearKillSwitch
  BY <1>2, RuntimeSets, ZenonT(30) DEF Conf!ClearKillSwitch, RuntimeRecord
<1> QED  BY <1>1, <1>2

LEMMA ReadPreserves == ASSUME ConfInv, Conf!ReadToken \/ Conf!ReadEffective PROVE ConfInv'
<1>1. UNCHANGED <<bundle, runtime, query, streams, work, generation, abandoned>>
  BY DEF Conf!ReadToken, Conf!ReadEffective, Conf!service, Conf!status
<1>2. WorkInv' /\ InstallInv'
  BY <1>1 DEF ConfInv, WorkInv, InstallInv
<1>3. TokenInv'
  <2>1. CASE Conf!ReadToken
    BY <1>1, <2>1 DEF ConfInv, TokenInv, Conf!ReadToken
  <2>2. CASE Conf!ReadEffective
    <3>1. dashboard' = [token |-> dashboard.token, seen |-> bundle]
          /\ dashboard.token # None
      BY <2>2 DEF ConfInv, TokenInv, Conf!ReadEffective
    <3> QED  BY <1>1, <3>1 DEF ConfInv, TokenInv
  <2> QED  BY <2>1, <2>2
<1> QED  BY <1>2, <1>3 DEF ConfInv

LEMMA RequestKeepsTheRest ==
    ASSUME Conf!Request
    PROVE  UNCHANGED <<bundle, query, streams, work, generation, dashboard, abandoned>>
  BY DEF Conf!Request, Conf!status

LEMMA BotRequestPreserves ==
    ASSUME ConfInv, NEW b, Conf!StartBot(b) \/ Conf!StopBot(b) PROVE ConfInv'
<1>1. Conf!Request /\ \E state : Conf!MoveBots({b}, state)
  BY DEF Conf!StartBot, Conf!StopBot
<1>2. RuntimeRecord(runtime)' /\ runtime'.bundle = runtime.bundle
  BY <1>1, MoveBotsKeepsBundle DEF ConfInv, InstallInv
<1> QED  BY <1>1, <1>2, RequestKeepsTheRest, RequestPreserves, ZenonT(30)

LEMMA KillSwitchPreserves ==
    ASSUME ConfInv, Conf!EnableKillSwitch \/ Conf!ClearKillSwitch PROVE ConfInv'
<1>1. Conf!Request
  BY DEF Conf!EnableKillSwitch, Conf!ClearKillSwitch
<1>2. RuntimeRecord(runtime)' /\ runtime'.bundle = runtime.bundle
  BY KillSwitchKeepsBundle DEF ConfInv, InstallInv
<1> QED  BY <1>1, <1>2, RequestKeepsTheRest, RequestPreserves

LEMMA UntouchedPreserves ==
    ASSUME ConfInv,
           UNCHANGED <<bundle, runtime, query, streams, work, generation, dashboard, abandoned>>
    PROVE  ConfInv'
  BY DEF ConfInv, WorkInv, InstallInv, TokenInv

LEMMA ContinuePreserves == ASSUME ConfInv, Conf!Continue PROVE ConfInv'
  BY CheckPreserves, BootstrapPreserves, StartUpPreserves, PersistPreserves,
     SwapRuntimePreserves, SwapQueryPreserves, ReplaceStreamsPreserves, SetBundlePreserves,
     RecordAppliedPreserves DEF Conf!Continue

LEMMA ConfNext == ASSUME ConfInv, [Conf!Next]_Conf!vars PROVE ConfInv'
<1>1. CASE Conf!ManualReload \/ Conf!TriggerReload
  BY <1>1, ReloadPreserves DEF Conf!ManualReload, Conf!TriggerReload
<1>2. CASE Conf!Write
  BY <1>2, WritePreserves, ZenonT(30) DEF Conf!Write, Conf!PutGlobal, Conf!PutAccount,
     Conf!PutRiskProfile, Conf!PutBot, Conf!CreateBot, Conf!DeleteBot
<1>3. CASE Conf!Continue
  BY <1>3, ContinuePreserves
<1>4. CASE Conf!EditFiles
  BY <1>4, UntouchedPreserves DEF Conf!EditFiles, Conf!service, Conf!status
<1>5. CASE Conf!ReadToken \/ Conf!ReadEffective
  BY <1>5, ReadPreserves
<1>6. CASE \E b \in DOMAIN runtime.state : Conf!StartBot(b) \/ Conf!StopBot(b)
  BY <1>6, BotRequestPreserves
<1>7. CASE Conf!EnableKillSwitch \/ Conf!ClearKillSwitch
  BY <1>7, KillSwitchPreserves
<1>8. CASE UNCHANGED Conf!vars
  BY <1>8, UntouchedPreserves DEF Conf!vars, Conf!service, Conf!status
<1>9. CASE Conf!Cancel
  BY <1>9, CancelPreserves
<1> QED
  BY <1>1, <1>2, <1>3, <1>4, <1>5, <1>6, <1>7, <1>8, <1>9 DEF Conf!Next

\* ConfInv is an inductive invariant of the configuration.
LEMMA ConfInvariance == Conf!ConstantsOK => (Conf!Spec => []ConfInv)
<1> SUFFICES ASSUME Conf!ConstantsOK PROVE Conf!Spec => []ConfInv
  OBVIOUS
<1>1. Conf!Init => ConfInv
  BY ConfInit
<1>2. ConfInv /\ [Conf!Next]_Conf!vars => ConfInv'
  BY ConfNext
<1> QED  BY <1>1, <1>2, PTL DEF Conf!Spec

(***************************************************************************)
(* apply_bundle: whoever finds the configuration lock free finds runtime,  *)
(* query handle, streams and bundle of one valid configuration, unless the *)
(* client of a request left between the first of them and the last and     *)
(* nothing was applied since.                                              *)
(***************************************************************************)
THEOREM Settled == Conf!ConstantsOK => (Conf!Spec => []Conf!SettledOnOneBundle)
<1>1. ConfInv => Conf!SettledOnOneBundle
  <2>1. work = Conf!Idle => work.step \notin RuntimeReplaced
    BY DEF Conf!Idle, RuntimeReplaced
  <2> QED  BY <2>1 DEF ConfInv, InstallInv, Conf!SettledOnOneBundle, RuntimeReplaced,
              QueryReplaced, StreamsReplaced
<1> QED  BY <1>1, ConfInvariance, PTL

(***************************************************************************)
(* check_if_match: a write with the generation its author read replaces    *)
(* the configuration its author read, unless a client left between the     *)
(* change of the configuration and its record and none was recorded since. *)
(***************************************************************************)
THEOREM GuardedWrite ==
    Conf!ConstantsOK => (Conf!Spec => []Conf!GuardedWriteReplacesWhatWasRead)
<1>1. ConfInv => Conf!GuardedWriteReplacesWhatWasRead
  BY DEF ConfInv, TokenInv, Conf!GuardedWriteReplacesWhatWasRead
<1> QED  BY <1>1, ConfInvariance, PTL

\* The work ends when it is given up before the file operation, with
\* record_applied, or when its client is gone.
LEMMA WorkEnds ==
    ASSUME ConfInv, [Conf!Next]_Conf!vars, work # Conf!Idle, work' = Conf!Idle
    PROVE  \/ Conf!RecordApplied
           \/ UNCHANGED generation /\ work.step \in {"loaded", "booting", "built"}
           \/ UNCHANGED <<generation, pending>>
<1>1. work.step # "idle" /\ WorkRecord(work)
  BY DEF ConfInv, WorkInv, Conf!Idle, Steps
<1>2. CASE Conf!Continue
  <2>1. CASE Conf!Check \/ Conf!StartUp \/ Conf!Persist
    <3>1. UNCHANGED generation
      BY <2>1, ZenonT(30)
         DEF Conf!Check, Conf!StartUp, Conf!Persist, Conf!GiveUp, Conf!RecordStatus,
         Conf!status
    <3>2. work.step \in {"loaded", "booting", "built"}
      BY <2>1, ZenonT(30) DEF Conf!Check, Conf!StartUp, Conf!Persist
    <3> QED  BY <3>1, <3>2
  <2>2. CASE Conf!Bootstrap
    <3> DEFINE snapshots == journal'
    <3>1. work' = [work EXCEPT !.step = "booting", !.boot = snapshots]
      BY <2>2 DEF Conf!Bootstrap
    <3> HIDE DEF snapshots
    <3> QED  BY <1>1, <3>1, WorkBoots, ZenonT(30) DEF Conf!Idle
  <2>3. CASE Conf!SwapRuntime \/ Conf!SwapQuery \/ Conf!ReplaceStreams \/ Conf!SetBundle
    <3>1. \E s : s # "idle" /\ work' = [work EXCEPT !.step = s]
      BY <2>3 DEF Conf!SwapRuntime, Conf!SwapQuery, Conf!ReplaceStreams, Conf!SetBundle
    <3> QED  BY <1>1, <3>1, WorkMoves DEF Conf!Idle
  <2> QED  BY <1>2, <2>1, <2>2, <2>3 DEF Conf!Continue
<1>3. CASE Conf!Cancel
  BY <1>3 DEF Conf!Cancel, Conf!status
<1>4. CASE ~Conf!Continue /\ ~Conf!Cancel
  <2>1. work' = work
    <3>1. ~Conf!ManualReload /\ ~Conf!TriggerReload
      BY DEF Conf!ManualReload, Conf!TriggerReload, Conf!ReloadFromDisk
    <3>2. ~Conf!Write
      BY ZenonT(30) DEF Conf!Write, Conf!PutGlobal, Conf!PutAccount, Conf!PutRiskProfile,
         Conf!PutBot, Conf!CreateBot, Conf!DeleteBot, Conf!BeginConfigWrite
    <3>3. CASE Conf!EditFiles \/ Conf!ReadToken \/ Conf!ReadEffective \/ UNCHANGED Conf!vars
      BY <3>3 DEF Conf!EditFiles, Conf!ReadToken, Conf!ReadEffective, Conf!vars
    <3>4. CASE \/ \E b \in DOMAIN runtime.state : Conf!StartBot(b) \/ Conf!StopBot(b)
               \/ Conf!EnableKillSwitch \/ Conf!ClearKillSwitch
      BY <3>4, RequestKeepsTheRest, ZenonT(30)
         DEF Conf!StartBot, Conf!StopBot, Conf!EnableKillSwitch,
         Conf!ClearKillSwitch
    <3> QED  BY <1>4, <3>1, <3>2, <3>3, <3>4 DEF Conf!Next
  <2> QED  BY <2>1
<1> QED  BY <1>2, <1>3, <1>4

\* A request that has written its file has left the watcher an event, which
\* no reload can take while the request holds the lock.
EventInv == work # Conf!Idle /\ work.wrote => pending

LEMMA EventNext == ASSUME ConfInv, EventInv, [Conf!Next]_Conf!vars PROVE EventInv'
<1>1. CASE UNCHANGED <<work, pending>>
  BY <1>1 DEF EventInv
<1>2. CASE work' = Conf!Idle \/ pending'
  BY <1>2 DEF EventInv
<1>3. CASE \E trigger, next, op, seen : work' = Conf!Start(trigger, next, op, seen)
  BY <1>3 DEF EventInv, Conf!Start
<1>4. CASE Conf!Continue
  <2>1. CASE Conf!Check \/ Conf!SwapRuntime \/ Conf!SwapQuery \/ Conf!ReplaceStreams
             \/ Conf!SetBundle
    <3>1. work.step # "idle" /\ UNCHANGED pending
      BY <2>1 DEF Conf!Check, Conf!SwapRuntime, Conf!Ready, Conf!SwapQuery,
         Conf!ReplaceStreams, Conf!SetBundle
    <3>2. work # Conf!Idle /\ WorkRecord(work)
      BY <3>1 DEF ConfInv, WorkInv, Conf!Idle
    <3>3. work' = Conf!Idle \/ \E s : work' = [work EXCEPT !.step = s]
      BY <2>1, Zenon DEF Conf!Check, Conf!GiveUp, Conf!SwapRuntime, Conf!SwapQuery,
         Conf!ReplaceStreams, Conf!SetBundle
    <3>4. work' = Conf!Idle \/ work'.wrote = work.wrote
      <4>1. ASSUME NEW s, work' = [work EXCEPT !.step = s] PROVE work'.wrote = work.wrote
        BY <3>2, <4>1 DEF WorkRecord
      <4> QED  BY <3>3, <4>1
    <3> QED  BY <3>1, <3>2, <3>4, ZenonT(30) DEF EventInv
  <2>2. CASE Conf!Bootstrap
    <3> DEFINE snapshots == journal'
    <3>1. work' = [work EXCEPT !.step = "booting", !.boot = snapshots] /\ UNCHANGED pending
      BY <2>2 DEF Conf!Bootstrap
    <3> HIDE DEF snapshots
    <3>2. work # Conf!Idle /\ WorkRecord(work)
      BY <2>2 DEF Conf!Bootstrap, ConfInv, WorkInv, Conf!Idle
    <3>3. work'.wrote = work.wrote
      BY <3>1, <3>2, WorkBoots, ZenonT(30)
    <3> QED  BY <3>1, <3>2, <3>3 DEF EventInv
  <2>3. CASE Conf!StartUp
    <3>1. work.step = "booting" /\ UNCHANGED pending
      BY <2>3, ZenonT(30) DEF Conf!StartUp
    <3>2. work # Conf!Idle /\ WorkRecord(work)
      BY <3>1 DEF ConfInv, WorkInv, Conf!Idle
    <3>3. work' = Conf!Idle \/ \E r : work' = [work EXCEPT !.step = "built", !.built = r]
      BY <2>3, Zenon DEF Conf!StartUp, Conf!GiveUp
    <3>4. work' = Conf!Idle \/ work'.wrote = work.wrote
      BY <3>2, <3>3, WorkBuilds, ZenonT(30)
    <3> QED  BY <3>1, <3>2, <3>4, ZenonT(30) DEF EventInv
  <2>4. CASE Conf!Persist
    BY <1>2, <2>4 DEF Conf!Persist, Conf!GiveUp
  <2>5. CASE Conf!RecordApplied
    BY <1>2, <2>5 DEF Conf!RecordApplied
  <2> QED  BY <1>4, <2>1, <2>2, <2>3, <2>4, <2>5 DEF Conf!Continue
<1>5. CASE Conf!ManualReload \/ Conf!TriggerReload
  <2>1. PICK trigger : Conf!ReloadFromDisk(trigger)
    BY <1>5 DEF Conf!ManualReload, Conf!TriggerReload
  <2>2. CASE UNCHANGED work
    BY <2>1, <2>2 DEF EventInv, Conf!ReloadFromDisk
  <2>3. CASE work' = Conf!Start(trigger, Conf!Load, None, None)
    BY <1>3, <2>3
  <2> QED  BY <2>1, <2>2, <2>3 DEF Conf!ReloadFromDisk
<1>6. CASE Conf!Write
  <2>1. PICK op, exists, order : Conf!BeginConfigWrite(op, exists, order)
    BY <1>6, ZenonT(30) DEF Conf!Write, Conf!PutGlobal, Conf!PutAccount, Conf!PutRiskProfile,
       Conf!PutBot, Conf!CreateBot, Conf!DeleteBot
  <2>2. \E next, seen : work' = Conf!Start("config_write", next, op, seen)
    BY <2>1 DEF Conf!BeginConfigWrite
  <2> QED  BY <1>3, <2>2
<1>7. CASE Conf!EditFiles \/ Conf!Cancel
  BY <1>2, <1>7 DEF Conf!EditFiles, Conf!Cancel
<1>8. CASE Conf!ReadToken \/ Conf!ReadEffective \/ UNCHANGED Conf!vars
  BY <1>1, <1>8 DEF Conf!ReadToken, Conf!ReadEffective, Conf!vars
<1>9. CASE \/ \E b \in DOMAIN runtime.state : Conf!StartBot(b) \/ Conf!StopBot(b)
           \/ Conf!EnableKillSwitch \/ Conf!ClearKillSwitch
  BY <1>1, <1>9, ZenonT(30)
     DEF Conf!StartBot, Conf!StopBot, Conf!EnableKillSwitch, Conf!ClearKillSwitch,
     Conf!Request
<1> QED  BY <1>4, <1>5, <1>6, <1>7, <1>8, <1>9 DEF Conf!Next

(***************************************************************************)
(* finish_config_write: no write request takes effect without its file;    *)
(* one that has written its file is put in place and recorded, or, when    *)
(* its client leaves before, its file event is still to be served.         *)
(***************************************************************************)
THEOREM WriteIsAllOrNothing == Conf!ConstantsOK => (Conf!Spec => Conf!WrittenIffApplied)
<1>1. ASSUME ConfInv, EventInv, [Conf!Next]_Conf!vars
      PROVE  [work # Conf!Idle /\ work' = Conf!Idle /\ work.trigger = "config_write" =>
                 /\ generation' # generation => work.wrote
                 /\ work.wrote => generation' = generation + 1 \/ pending']_Conf!vars
  <2> SUFFICES ASSUME work # Conf!Idle, work' = Conf!Idle, work.trigger = "config_write"
               PROVE  /\ generation' # generation => work.wrote
                      /\ work.wrote => generation' = generation + 1 \/ pending'
    OBVIOUS
  <2>1. CASE Conf!RecordApplied
    BY <2>1, <1>1, ZenonT(30) DEF ConfInv, WorkInv, Conf!RecordApplied, Conf!Idle, Written,
       RuntimeReplaced
  <2>2. CASE UNCHANGED generation /\ work.step \in {"loaded", "booting", "built"}
    BY <2>2, <1>1 DEF ConfInv, WorkInv, Written, RuntimeReplaced
  <2>3. CASE UNCHANGED <<generation, pending>>
    BY <2>3, <1>1 DEF EventInv
  <2> QED  BY <1>1, <2>1, <2>2, <2>3, WorkEnds
<1>2. Conf!Init => EventInv
  BY DEF Conf!Init, EventInv
<1>3. ConfInv /\ EventInv /\ [Conf!Next]_Conf!vars => EventInv'
  BY EventNext
<1> QED  BY <1>1, <1>2, <1>3, ConfInvariance, PTL DEF Conf!Spec, Conf!WrittenIffApplied

(***************************************************************************)
(* The reload history.  Tells is HistoryTellsGeneration of any history and *)
(* any generation.                                                         *)
(***************************************************************************)
Outcomes == {"failed", "no_change", "rejected", "reloaded"}
Entry == [outcome : Outcomes, generation : Nat]

Tells(h, g) ==
    /\ h # <<>> => h[Len(h)].generation = g
    /\ \A i \in 1 .. Len(h) - 1 :
           h[i + 1].generation =
               h[i].generation + (IF h[i + 1].outcome = "reloaded" THEN 1 ELSE 0)

HistoryInv == generation \in Nat /\ history \in Seq(Entry) /\ Tells(history, generation)

LEMMA TailTells ==
    ASSUME NEW h \in Seq(Entry), h # <<>>, NEW g \in Nat, Tells(h, g)
    PROVE  Tail(h) \in Seq(Entry) /\ Tells(Tail(h), g)
<1>1. /\ Tail(h) \in Seq(Entry) /\ Len(Tail(h)) = Len(h) - 1
      /\ \A i \in 1 .. Len(h) - 1 : Tail(h)[i] = h[i + 1]
  OBVIOUS
<1>2. Tail(h) # <<>> => Tail(h)[Len(Tail(h))] = h[Len(h)]
  BY <1>1
<1>3. \A i \in 1 .. Len(Tail(h)) - 1 : /\ Tail(h)[i] = h[i + 1] /\ Tail(h)[i + 1] = h[(i + 1) + 1]
                                       /\ i + 1 \in 1 .. Len(h) - 1
  BY <1>1
<1> QED  BY <1>1, <1>2, <1>3 DEF Tells

LEMMA AppendTells ==
    ASSUME NEW h \in Seq(Entry), NEW g \in Nat, Tells(h, g), NEW e \in Entry,
           e.generation = g + (IF e.outcome = "reloaded" THEN 1 ELSE 0)
    PROVE  Append(h, e) \in Seq(Entry) /\ Tells(Append(h, e), e.generation)
<1>1. /\ Append(h, e) \in Seq(Entry) /\ Len(Append(h, e)) = Len(h) + 1
      /\ Append(h, e)[Len(h) + 1] = e
      /\ \A i \in 1 .. Len(h) : Append(h, e)[i] = h[i]
  OBVIOUS
<1>2. ASSUME NEW i \in 1 .. Len(h)
      PROVE  Append(h, e)[i + 1].generation =
                 Append(h, e)[i].generation
                     + (IF Append(h, e)[i + 1].outcome = "reloaded" THEN 1 ELSE 0)
  <2>1. CASE i = Len(h)
    BY <1>1, <2>1 DEF Tells
  <2>2. CASE i # Len(h)
    BY <1>1, <2>2 DEF Tells
  <2> QED  BY <2>1, <2>2
<1> QED  BY <1>1, <1>2 DEF Tells

LEMMA PushTells ==
    ASSUME Conf!ConstantsOK, HistoryInv, NEW outcome \in Outcomes, NEW g \in Nat,
           outcome = "reloaded" => g = generation + 1,
           outcome # "reloaded" => g = generation
    PROVE  Conf!PushStatus(outcome, g) \in Seq(Entry) /\ Tells(Conf!PushStatus(outcome, g), g)
<1> DEFINE keep == IF Len(history) >= HistoryLimit THEN Tail(history) ELSE history
           e == [outcome |-> outcome, generation |-> g]
<1>1. keep \in Seq(Entry) /\ Tells(keep, generation)
  <2>1. Len(history) >= HistoryLimit => history # <<>>
    BY DEF Conf!ConstantsOK, HistoryInv
  <2>2. CASE Len(history) >= HistoryLimit
    BY <2>1, <2>2, TailTells DEF HistoryInv
  <2>3. CASE ~(Len(history) >= HistoryLimit)
    BY <2>3 DEF HistoryInv
  <2> QED  BY <2>2, <2>3
<1>2. e \in Entry /\ e.generation = g /\ e.outcome = outcome
  BY DEF Entry
<1>3. Conf!PushStatus(outcome, g) = Append(keep, e)
  BY DEF Conf!PushStatus
<1> HIDE DEF keep, e
<1>4. e.generation = generation + (IF e.outcome = "reloaded" THEN 1 ELSE 0)
  BY <1>2 DEF HistoryInv
<1> QED  BY <1>1, <1>2, <1>3, <1>4, AppendTells DEF HistoryInv

LEMMA HistoryNext ==
    ASSUME Conf!ConstantsOK, HistoryInv, [Conf!Next]_Conf!vars PROVE HistoryInv'
<1>1. CASE \E outcome \in {"failed", "no_change", "rejected"} : Conf!RecordStatus(outcome)
  <2>1. PICK outcome \in {"failed", "no_change", "rejected"} : Conf!RecordStatus(outcome)
    BY <1>1
  <2>2. outcome \in Outcomes /\ outcome # "reloaded"
    BY <2>1 DEF Outcomes
  <2>3. generation \in Nat
    BY DEF HistoryInv
  <2>4. /\ Conf!PushStatus(outcome, generation) \in Seq(Entry)
        /\ Tells(Conf!PushStatus(outcome, generation), generation)
    BY <2>2, <2>3, PushTells
  <2> QED  BY <2>1, <2>4 DEF Conf!RecordStatus, HistoryInv
<1>2. CASE Conf!RecordApplied
  <2> DEFINE g == generation + 1
  <2>1. generation' = g /\ history' = Conf!PushStatus("reloaded", g)
    BY <1>2 DEF Conf!RecordApplied
  <2>2. g \in Nat /\ g = generation + 1
    BY DEF HistoryInv
  <2> HIDE DEF g
  <2>3. Conf!PushStatus("reloaded", g) \in Seq(Entry) /\ Tells(Conf!PushStatus("reloaded", g), g)
    BY <2>2, PushTells DEF Outcomes
  <2> QED  BY <2>1, <2>2, <2>3 DEF HistoryInv
<1>3. CASE UNCHANGED Conf!status
  BY <1>3 DEF HistoryInv, Conf!status, Tells
<1>4. \/ \E outcome \in {"failed", "no_change", "rejected"} : Conf!RecordStatus(outcome)
      \/ Conf!RecordApplied
      \/ UNCHANGED Conf!status
  <2>1. CASE Conf!Continue
    BY <2>1, ZenonT(30) DEF Conf!Continue, Conf!Check, Conf!Bootstrap, Conf!StartUp, Conf!Persist,
       Conf!SwapRuntime, Conf!SwapQuery, Conf!ReplaceStreams, Conf!SetBundle, Conf!GiveUp
  <2>6. CASE Conf!Cancel
    BY <2>6 DEF Conf!Cancel
  <2>2. CASE Conf!ManualReload \/ Conf!TriggerReload
    BY <2>2 DEF Conf!ManualReload, Conf!TriggerReload, Conf!ReloadFromDisk
  <2>3. CASE Conf!Write
    BY <2>3, ZenonT(30) DEF Conf!Write, Conf!PutGlobal, Conf!PutAccount, Conf!PutRiskProfile,
       Conf!PutBot, Conf!CreateBot, Conf!DeleteBot, Conf!BeginConfigWrite
  <2>4. CASE Conf!EditFiles \/ Conf!ReadToken \/ Conf!ReadEffective \/ UNCHANGED Conf!vars
    BY <2>4 DEF Conf!EditFiles, Conf!ReadToken, Conf!ReadEffective, Conf!vars
  <2>5. CASE \/ \E b \in DOMAIN runtime.state : Conf!StartBot(b) \/ Conf!StopBot(b)
             \/ Conf!EnableKillSwitch \/ Conf!ClearKillSwitch
    BY <2>5, ZenonT(30)
       DEF Conf!StartBot, Conf!StopBot, Conf!EnableKillSwitch, Conf!ClearKillSwitch,
       Conf!Request
  <2> QED  BY <2>1, <2>2, <2>3, <2>4, <2>5, <2>6 DEF Conf!Next
<1> QED  BY <1>1, <1>2, <1>3, <1>4

(***************************************************************************)
(* record_status and record_applied: the newest entry of the history has   *)
(* the current generation, and the generations grow by one exactly with    *)
(* the entries of a reload.                                                *)
(***************************************************************************)
THEOREM HistoryIsTrue == Conf!ConstantsOK => (Conf!Spec => []Conf!HistoryTellsGeneration)
<1> SUFFICES ASSUME Conf!ConstantsOK PROVE Conf!Spec => []Conf!HistoryTellsGeneration
  OBVIOUS
<1>1. Conf!Init => HistoryInv
  BY DEF Conf!Init, HistoryInv, Tells
<1>2. HistoryInv /\ [Conf!Next]_Conf!vars => HistoryInv'
  BY HistoryNext
<1>3. HistoryInv => Conf!HistoryTellsGeneration
  BY DEF HistoryInv, Tells, Conf!HistoryTellsGeneration
<1> QED  BY <1>1, <1>2, <1>3, PTL DEF Conf!Spec

\* Merged snapshots are of every bot that had one.
LEMMA MergedKeeps == \A new, old : DOMAIN old \subseteq DOMAIN Conf!Merged(new, old)
  BY DEF Conf!Merged

(***************************************************************************)
(* finish_config_write: a write request that may still fail prunes nothing *)
(* from the journal of a bot (the clone of the candidate with              *)
(* prune_unconfigured_bots off, from which the next runtime is built).     *)
(***************************************************************************)
THEOREM WritesPruneNothing == Conf!Spec => Conf!WriteKeepsJournals
<1>1. ASSUME [Conf!Next]_Conf!vars, work # Conf!Idle, work.trigger = "config_write"
      PROVE  DOMAIN journal \subseteq DOMAIN journal'
  <2>1. CASE Conf!Bootstrap
    BY <1>1, <2>1 DEF Conf!Bootstrap, Conf!Prune
  <2>2. CASE Conf!StartUp
    <3>1. UNCHANGED journal \/ \E new : journal' = Conf!Merged(new, journal)
      BY <2>2, Zenon DEF Conf!StartUp
    <3> QED  BY <3>1, MergedKeeps
  <2>3. CASE \/ \E b \in DOMAIN runtime.state : Conf!StartBot(b) \/ Conf!StopBot(b)
             \/ Conf!EnableKillSwitch \/ Conf!ClearKillSwitch
    <3>1. UNCHANGED journal \/ \E new : journal' = Conf!Merged(new, journal)
      BY <2>3, Zenon DEF Conf!StartBot, Conf!StopBot, Conf!EnableKillSwitch,
         Conf!ClearKillSwitch, Conf!MoveBots
    <3> QED  BY <3>1, MergedKeeps
  <2>4. CASE \/ Conf!Check \/ Conf!Persist \/ Conf!SwapRuntime \/ Conf!SwapQuery
             \/ Conf!ReplaceStreams \/ Conf!SetBundle \/ Conf!RecordApplied \/ Conf!Cancel
    BY <2>4 DEF Conf!Check, Conf!Persist, Conf!SwapRuntime, Conf!SwapQuery,
       Conf!ReplaceStreams, Conf!SetBundle, Conf!RecordApplied, Conf!Cancel
  <2>5. CASE Conf!ManualReload \/ Conf!TriggerReload \/ Conf!Write
    BY <1>1, <2>5, ZenonT(30)
       DEF Conf!ManualReload, Conf!TriggerReload, Conf!ReloadFromDisk, Conf!Write,
       Conf!PutGlobal, Conf!PutAccount, Conf!PutRiskProfile, Conf!PutBot, Conf!CreateBot,
       Conf!DeleteBot, Conf!BeginConfigWrite
  <2>6. CASE Conf!EditFiles \/ Conf!ReadToken \/ Conf!ReadEffective \/ UNCHANGED Conf!vars
    BY <2>6 DEF Conf!EditFiles, Conf!ReadToken, Conf!ReadEffective, Conf!vars
  <2> QED  BY <1>1, <2>1, <2>2, <2>3, <2>4, <2>5, <2>6 DEF Conf!Next, Conf!Continue
<1>2. [Conf!Next]_Conf!vars =>
        [work # Conf!Idle /\ work.trigger = "config_write" =>
            DOMAIN journal \subseteq DOMAIN journal']_Conf!vars
  BY <1>1
<1> QED  BY <1>2, PTL DEF Conf!Spec, Conf!WriteKeepsJournals
=============================================================================
