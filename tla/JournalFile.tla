---------------------------- MODULE JournalFile ----------------------------
(***************************************************************************)
(* The SQLite file behind the journal and the threads that use it: opening *)
(* and migrating it, the one write connection, the pool of read            *)
(* connections, panics that poison a connection's mutex, crashes of the    *)
(* machine, and the timestamps of the records.                             *)
(***************************************************************************)
EXTENDS Integers, Sequences, FiniteSets

CONSTANTS
    None,
    Threads,
    PoolSize,                 \* read connections
    Statements,               \* statements of the schema batch
    Version,                  \* CURRENT_SCHEMA_VERSION
    Clock,                    \* readings of the wall clock; None: before the epoch
    MaxCalls, MaxCrashes, MaxPanics

ConstantsOK ==
    /\ PoolSize \in Nat \ {0} /\ Statements \in Nat \ {0} /\ Version \in Nat \ {0}
    /\ Clock \subseteq Nat \cup {None}
    /\ {MaxCalls, MaxCrashes, MaxPanics} \subseteq Nat

VARIABLES
    file,      \* version, statements run, rows, and how many rows are synced
    process,   \* "down", "opening" or "up"
    writer,    \* the write connection: its holder, and whether it is poisoned
    pool,      \* the same of every read connection
    cursor,    \* next_read_connection
    floor,     \* LAST_TIMESTAMP_MS
    thread,    \* what every thread is doing
    acked,     \* rows whose append has returned
    calls, crashes, panics

bounds == <<calls, crashes, panics>>
vars == <<file, process, writer, pool, cursor, floor, thread, acked, bounds>>

Slots == 0..(PoolSize - 1)
Free == [holder |-> None, poisoned |-> FALSE]
Idle == [pc |-> "idle"]

Init ==
    /\ file = [version |-> 0, statements |-> 0, rows |-> <<>>, synced |-> 0]
    /\ process = "down"
    /\ writer = Free
    /\ pool = [s \in Slots |-> Free]
    /\ cursor = 0 /\ floor = 0
    /\ thread = [t \in Threads |-> Idle]
    /\ acked = {}
    /\ calls = 0 /\ crashes = 0 /\ panics = 0
-----------------------------------------------------------------------------
\* open: a version of another release is refused, here never met
Open ==
    /\ process = "down"
    /\ file.version \in {0, Version}
    /\ process' = "opening"
    /\ UNCHANGED <<file, writer, pool, cursor, floor, thread, acked, bounds>>

\* migrations::run: every statement of the batch is IF NOT EXISTS and commits
\* by itself, the version is written last.
Migrate ==
    /\ process = "opening"
    /\ CASE file.statements < Statements ->
              file' = [file EXCEPT !.statements = @ + 1] /\ UNCHANGED process
         [] file.statements = Statements /\ file.version = 0 ->
              file' = [file EXCEPT !.version = Version] /\ UNCHANGED process
         [] file.statements = Statements /\ file.version = Version ->
              process' = "up" /\ UNCHANGED file
    /\ UNCHANGED <<writer, pool, cursor, floor, thread, acked, bounds>>

-----------------------------------------------------------------------------
Larger(a, b) == IF a > b THEN a ELSE b
MonotonicTimestamp(last, raw) == IF raw = None THEN last ELSE Larger(last, raw)

\* An append takes its timestamp before it waits for the write connection.
StartAppend(t, raw) ==
    /\ process = "up"
    /\ thread[t].pc = "idle"
    /\ calls < MaxCalls
    /\ calls' = calls + 1
    /\ floor' = MonotonicTimestamp(floor, raw)
    /\ thread' = [thread EXCEPT ![t] =
                    [pc |-> "append", row |-> [v |-> calls, by |-> t, run |-> crashes,
                                               at |-> MonotonicTimestamp(floor, raw)]]]
    /\ UNCHANGED <<file, process, writer, pool, cursor, acked, crashes, panics>>

\* lock_mutex: a poisoned mutex is healed by whoever locks it next
LockWriter(t) ==
    /\ thread[t].pc = "append"
    /\ writer.holder = None
    /\ writer' = [holder |-> t, poisoned |-> FALSE]
    /\ thread' = [thread EXCEPT ![t].pc = "execute"]
    /\ UNCHANGED <<file, process, pool, cursor, floor, acked, bounds>>

\* The insert commits; synchronous = FULL syncs the log before it returns.
ExecuteUnsynced(t) ==
    /\ thread[t].pc = "execute"
    /\ file' = [file EXCEPT !.rows = Append(@, thread[t].row), !.synced = Len(file.rows)]
    /\ thread' = [thread EXCEPT ![t].pc = "return"]
    /\ UNCHANGED <<process, writer, pool, cursor, floor, acked, bounds>>
Execute(t) ==
    /\ thread[t].pc = "execute"
    /\ file' = [file EXCEPT !.rows = Append(@, thread[t].row), !.synced = Len(file.rows) + 1]
    /\ thread' = [thread EXCEPT ![t].pc = "return"]
    /\ UNCHANGED <<process, writer, pool, cursor, floor, acked, bounds>>

ReturnAppend(t) ==
    /\ thread[t].pc = "return"
    /\ writer' = [writer EXCEPT !.holder = None]
    /\ acked' = acked \cup {thread[t].row}
    /\ thread' = [thread EXCEPT ![t] = Idle]
    /\ UNCHANGED <<file, process, pool, cursor, floor, bounds>>

-----------------------------------------------------------------------------
NextSlot(c) == (c + 1) % PoolSize

\* with_connection: try every connection once, from the cursor on
StartRead(t) ==
    /\ process = "up"
    /\ thread[t].pc = "idle"
    /\ calls < MaxCalls
    /\ calls' = calls + 1
    /\ cursor' = NextSlot(cursor)
    /\ thread' = [thread EXCEPT ![t] =
                    [pc |-> "try", start |-> cursor, offset |-> 0, acked |-> acked]]
    /\ UNCHANGED <<file, process, writer, pool, floor, acked, crashes, panics>>

SlotTried(t) == (thread[t].start + thread[t].offset) % PoolSize
Query(t, s) == [pc |-> "query", slot |-> s, acked |-> thread[t].acked]

\* try_lock fails on a busy connection and on a poisoned one
TryLock(t) ==
    /\ thread[t].pc = "try"
    /\ LET s == SlotTried(t)
       IN  IF pool[s] = Free
           THEN /\ pool' = [pool EXCEPT ![s].holder = t]
                /\ thread' = [thread EXCEPT ![t] = Query(t, s)]
           ELSE /\ thread' = [thread EXCEPT
                                ![t].offset = @ + 1,
                                ![t].pc = IF thread[t].offset + 1 = PoolSize THEN "fallback" ELSE "try"]
                /\ UNCHANGED pool
    /\ UNCHANGED <<file, process, writer, cursor, floor, acked, bounds>>

\* The last resort waits for the connection the round began with.
LockFallbackUnpoisoned(t) ==
    /\ thread[t].pc = "fallback"
    /\ pool[thread[t].start] = Free
    /\ pool' = [pool EXCEPT ![thread[t].start] = [holder |-> t, poisoned |-> FALSE]]
    /\ thread' = [thread EXCEPT ![t] = Query(t, thread[t].start)]
    /\ UNCHANGED <<file, process, writer, cursor, floor, acked, bounds>>
LockFallback(t) ==
    /\ thread[t].pc = "fallback"
    /\ pool[thread[t].start].holder = None
    /\ pool' = [pool EXCEPT ![thread[t].start] = [holder |-> t, poisoned |-> FALSE]]
    /\ thread' = [thread EXCEPT ![t] = Query(t, thread[t].start)]
    /\ UNCHANGED <<file, process, writer, cursor, floor, acked, bounds>>

RunQuery(t) ==
    /\ thread[t].pc = "query"
    /\ thread' = [thread EXCEPT ![t] = [pc |-> "answer", slot |-> @.slot, acked |-> @.acked,
                                        seen |-> {file.rows[i] : i \in DOMAIN file.rows}]]
    /\ UNCHANGED <<file, process, writer, pool, cursor, floor, acked, bounds>>

ReturnRead(t) ==
    /\ thread[t].pc = "answer"
    /\ pool' = [pool EXCEPT ![thread[t].slot].holder = None]
    /\ thread' = [thread EXCEPT ![t] = Idle]
    /\ UNCHANGED <<file, process, writer, cursor, floor, acked, bounds>>

\* The statement fails (busy_timeout, an I/O error): an insert is rolled back,
\* and the connection goes back with the error.
Fail(t) ==
    /\ thread[t].pc \in {"execute", "query"}
    /\ IF thread[t].pc = "execute"
       THEN writer' = [writer EXCEPT !.holder = None] /\ UNCHANGED pool
       ELSE pool' = [pool EXCEPT ![thread[t].slot].holder = None] /\ UNCHANGED writer
    /\ thread' = [thread EXCEPT ![t] = Idle]
    /\ UNCHANGED <<file, process, cursor, floor, acked, bounds>>

-----------------------------------------------------------------------------
\* A panic while a connection is held unlocks and poisons its mutex; an
\* insert that has not committed never happens.
Panic(t) ==
    /\ panics < MaxPanics
    /\ panics' = panics + 1
    /\ thread[t].pc \in {"execute", "return", "query", "answer"}
    /\ IF thread[t].pc \in {"execute", "return"}
       THEN writer' = [holder |-> None, poisoned |-> TRUE] /\ UNCHANGED pool
       ELSE pool' = [pool EXCEPT ![thread[t].slot] = [holder |-> None, poisoned |-> TRUE]]
            /\ UNCHANGED writer
    /\ thread' = [thread EXCEPT ![t] = Idle]
    /\ UNCHANGED <<file, process, cursor, floor, acked, calls, crashes>>

\* The machine stops: what is not synced may be lost, from the end.
Crash(kept) ==
    /\ crashes < MaxCrashes
    /\ process # "down"
    /\ crashes' = crashes + 1
    /\ kept \in file.synced..Len(file.rows)
    /\ file' = [file EXCEPT !.rows = SubSeq(@, 1, kept)]
    /\ process' = "down"
    /\ writer' = Free
    /\ pool' = [s \in Slots |-> Free]
    /\ cursor' = 0 /\ floor' = 0
    /\ thread' = [t \in Threads |-> Idle]
    /\ UNCHANGED <<acked, calls, panics>>

ThreadStep(t) ==
    \/ LockWriter(t) \/ Execute(t) \/ ReturnAppend(t)
    \/ TryLock(t) \/ LockFallback(t) \/ RunQuery(t) \/ ReturnRead(t)

Next ==
    \/ Open \/ Migrate
    \/ \E t \in Threads :
          \/ \E raw \in Clock : StartAppend(t, raw)
          \/ StartRead(t)
          \/ ThreadStep(t)
          \/ Fail(t) \/ Panic(t)
    \/ \E kept \in 0..MaxCalls : Crash(kept)

\* A thread that can take a step takes it; one that waits for a mutex gets it
\* if it is free again and again.
Fairness ==
    /\ WF_vars(Open) /\ WF_vars(Migrate)
    /\ \A t \in Threads :
          /\ WF_vars(Execute(t)) /\ WF_vars(ReturnAppend(t)) /\ WF_vars(TryLock(t))
          /\ WF_vars(RunQuery(t)) /\ WF_vars(ReturnRead(t))
          /\ SF_vars(LockWriter(t)) /\ SF_vars(LockFallback(t))

Spec == Init /\ [][Next]_vars /\ Fairness

-----------------------------------------------------------------------------
TypeOK ==
    /\ file.version \in {0, Version} /\ file.statements \in 0..Statements
    /\ file.synced \in 0..Len(file.rows)
    /\ process \in {"down", "opening", "up"}
    /\ writer.holder \in Threads \cup {None}
    /\ \A s \in Slots : pool[s].holder \in Threads \cup {None}
    /\ cursor \in Slots
    /\ floor \in Nat

\* An order or fill whose append returned is in the journal for ever, whatever
\* crashes or panics follow: "losing acknowledged writes is worse than the
\* extra fsync cost" (open_write_connection).
AcknowledgedSurvives == acked \subseteq {file.rows[i] : i \in DOMAIN file.rows}

\* A query sees every append that returned before it began, on whichever
\* connection of the pool it runs.
ReadsSeeAcknowledged ==
    \A t \in Threads : thread[t].pc = "answer" => thread[t].acked \subseteq thread[t].seen

\* A journal in use has its whole schema, even if earlier attempts to create
\* it were cut off between two statements.
SchemaComplete == process = "up" => file.statements = Statements /\ file.version = Version

\* Records of one thread are never stamped backwards while the process lives,
\* though the clock may be set back or be unreadable.
StampsNeverRegress ==
    \A i, j \in DOMAIN file.rows :
        LET p == file.rows[i]
            q == file.rows[j]
        IN  i < j /\ p.by = q.by /\ p.run = q.run => p.at <= q.at

\* Every call returns: neither a busy pool nor a poisoned connection blocks a
\* caller for ever.
CallsReturn == \A t \in Threads : thread[t].pc # "idle" ~> thread[t].pc = "idle"
=============================================================================
