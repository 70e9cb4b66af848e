------------------------------ MODULE Lifecycle ------------------------------
(***************************************************************************)
(* The life of the bots of an OpenTicker service: start, stop, pause and   *)
(* resume, the global kill switch, manual and startup reconciliation, and  *)
(* the restart that rebuilds every lane from the journal.                  *)
(*                                                                         *)
(* A bot trades one symbol per lane.  What the process knows of a lane     *)
(* (state, blocked, resume, pos) is lost in a crash; what the journal      *)
(* holds (one snapshot per bot, the latest position and reconciliation     *)
(* records of each lane) survives it.                                      *)
(*                                                                         *)
(* Every operator request runs under the write lock of the service, so no  *)
(* two of them interleave: op is the one in progress.  It is still not     *)
(* atomic: it walks the lanes of a bot one by one, each journal write may  *)
(* fail and end it half way, and the process may crash between two writes. *)
(***************************************************************************)
EXTENDS Naturals

CONSTANTS
    Bots,               \* configured instances
    Lanes,              \* (bot, symbol) pairs
    BotOf,              \* the bot a lane belongs to
    Enabled,            \* bots whose configuration has enabled = true
    Live,               \* bots whose account trades in live mode
    RemoteSnapshot,     \* bots whose account reconciles with the venue
    PausedIfUncertain,  \* safety.default_start_paused_if_recovery_uncertain
    MaxFaults,          \* bound on failing journal writes
    MaxCrashes,         \* bound on crashes
    NoLane              \* no lane is being reconciled

ASSUME LifecycleAssumption ==
    /\ BotOf \in [Lanes -> Bots]
    /\ Enabled \subseteq Bots
    /\ Live \subseteq Bots
    /\ RemoteSnapshot \subseteq Bots
    /\ PausedIfUncertain \in BOOLEAN
    /\ MaxFaults \in Nat
    /\ MaxCrashes \in Nat
    /\ NoLane \notin Lanes

VARIABLES
    \* process memory
    kill,               \* kill_switch_active
    st,                 \* state of each lane
    blocked,            \* reconciliation_blocked of each lane
    resume,             \* resume_after_startup_reconcile of each lane
    pos,                \* has_position of each lane
    op,                 \* the request that holds the write lock
    \* journal
    snap,               \* bot snapshot: the aggregate state, or "none"
    posRec,             \* latest authoritative position record of each lane
    recs,               \* latest reconciliation record of each lane
    \* bounds
    faults,             \* journal writes that failed so far
    crashes             \* crashes so far

memory  == <<kill, st, blocked, resume, pos>>
journal == <<snap, posRec, recs>>
vars    == <<kill, st, blocked, resume, pos, op, snap, posRec, recs, faults, crashes>>

LaneStates == {"running", "paused", "stopped", "reconciling"}
NoRecord   == [source |-> "none", safe |-> FALSE]
Records    == [source : {"none", "manual", "startup"}, safe : BOOLEAN]

LanesOf(b) == {l \in Lanes : BotOf[l] = b}

(***************************************************************************)
(* The request in progress: the lanes it has still to visit and, for a     *)
(* reconciliation, the lane it is at, how far it got with that lane and    *)
(* what the assessment said.                                               *)
(***************************************************************************)
Op(kind, todo) ==
    [kind |-> kind, todo |-> todo, lane |-> NoLane, at |-> "next", safe |-> FALSE]
Idle == Op("idle", {})
Down == Op("down", {})

TransitionKinds == {"start", "resume", "stop", "pause", "kill"}
ReconcileKinds  == {"manual", "startup"}

Ops == [kind : TransitionKinds \cup ReconcileKinds \cup {"idle", "down"},
        todo : SUBSET Lanes,
        lane : Lanes \cup {NoLane},
        at   : {"next", "assess", "finalize", "record", "failed"},
        safe : BOOLEAN]

Begin(kind, todo) == op' = IF todo = {} THEN Idle ELSE Op(kind, todo)

LaneDone(l) == Begin(op.kind, op.todo \ {l})

AtStep(l, step) == op' = [op EXCEPT !.lane = l, !.at = step]

\* A journal write fails, as often as the bound allows.
WriteFails == faults < MaxFaults /\ faults' = faults + 1

(***************************************************************************)
(* Pure functions of the lane states.                                      *)
(***************************************************************************)
AggregateBotState(s, b) ==
    IF \E l \in LanesOf(b) : s[l] = "reconciling" THEN "reconciling"
    ELSE IF \E l \in LanesOf(b) : s[l] = "running" THEN "running"
    ELSE IF \E l \in LanesOf(b) : s[l] = "paused"  THEN "paused"
    ELSE "stopped"

RecoverLaneState(s) ==
    IF PausedIfUncertain /\ s = "running" THEN "reconciling" ELSE s

\* The state a restart gives to every lane of b.
ResolvedInstanceState(b) ==
    IF b \notin Enabled THEN "paused"
    ELSE IF snap[b] = "none" THEN "stopped"
    ELSE RecoverLaneState(snap[b])

ResumeAfterStartupReconcile(b) ==
    b \in Enabled /\ PausedIfUncertain /\ snap[b] = "running"

(***************************************************************************)
(* Reconciliation records are stored under the lane's id, which is the     *)
(* bot's id only for a bot with a single symbol; the readiness check of a  *)
(* live bot looks them up under the bot's id.                              *)
(***************************************************************************)
LaneInstanceId(l) ==
    IF LanesOf(BotOf[l]) = {l} THEN <<BotOf[l]>> ELSE <<BotOf[l], l>>

LatestReconciliationForLane(b, l) ==
    IF LaneInstanceId(l) = <<b>> THEN recs[l] ELSE NoRecord

EnsureLiveReconciliationReady(b) ==
    b \in Live =>
        \A l \in LanesOf(b) :
            LET latest == LatestReconciliationForLane(b, l)
            IN  latest.source = "manual" /\ latest.safe

(***************************************************************************)
(* One lane changes state: memory first, then the bot's snapshot, then an  *)
(* event.  When the second or the third fails the memory is rolled back;   *)
(* a snapshot that was already written stays.                              *)
(***************************************************************************)
\* Mutant: the snapshot is computed before the lane has changed.
PersistPreviousState(s, b) == snap' = [snap EXCEPT ![b] = AggregateBotState(st, b)]

PersistInstanceState(s, b) == snap' = [snap EXCEPT ![b] = AggregateBotState(s, b)]

Transition(l, target) ==
    LET s == [st EXCEPT ![l] = target]
    IN  st' = s /\ PersistInstanceState(s, BotOf[l])

TransitionFails(l, target) ==
    /\ WriteFails
    /\ \/ UNCHANGED snap
       \/ PersistInstanceState([st EXCEPT ![l] = target], BotOf[l])
    /\ UNCHANGED st

(***************************************************************************)
(* start_instance and resume_instance have the same guards.                *)
(***************************************************************************)

MayRun(b) ==
    /\ ~kill
    /\ b \in Enabled
    /\ \A l \in LanesOf(b) : ~blocked[l] /\ st[l] # "reconciling"
    /\ EnsureLiveReconciliationReady(b)

StartInstance(b) ==
    /\ op = Idle
    /\ MayRun(b)
    /\ Begin("start", LanesOf(b))
    /\ UNCHANGED <<memory, journal, faults, crashes>>

ResumeInstance(b) ==
    /\ op = Idle
    /\ MayRun(b)
    /\ Begin("resume", LanesOf(b))
    /\ UNCHANGED <<memory, journal, faults, crashes>>

StopInstance(b) ==
    /\ op = Idle
    /\ Begin("stop", LanesOf(b))
    /\ UNCHANGED <<memory, journal, faults, crashes>>

PauseInstance(b) ==
    /\ op = Idle
    /\ Begin("pause", LanesOf(b))
    /\ UNCHANGED <<memory, journal, faults, crashes>>

\* Mutant: the filter keeps the lanes of the wrong state.
PausedLanes == {l \in Lanes : st[l] = "paused"}

RunningLanes == {l \in Lanes : st[l] = "running"}

\* The flag is set before its event is written; a failing event leaves the
\* flag and skips the lanes.
SetKillSwitch(active) ==
    /\ op = Idle
    /\ kill # active
    /\ kill' = active
    /\ \/ /\ Begin("kill", IF active THEN RunningLanes ELSE {})
          /\ UNCHANGED faults
       \/ WriteFails /\ UNCHANGED op
    /\ UNCHANGED <<st, blocked, resume, pos, journal, crashes>>

TargetState == [k \in TransitionKinds |->
                   IF k \in {"start", "resume"} THEN "running"
                   ELSE IF k = "stop" THEN "stopped" ELSE "paused"]

\* The loop body the five requests above share.
TransitionInstance(l) ==
    /\ op.kind \in TransitionKinds
    /\ l \in op.todo
    /\ \/ Transition(l, TargetState[op.kind]) /\ LaneDone(l) /\ UNCHANGED faults
       \/ TransitionFails(l, TargetState[op.kind]) /\ op' = Idle
    /\ UNCHANGED <<kill, blocked, resume, pos, posRec, recs, crashes>>

(***************************************************************************)
(* Reconciliation, lane by lane.  An error ends a manual reconciliation;   *)
(* a startup reconciliation marks the lane failed and goes on.             *)
(***************************************************************************)
ReconcileInstance(b) ==
    /\ op = Idle
    /\ b \in Enabled
    /\ Begin("manual", LanesOf(b))
    /\ UNCHANGED <<memory, journal, faults, crashes>>

ReconcileError(l) ==
    IF op.kind = "manual" THEN op' = Idle ELSE AtStep(l, "failed")

ReconcileStarted(l) ==
    /\ op.kind \in ReconcileKinds /\ op.at = "next" /\ l \in op.todo
    /\ IF st[l] = "reconciling"
       THEN AtStep(l, "assess") /\ UNCHANGED <<st, snap, faults>>
       ELSE \/ Transition(l, "reconciling") /\ AtStep(l, "assess") /\ UNCHANGED faults
            \/ TransitionFails(l, "reconciling") /\ ReconcileError(l)
    /\ UNCHANGED <<kill, blocked, resume, pos, posRec, recs, crashes>>

\* Mutant: the journal's position is not restored.
ApplyAssessmentFromMemory(l, safe) ==
    /\ UNCHANGED pos
    /\ blocked' = [blocked EXCEPT ![l] = ~safe]

\* The venue's open orders and the journal decide whether the lane is safe;
\* a position the process has forgotten comes back from the journal.
ApplyReconciliationAssessmentState(l, safe) ==
    /\ pos' = [pos EXCEPT ![l] = @ \/ posRec[l]]
    /\ blocked' = [blocked EXCEPT ![l] = ~safe]

AssessReconciliation(l) ==
    /\ op.at = "assess" /\ op.lane = l
    /\ \/ \E safe \in BOOLEAN :
             /\ ApplyReconciliationAssessmentState(l, safe)
             /\ \/ /\ op' = [op EXCEPT !.at = "finalize", !.safe = safe]
                   /\ UNCHANGED faults
                \/ WriteFails /\ ReconcileError(l)
       \/ WriteFails /\ ReconcileError(l) /\ UNCHANGED <<pos, blocked>>
    /\ UNCHANGED <<kill, st, resume, journal, crashes>>

ReconciledState(l) ==
    IF op.kind = "startup" /\ op.safe /\ resume[l] THEN "running" ELSE "paused"

FinalizeReconciliationResult(l) ==
    /\ op.at = "finalize" /\ op.lane = l
    /\ \/ /\ Transition(l, ReconciledState(l))
          /\ resume' = [resume EXCEPT ![l] = @ /\ op.kind # "startup"]
          /\ AtStep(l, "record")
          /\ UNCHANGED faults
       \/ TransitionFails(l, ReconciledState(l)) /\ ReconcileError(l) /\ UNCHANGED resume
    /\ UNCHANGED <<kill, blocked, pos, posRec, recs, crashes>>

\* The record, then the result events.
AppendReconciliationRecord(l) ==
    /\ op.at = "record" /\ op.lane = l
    /\ LET appended == [recs EXCEPT ![l] = [source |-> op.kind, safe |-> op.safe]]
       IN  \/ recs' = appended /\ LaneDone(l) /\ UNCHANGED faults
           \/ recs' \in {recs, appended} /\ WriteFails /\ ReconcileError(l)
    /\ UNCHANGED <<memory, snap, posRec, crashes>>

(***************************************************************************)
(* Crash and restart.  Nothing of the memory survives.                     *)
(***************************************************************************)
Halt ==
    /\ op' = Down
    /\ kill' = FALSE
    /\ st' = [l \in Lanes |-> "stopped"]
    /\ blocked' = [l \in Lanes |-> FALSE]
    /\ resume' = [l \in Lanes |-> FALSE]
    /\ pos' = [l \in Lanes |-> FALSE]

Crash ==
    /\ op # Down
    /\ crashes < MaxCrashes
    /\ crashes' = crashes + 1
    /\ Halt
    /\ UNCHANGED <<journal, faults>>

MarkStartupReconciliationFailed(l) ==
    /\ op.at = "failed" /\ op.lane = l
    /\ LET s == [st EXCEPT ![l] = "paused"]
       IN  \/ /\ st' = s
              /\ blocked' = [blocked EXCEPT ![l] = TRUE]
              /\ resume' = [resume EXCEPT ![l] = FALSE]
              /\ PersistInstanceState(s, BotOf[l])
              /\ LaneDone(l)
              /\ UNCHANGED <<kill, pos, faults>>
           \/ /\ UNCHANGED snap \/ PersistInstanceState(s, BotOf[l])
              /\ WriteFails
              /\ Halt
    /\ UNCHANGED <<posRec, recs, crashes>>

\* from_config_with_journal: build the lanes from the snapshots, write the
\* boot snapshots, then reconcile the lanes that are Reconciling.
BootState == [l \in Lanes |-> ResolvedInstanceState(BotOf[l])]

\* Mutant: only the lanes that may run again are reconciled.
LanesToResume == {l \in Lanes : ResumeAfterStartupReconcile(BotOf[l])}

PendingLanes == {l \in Lanes : BootState[l] = "reconciling"}

Boot ==
    /\ op = Down
    /\ st' = BootState
    /\ blocked' = [l \in Lanes |-> BootState[l] = "reconciling"]
    /\ resume' = [l \in Lanes |-> ResumeAfterStartupReconcile(BotOf[l])]
    /\ snap' = [b \in Bots |-> AggregateBotState(BootState, b)]
    /\ Begin("startup", PendingLanes)
    /\ UNCHANGED <<kill, pos, posRec, recs, faults, crashes>>

\* The boot snapshots are written one by one; a failure ends the process.
BootFails ==
    /\ op = Down
    /\ WriteFails
    /\ \E written \in SUBSET Bots :
          snap' = [b \in Bots |-> IF b \in written THEN AggregateBotState(BootState, b)
                                  ELSE snap[b]]
    /\ UNCHANGED <<memory, op, posRec, recs, crashes>>

(***************************************************************************)
(* What trading does to a position: a fill changes the memory and appends  *)
(* a position record.  A manual close first adopts the venue's quantity.   *)
(***************************************************************************)
Trades(l) == st[l] = "running" /\ ~kill

FillLane(l, q) ==
    /\ op = Idle
    /\ Trades(l)
    /\ q \/ pos[l]                          \* only a held position is sold
    /\ pos' = [pos EXCEPT ![l] = q]
    /\ \/ posRec' = [posRec EXCEPT ![l] = q] /\ UNCHANGED faults
       \/ WriteFails /\ UNCHANGED posRec
    /\ UNCHANGED <<kill, st, blocked, resume, op, snap, recs, crashes>>

CloseLanePosition(l, remote) ==
    /\ op = Idle
    /\ BotOf[l] \in RemoteSnapshot
    /\ LET synced == [posRec EXCEPT ![l] = IF pos[l] = remote THEN @ ELSE remote]
       IN  \/ /\ pos' = [pos EXCEPT ![l] = remote]
              /\ \/ posRec' = synced /\ UNCHANGED faults
                 \/ pos[l] # remote /\ WriteFails /\ UNCHANGED posRec
           \/ /\ remote /\ Trades(l)            \* the sell order fills
              /\ pos' = [pos EXCEPT ![l] = FALSE]
              /\ \/ posRec' = [posRec EXCEPT ![l] = FALSE] /\ UNCHANGED faults
                 \/ posRec' = synced /\ WriteFails
    /\ UNCHANGED <<kill, st, blocked, resume, op, snap, recs, crashes>>

-----------------------------------------------------------------------------
Init ==
    /\ kill = FALSE
    /\ st = [l \in Lanes |-> "stopped"]
    /\ blocked = [l \in Lanes |-> FALSE]
    /\ resume = [l \in Lanes |-> FALSE]
    /\ pos = [l \in Lanes |-> FALSE]
    /\ op = Down
    /\ snap = [b \in Bots |-> "none"]
    /\ posRec = [l \in Lanes |-> FALSE]
    /\ recs = [l \in Lanes |-> NoRecord]
    /\ faults = 0
    /\ crashes = 0

\* The steps of a request that has the lock.
Step ==
    \E l \in Lanes :
        \/ TransitionInstance(l)
        \/ ReconcileStarted(l)
        \/ AssessReconciliation(l)
        \/ FinalizeReconciliationResult(l)
        \/ AppendReconciliationRecord(l)
        \/ MarkStartupReconciliationFailed(l)

Request ==
    \/ \E b \in Bots :
          \/ StartInstance(b) \/ ResumeInstance(b)
          \/ StopInstance(b) \/ PauseInstance(b)
          \/ ReconcileInstance(b)
    \/ \E active \in BOOLEAN : SetKillSwitch(active)

Trade == \E l \in Lanes, q \in BOOLEAN : FillLane(l, q) \/ CloseLanePosition(l, q)

Next == Step \/ Request \/ Trade \/ Crash \/ Boot \/ BootFails

\* A request that has the lock is run to its end, and a process that is down
\* is started again.
Spec == Init /\ [][Next]_vars /\ WF_vars(Step) /\ WF_vars(Boot)

-----------------------------------------------------------------------------
(***************************************************************************)
(* Properties.                                                             *)
(***************************************************************************)

\* Every variable has its type.
TypeOK ==
    /\ kill \in BOOLEAN
    /\ st \in [Lanes -> LaneStates]
    /\ blocked \in [Lanes -> BOOLEAN]
    /\ resume \in [Lanes -> BOOLEAN]
    /\ pos \in [Lanes -> BOOLEAN]
    /\ op \in Ops
    /\ snap \in [Bots -> LaneStates \cup {"none"}]
    /\ posRec \in [Lanes -> BOOLEAN]
    /\ recs \in [Lanes -> Records]
    /\ faults \in 0..MaxFaults
    /\ crashes \in 0..MaxCrashes

\* A lane whose reconciliation found unresolved differences does not run:
\* neither start nor resume nor the automatic resume after a restart lets it,
\* whatever journal write fails and wherever the process crashes.
BlockedLaneDoesNotRun == \A l \in Lanes : blocked[l] => st[l] # "running"

\* While the journal accepts its writes, no lane runs once set_kill_switch(true)
\* has returned, however it got to run before.
KillSwitchPausesEveryLane ==
    kill /\ op = Idle /\ faults = 0 => \A l \in Lanes : st[l] # "running"

\* Under the kill switch no lane begins to run, whatever fails: not by a request,
\* not by the rollback of a failed transition, not by a reconciliation.
NoLaneStartsUnderKillSwitch ==
    [][kill /\ kill' => \A l \in Lanes : st'[l] = "running" => st[l] = "running"]_vars

\* While the journal accepts its writes, the snapshot of a bot with a running
\* lane says so (or says that a lane of it is reconciling), so a restart at any
\* moment sends the lane through startup reconciliation and does not forget it.
RunningLaneIsInSnapshot ==
    faults = 0 => \A l \in Lanes :
                     st[l] = "running" => snap[BotOf[l]] \in {"running", "reconciling"}

\* A lane of a live bot runs only while its latest reconciliation record is safe,
\* through every crash, restart and failing write.
LiveLaneRunsReconciled ==
    op = Idle => \A l \in Lanes : st[l] = "running" /\ BotOf[l] \in Live => recs[l].safe

\* A lane that the startup reconciliation lets run again has the position the
\* journal last recorded for it, whatever other writes failed on the way.
StartupResumeRestoresPosition ==
    [][op.kind = "startup" =>
          \A l \in Lanes : st[l] # "running" /\ st'[l] = "running" => pos'[l] = posRec'[l]]_vars

\* After a crash the service comes back, and when startup reconciliation is over
\* no lane is left Reconciling, a state from which start and resume refuse to go.
RestartSettles == op = Down ~> op = Idle /\ \A l \in Lanes : st[l] # "reconciling"

(***************************************************************************)
(* What comments and tests of the repository say and the code does not do. *)
(***************************************************************************)

\* "live mode requires successful manual reconciliation before start": once every
\* lane of a live bot has been reconciled by hand and found safe, the check passes.
ManualReconciliationAdmitsStart ==
    \A b \in Live :
        (\A l \in LanesOf(b) : recs[l] = [source |-> "manual", safe |-> TRUE])
            => EnsureLiveReconciliationReady(b)

\* "restart preserves position": with a journal that loses nothing, a running lane
\* holds what the journal says it holds.
RunningLaneKnowsItsPosition ==
    faults = 0 /\ op = Idle => \A l \in Lanes : st[l] = "running" => pos[l] = posRec[l]

\* "instance must reconcile successfully before resume": a lane does not run while
\* its latest reconciliation record says it is not safe to trade.
UnresolvedLaneDoesNotRun ==
    faults = 0 /\ op = Idle =>
        \A l \in Lanes : st[l] = "running" => recs[l].source = "none" \/ recs[l].safe
=============================================================================
