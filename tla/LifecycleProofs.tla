--------------------------- MODULE LifecycleProofs ---------------------------
(***************************************************************************)
(* Proofs, for any number of bots and lanes, of the safety properties of   *)
(* module Lifecycle.                                                       *)
(***************************************************************************)
EXTENDS Lifecycle, TLAPS

(***************************************************************************)
(* What is true between any two steps of a request.                        *)
(***************************************************************************)

\* A request other than a reconciliation never leaves the start of its loop, and
\* a reconciliation that does is at a lane.
OpShape ==
    /\ op.at # "next" => op.kind \in ReconcileKinds /\ op.lane \in Lanes
    /\ op.at = "failed" => op.kind = "startup"
    /\ op.kind \in {"idle", "down"} => op.todo = {}

\* The lanes of a start or resume in progress passed its checks, and nothing has
\* changed since.
StartChecked ==
    op.kind \in {"start", "resume"} => ~kill /\ \A l \in op.todo : ~blocked[l]

\* The lane under reconciliation does not run, and its blocked flag is what the
\* assessment said.
LaneUnderReconciliation ==
    /\ op.at \in {"assess", "finalize"} => st[op.lane] = "reconciling"
    /\ op.at = "finalize" => blocked[op.lane] = ~op.safe

\* A process that is down or starting has no kill switch set.
NoKillAtStartup == op.kind \in {"down", "startup"} => ~kill

\* A process that is down remembers nothing.
DownIsBlank == op.kind = "down" => \A l \in Lanes : st[l] = "stopped"

\* While the kill switch is being set, only lanes still to be visited run.
KillPending ==
    kill /\ faults = 0 =>
        \A l \in Lanes : st[l] = "running" => op.kind = "kill" /\ l \in op.todo

Control ==
    /\ OpShape
    /\ StartChecked
    /\ LaneUnderReconciliation
    /\ NoKillAtStartup
    /\ DownIsBlank
    /\ BlockedLaneDoesNotRun
    /\ KillPending

IInv == TypeOK /\ Control /\ RunningLaneIsInSnapshot

\* A live lane that runs, or that a restart will let run again, is the only lane
\* of its bot and its latest reconciliation record is safe.
SafelyReconciled(l) == LanesOf(BotOf[l]) = {l} /\ recs[l].safe

\* While an unsafe result waits to be recorded, nothing relies on the record.
LiveInv ==
    /\ op.at # "next" => op.lane \in op.todo
    /\ \A l \in Lanes : BotOf[l] \in Live =>
          /\ st[l] = "running" => SafelyReconciled(l)
          /\ snap[BotOf[l]] = "running" => SafelyReconciled(l)
          /\ op.kind \in {"start", "resume"} /\ l \in op.todo => SafelyReconciled(l)
          /\ resume[l] => SafelyReconciled(l) /\ op.kind = "startup" /\ l \in op.todo
          /\ op.at = "record" /\ op.lane = l => ~resume[l]
          /\ op.at = "record" /\ op.lane = l /\ ~op.safe =>
                st[l] # "running" /\ snap[BotOf[l]] # "running"

\* A lane that waits for its startup reconciliation holds nothing in memory, and one
\* that was assessed holds what the journal recorded.
RestoreInv ==
    /\ op.kind = "down" => \A l \in Lanes : ~pos[l]
    /\ op.kind = "startup" =>
          /\ \A l \in op.todo :
                pos[l] => op.lane = l /\ op.at \in {"finalize", "record", "failed"}
          /\ op.at = "finalize" => pos[op.lane] = posRec[op.lane]

-----------------------------------------------------------------------------
(***************************************************************************)
(* Lemmas about the operators.                                             *)
(***************************************************************************)

\* The aggregate state of a bot is a lane state (state.rs, aggregate_bot_state).
LEMMA AggregateType ==
    ASSUME NEW s, NEW b
    PROVE  AggregateBotState(s, b) \in LaneStates
BY DEF AggregateBotState, LaneStates

\* The aggregate of a bot with a running lane is Running or Reconciling.
LEMMA AggregateOfRunning ==
    ASSUME NEW s, NEW l \in Lanes, s[l] = "running"
    PROVE  AggregateBotState(s, BotOf[l]) \in {"running", "reconciling"}
BY DEF AggregateBotState, LanesOf

\* Every request record the actions build is well formed.
LEMMA OpType ==
    /\ Idle \in Ops /\ Down \in Ops
    /\ \A k \in TransitionKinds \cup ReconcileKinds : \A T \in SUBSET Lanes : Op(k, T) \in Ops
BY DEF Idle, Down, Op, Ops

\* Updating a flag of one lane keeps the flags of the lanes flags.
LEMMA FlagUpdate ==
    ASSUME NEW f \in [Lanes -> BOOLEAN], NEW l \in Lanes, NEW v \in BOOLEAN
    PROVE  [f EXCEPT ![l] = v] \in [Lanes -> BOOLEAN]
OBVIOUS

\* A write that fails stays within the bound.
LEMMA FaultBound ==
    ASSUME TypeOK, UNCHANGED faults \/ WriteFails
    PROVE  faults' \in 0..MaxFaults
BY LifecycleAssumption DEF TypeOK, WriteFails

\* A process that halts forgets everything.
LEMMA HaltType ==
    ASSUME Halt
    PROVE  /\ op' = Down /\ op' \in Ops
           /\ kill' \in BOOLEAN /\ st' \in [Lanes -> LaneStates]
           /\ blocked' \in [Lanes -> BOOLEAN] /\ resume' \in [Lanes -> BOOLEAN]
           /\ pos' \in [Lanes -> BOOLEAN]
<1>1. op' = Down /\ op' \in Ops
    BY OpType DEF Halt
<1>2. kill' = FALSE
    BY DEF Halt
<1>3. st' \in [Lanes -> LaneStates]
    BY DEF Halt, LaneStates
<1>4. [l \in Lanes |-> FALSE] \in [Lanes -> BOOLEAN]
    OBVIOUS
<1>. QED  BY <1>1, <1>2, <1>3, <1>4, Zenon DEF Halt

\* What the fields of a new request are.
LEMMA OpFields ==
    ASSUME NEW k, NEW T
    PROVE  /\ Op(k, T).kind = k /\ Op(k, T).todo = T
           /\ Op(k, T).at = "next" /\ Op(k, T).lane = NoLane
BY DEF Op

\* A restart gives every lane a lane state.
LEMMA BootStateType ==
    ASSUME TypeOK
    PROVE  BootState \in [Lanes -> LaneStates]
BY LifecycleAssumption
   DEF BootState, ResolvedInstanceState, RecoverLaneState, TypeOK, LaneStates

\* A step of a reconciliation moves to the lane and step given and keeps the rest.
LEMMA AtStepFields ==
    ASSUME TypeOK, NEW l \in Lanes,
           NEW step \in {"assess", "finalize", "record", "failed"}, AtStep(l, step)
    PROVE  /\ op' \in Ops
           /\ op'.lane = l /\ op'.at = step
           /\ op'.kind = op.kind /\ op'.todo = op.todo /\ op'.safe = op.safe
BY ZenonT(30) DEF AtStep, TypeOK, Ops

\* An error of a manual reconciliation ends it; one of a startup reconciliation
\* leads to the step that marks the lane failed.
LEMMA ReconcileErrorFields ==
    ASSUME TypeOK, op.kind \in ReconcileKinds, NEW l \in Lanes, ReconcileError(l)
    PROVE  /\ op' \in Ops
           /\ \/ op' = Idle
              \/ /\ op.kind = "startup" /\ op'.kind = op.kind /\ op'.todo = op.todo
                 /\ op'.lane = l /\ op'.at = "failed"
<1>1. CASE op.kind = "manual"
    BY <1>1, OpType DEF ReconcileError
<1>2. CASE op.kind = "startup"
    BY <1>2, AtStepFields DEF ReconcileError
<1>. QED  BY <1>1, <1>2 DEF ReconcileKinds

\* When a lane is done the request goes on with the others, or is over.
LEMMA BeginFields ==
    ASSUME NEW k \in TransitionKinds \cup ReconcileKinds, NEW T \in SUBSET Lanes, Begin(k, T)
    PROVE  /\ op' \in Ops
           /\ op'.at = "next" /\ op'.todo = T
           /\ op' = Idle \/ op'.kind = k
           /\ T = {} => op' = Idle
BY OpType, OpFields DEF Begin, Idle

-----------------------------------------------------------------------------
(***************************************************************************)
(* Type correctness.                                                       *)
(***************************************************************************)

\* No step of the service leaves the types of its state.
LEMMA TypeStep == TypeOK /\ OpShape /\ [Next]_vars => TypeOK'
<1> SUFFICES ASSUME TypeOK, OpShape, [Next]_vars PROVE TypeOK'
    OBVIOUS
<1> USE LifecycleAssumption
<1>1. ASSUME NEW b \in Bots,
             StartInstance(b) \/ ResumeInstance(b) \/ StopInstance(b) \/ PauseInstance(b)
                \/ ReconcileInstance(b)
      PROVE  TypeOK'
    <2>1. LanesOf(b) \in SUBSET Lanes
        BY DEF LanesOf
    <2>2. op' \in Ops
        BY <1>1, <2>1, OpType
           DEF StartInstance, ResumeInstance, StopInstance, PauseInstance, ReconcileInstance,
               Begin, TransitionKinds, ReconcileKinds
    <2>3. UNCHANGED <<memory, journal, faults, crashes>>
        BY <1>1 DEF StartInstance, ResumeInstance, StopInstance, PauseInstance, ReconcileInstance
    <2>. QED  BY <2>2, <2>3 DEF TypeOK, memory, journal
<1>2. ASSUME NEW active \in BOOLEAN, SetKillSwitch(active)
      PROVE  TypeOK'
    <2>1. op' \in Ops
        BY <1>2, OpType DEF SetKillSwitch, Begin, TransitionKinds, RunningLanes, TypeOK
    <2>. QED  BY <1>2, <2>1 DEF SetKillSwitch, WriteFails, TypeOK, journal
<1>3. ASSUME NEW l \in Lanes, TransitionInstance(l)
      PROVE  TypeOK'
    <2>1. op' \in Ops
        BY <1>3, OpType DEF TransitionInstance, LaneDone, Begin, TypeOK, Ops
    <2>2. TargetState[op.kind] \in LaneStates
        BY <1>3 DEF TransitionInstance, TargetState, TransitionKinds, LaneStates
    <2>3. st' \in [Lanes -> LaneStates] /\ snap' \in [Bots -> LaneStates \cup {"none"}]
        BY <1>3, <2>2, AggregateType
           DEF TransitionInstance, Transition, TransitionFails, PersistInstanceState, TypeOK
    <2>4. faults' \in 0..MaxFaults
        BY <1>3 DEF TransitionInstance, TransitionFails, WriteFails, TypeOK
    <2>. QED  BY <1>3, <2>1, <2>3, <2>4 DEF TransitionInstance, TypeOK
<1>4. ASSUME NEW l \in Lanes, ReconcileStarted(l)
      PROVE  TypeOK'
    <2>1. op' \in Ops
        BY <1>4, AtStepFields, ReconcileErrorFields DEF ReconcileStarted
    <2>2. st' \in [Lanes -> LaneStates] /\ snap' \in [Bots -> LaneStates \cup {"none"}]
        BY <1>4, AggregateType
           DEF ReconcileStarted, Transition, TransitionFails, PersistInstanceState, TypeOK,
               LaneStates
    <2>3. faults' \in 0..MaxFaults
        BY <1>4 DEF ReconcileStarted, TransitionFails, WriteFails, TypeOK
    <2>. QED  BY <1>4, <2>1, <2>2, <2>3 DEF ReconcileStarted, TypeOK
<1>5. ASSUME NEW l \in Lanes, AssessReconciliation(l)
      PROVE  TypeOK'
    <2>1. op' \in Ops
        <3>1. op.kind \in ReconcileKinds
            BY <1>5, Zenon DEF AssessReconciliation, OpShape
        <3>2. CASE ReconcileError(l)
            BY <3>1, <3>2, ReconcileErrorFields
        <3>3. CASE \E safe \in BOOLEAN : op' = [op EXCEPT !.at = "finalize", !.safe = safe]
            BY <3>3, ZenonT(30) DEF TypeOK, Ops
        <3>. QED  BY <1>5, <3>2, <3>3, ZenonT(30) DEF AssessReconciliation
    <2>2. pos' \in [Lanes -> BOOLEAN] /\ blocked' \in [Lanes -> BOOLEAN]
        BY <1>5, Zenon DEF AssessReconciliation, ApplyReconciliationAssessmentState, TypeOK
    <2>3. faults' \in 0..MaxFaults
        BY <1>5, FaultBound, Zenon DEF AssessReconciliation
    <2>. QED  BY <1>5, <2>1, <2>2, <2>3, Zenon DEF AssessReconciliation, TypeOK, journal
<1>6. ASSUME NEW l \in Lanes, FinalizeReconciliationResult(l)
      PROVE  TypeOK'
    <2>1. op' \in Ops
        <3>1. op.kind \in ReconcileKinds
            BY <1>6 DEF FinalizeReconciliationResult, OpShape
        <3>2. AtStep(l, "record") \/ ReconcileError(l)
            BY <1>6 DEF FinalizeReconciliationResult
        <3>. QED  BY <3>1, <3>2, AtStepFields, ReconcileErrorFields
    <2>2. ReconciledState(l) \in LaneStates
        BY DEF ReconciledState, LaneStates
    <2>3. st' \in [Lanes -> LaneStates] /\ snap' \in [Bots -> LaneStates \cup {"none"}]
        BY <1>6, <2>2, AggregateType
           DEF FinalizeReconciliationResult, Transition, TransitionFails, PersistInstanceState,
               TypeOK
    <2>4. resume' \in [Lanes -> BOOLEAN]
        BY <1>6, FlagUpdate, Zenon DEF FinalizeReconciliationResult, TypeOK
    <2>5. faults' \in 0..MaxFaults
        BY <1>6, FaultBound DEF FinalizeReconciliationResult, TransitionFails
    <2>. QED  BY <1>6, <2>1, <2>3, <2>4, <2>5 DEF FinalizeReconciliationResult, TypeOK
<1>7. ASSUME NEW l \in Lanes, AppendReconciliationRecord(l)
      PROVE  TypeOK'
    <2>1. op.kind \in ReconcileKinds /\ op.todo \in SUBSET Lanes /\ op.safe \in BOOLEAN
        BY <1>7 DEF AppendReconciliationRecord, OpShape, TypeOK, Ops
    <2>2. op' \in Ops
        BY <1>7, <2>1, BeginFields, ReconcileErrorFields DEF AppendReconciliationRecord, LaneDone
    <2>3. recs' \in [Lanes -> Records]
        BY <1>7, <2>1 DEF AppendReconciliationRecord, ReconcileKinds, Records, TypeOK
    <2>4. faults' \in 0..MaxFaults
        BY <1>7 DEF AppendReconciliationRecord, WriteFails, TypeOK
    <2>. QED  BY <1>7, <2>2, <2>3, <2>4 DEF AppendReconciliationRecord, TypeOK, memory
<1>8. ASSUME NEW l \in Lanes, MarkStartupReconciliationFailed(l)
      PROVE  TypeOK'
    <2>1. op.kind \in ReconcileKinds /\ op.todo \in SUBSET Lanes
        BY <1>8 DEF MarkStartupReconciliationFailed, OpShape, TypeOK, Ops
    <2>2. op' \in Ops
        BY <1>8, <2>1, BeginFields, OpType DEF MarkStartupReconciliationFailed, LaneDone, Halt
    <2>3. snap' \in [Bots -> LaneStates \cup {"none"}]
        BY <1>8, AggregateType
           DEF MarkStartupReconciliationFailed, PersistInstanceState, TypeOK, Halt
    <2>4. faults' \in 0..MaxFaults
        BY <1>8 DEF MarkStartupReconciliationFailed, WriteFails, TypeOK
    <2>5. /\ kill' \in BOOLEAN /\ st' \in [Lanes -> LaneStates]
          /\ blocked' \in [Lanes -> BOOLEAN] /\ resume' \in [Lanes -> BOOLEAN]
          /\ pos' \in [Lanes -> BOOLEAN]
        <3>1. CASE Halt
            BY <3>1, HaltType
        <3>2. CASE ~Halt
            <4>1. /\ kill' = kill /\ pos' = pos
                  /\ st' = [st EXCEPT ![l] = "paused"]
                  /\ blocked' = [blocked EXCEPT ![l] = TRUE]
                  /\ resume' = [resume EXCEPT ![l] = FALSE]
                BY <1>8, <3>2, Zenon DEF MarkStartupReconciliationFailed
            <4>. QED  BY <4>1, FlagUpdate DEF TypeOK, LaneStates
        <3>. QED  BY <3>1, <3>2
    <2>. QED  BY <1>8, <2>2, <2>3, <2>4, <2>5 DEF MarkStartupReconciliationFailed, TypeOK
<1>9. CASE Crash
    <2>1. crashes' \in 0..MaxCrashes /\ UNCHANGED <<snap, posRec, recs, faults>>
        BY <1>9 DEF Crash, TypeOK, journal
    <2>. QED  BY <1>9, <2>1, HaltType DEF Crash, TypeOK
<1>10. CASE Boot
    <2>1. op' \in Ops
        BY <1>10, BeginFields DEF Boot, PendingLanes, ReconcileKinds
    <2>2. resume' \in [Lanes -> BOOLEAN]
        BY <1>10 DEF Boot, ResumeAfterStartupReconcile
    <2>3. snap' \in [Bots -> LaneStates \cup {"none"}]
        BY <1>10, AggregateType DEF Boot
    <2>. QED  BY <1>10, <2>1, <2>2, <2>3, BootStateType DEF Boot, TypeOK
<1>11. CASE BootFails
    BY <1>11, AggregateType DEF BootFails, WriteFails, TypeOK, memory
<1>12. ASSUME NEW l \in Lanes, NEW q \in BOOLEAN, FillLane(l, q) \/ CloseLanePosition(l, q)
       PROVE  TypeOK'
    <2>1. pos' \in [Lanes -> BOOLEAN] /\ posRec' \in [Lanes -> BOOLEAN]
        BY <1>12, Zenon DEF FillLane, CloseLanePosition, TypeOK
    <2>2. faults' \in 0..MaxFaults
        BY <1>12 DEF FillLane, CloseLanePosition, WriteFails, TypeOK
    <2>. QED  BY <1>12, <2>1, <2>2 DEF FillLane, CloseLanePosition, TypeOK
<1>13. CASE UNCHANGED vars
    BY <1>13 DEF vars, TypeOK
<1>. QED  BY <1>1, <1>2, <1>3, <1>4, <1>5, <1>6, <1>7, <1>8, <1>9, <1>10, <1>11, <1>12, <1>13
          DEF Next, Step, Request, Trade

-----------------------------------------------------------------------------
(***************************************************************************)
(* The control invariant: which lanes may run at each point of a request.  *)
(***************************************************************************)

\* A reconciliation whose journal write fails leaves the lanes as they are.
LEMMA FailedReconciliationControl ==
    ASSUME TypeOK, Control, op.kind \in ReconcileKinds, NEW l \in Lanes,
           WriteFails, ReconcileError(l), UNCHANGED <<kill, st>>,
           \A m \in Lanes : st[m] = "running" => blocked'[m] = blocked[m]
    PROVE  Control'
<1>1. faults' # 0
    BY LifecycleAssumption DEF WriteFails, TypeOK
<1>2. \/ op' = Idle
      \/ op.kind = "startup" /\ op'.kind = "startup" /\ op'.lane = l /\ op'.at = "failed"
    BY ReconcileErrorFields, Zenon
<1>3. Idle.kind = "idle" /\ Idle.todo = {} /\ Idle.at = "next"
    BY DEF Idle, Op
<1>4. OpShape' /\ StartChecked' /\ LaneUnderReconciliation' /\ NoKillAtStartup' /\ DownIsBlank'
    <2>1. CASE op' = Idle
        BY <1>3, <2>1 DEF OpShape, StartChecked, LaneUnderReconciliation, NoKillAtStartup,
                          DownIsBlank
    <2>2. CASE op.kind = "startup" /\ op'.kind = "startup" /\ op'.lane = l /\ op'.at = "failed"
        <3>1. ~kill'
            BY <2>2, Zenon DEF Control, NoKillAtStartup
        <3>. QED  BY <2>2, <3>1 DEF OpShape, StartChecked, LaneUnderReconciliation,
                                    NoKillAtStartup, DownIsBlank, ReconcileKinds
    <2>. QED  BY <1>2, <2>1, <2>2, Zenon
<1>5. BlockedLaneDoesNotRun'
    BY Zenon DEF Control, BlockedLaneDoesNotRun
<1>6. KillPending'
    BY <1>1, Zenon DEF KillPending
<1>. QED  BY <1>4, <1>5, <1>6, Zenon DEF Control

\* Every step keeps it, those that fail half way included.
LEMMA ControlStep == TypeOK /\ Control /\ [Next]_vars => Control'
<1> SUFFICES ASSUME TypeOK, Control, [Next]_vars PROVE Control'
    OBVIOUS
<1> USE LifecycleAssumption
<1> USE DEF Control, OpShape, StartChecked, LaneUnderReconciliation, NoKillAtStartup,
            DownIsBlank, BlockedLaneDoesNotRun, KillPending
<1>0. /\ Idle.kind = "idle" /\ Idle.todo = {} /\ Idle.at = "next"
      /\ Down.kind = "down" /\ Down.todo = {} /\ Down.at = "next"
    BY DEF Idle, Down, Op
<1>1. ASSUME NEW b \in Bots,
             StartInstance(b) \/ ResumeInstance(b) \/ StopInstance(b) \/ PauseInstance(b)
                \/ ReconcileInstance(b)
      PROVE  Control'
    <2>1. PICK k \in {"start", "resume", "stop", "pause", "manual"} :
             /\ op = Idle /\ Begin(k, LanesOf(b))
             /\ k \in {"start", "resume"} => MayRun(b)
             /\ UNCHANGED <<kill, st, blocked, resume, pos, faults>>
        BY <1>1 DEF StartInstance, ResumeInstance, StopInstance, PauseInstance,
                    ReconcileInstance, memory
    <2>2. LanesOf(b) \in SUBSET Lanes
        BY DEF LanesOf
    <2>3. /\ op'.at = "next" /\ op'.todo = LanesOf(b)
          /\ op' = Idle \/ op'.kind = k
        BY <2>1, <2>2, BeginFields DEF TransitionKinds, ReconcileKinds
    <2>. QED  BY <1>0, <2>1, <2>2, <2>3 DEF MayRun
<1>2. ASSUME NEW active \in BOOLEAN, SetKillSwitch(active)
      PROVE  Control'
    <2>1. /\ op = Idle /\ kill' = active
          /\ UNCHANGED <<st, blocked, resume, pos>>
        BY <1>2 DEF SetKillSwitch
    <2>2. CASE WriteFails /\ UNCHANGED op
        BY <1>0, <2>1, <2>2 DEF WriteFails, TypeOK
    <2>3. CASE UNCHANGED faults /\ Begin("kill", IF active THEN RunningLanes ELSE {})
        <3>1. /\ op'.at = "next" /\ op'.todo = IF active THEN RunningLanes ELSE {}
              /\ op' = Idle \/ op'.kind = "kill"
              /\ op'.todo = {} => op' = Idle
            BY <2>3, BeginFields DEF RunningLanes, TransitionKinds
        <3>. QED  BY <1>0, <2>1, <2>3, <3>1 DEF RunningLanes, TypeOK
    <2>. QED  BY <1>2, <2>2, <2>3 DEF SetKillSwitch
<1>3. ASSUME NEW l \in Lanes, TransitionInstance(l)
      PROVE  Control'
    <2>1. /\ op.kind \in TransitionKinds /\ l \in op.todo
          /\ op.at = "next" /\ op.todo \in SUBSET Lanes
          /\ UNCHANGED <<kill, blocked>>
        BY <1>3 DEF TransitionInstance, TypeOK, Ops, TransitionKinds, ReconcileKinds
    <2>2. CASE /\ Transition(l, TargetState[op.kind])
               /\ LaneDone(l) /\ UNCHANGED faults
        <3>1. /\ op'.at = "next" /\ op'.todo = op.todo \ {l}
              /\ op' = Idle \/ op'.kind = op.kind
            BY <2>1, <2>2, BeginFields DEF LaneDone
        <3>2. st' = [st EXCEPT ![l] = TargetState[op.kind]]
            BY <2>2 DEF Transition
        <3>3. TargetState[op.kind] = "running" => op.kind \in {"start", "resume"}
            BY <2>1 DEF TargetState
        <3>4. OpShape' /\ StartChecked' /\ LaneUnderReconciliation' /\ NoKillAtStartup'
                /\ DownIsBlank'
            BY <1>0, <2>1, <3>1 DEF TransitionKinds, ReconcileKinds
        <3>5. BlockedLaneDoesNotRun'
            BY <2>1, <3>2, <3>3 DEF TypeOK
        <3>6. KillPending'
            BY <1>0, <2>1, <2>2, <3>1, <3>2, <3>3 DEF TypeOK
        <3>. QED  BY <3>4, <3>5, <3>6
    <2>3. CASE TransitionFails(l, TargetState[op.kind]) /\ op' = Idle
        BY <1>0, <2>1, <2>3 DEF TransitionFails, WriteFails, TypeOK
    <2>. QED  BY <1>3, <2>2, <2>3 DEF TransitionInstance
<1>4. ASSUME NEW l \in Lanes, ReconcileStarted(l)
      PROVE  Control'
    <2>1. op.kind \in ReconcileKinds /\ op.at = "next" /\ UNCHANGED <<kill, blocked>>
        BY <1>4 DEF ReconcileStarted
    <2>2. CASE /\ AtStep(l, "assess") /\ UNCHANGED faults
               /\ st' = [st EXCEPT ![l] = "reconciling"]
        BY <2>1, <2>2, AtStepFields DEF TypeOK, ReconcileKinds
    <2>3. CASE TransitionFails(l, "reconciling") /\ ReconcileError(l)
        <3>1. WriteFails /\ UNCHANGED st
            BY <2>3, Zenon DEF TransitionFails
        <3> HIDE DEF Control
        <3>. QED  BY <2>1, <2>3, <3>1, FailedReconciliationControl, Zenon
    <2>4. st[l] = "reconciling" => st = [st EXCEPT ![l] = "reconciling"]
        BY SMTT(30) DEF TypeOK
    <2>. QED  BY <1>4, <2>2, <2>3, <2>4 DEF ReconcileStarted, Transition
<1>5. ASSUME NEW l \in Lanes, AssessReconciliation(l)
      PROVE  Control'
    <2>1. /\ op.at = "assess" /\ op.lane = l /\ op.kind \in ReconcileKinds
          /\ st[l] = "reconciling" /\ UNCHANGED <<kill, st>>
        BY <1>5, ZenonT(30) DEF AssessReconciliation
    <2>2. \A m \in Lanes : m # l => blocked'[m] = blocked[m]
        BY <1>5, Zenon DEF AssessReconciliation, ApplyReconciliationAssessmentState, TypeOK
    <2>3. CASE WriteFails /\ ReconcileError(l)
        <3>1. \A m \in Lanes : st[m] = "running" => blocked'[m] = blocked[m]
            BY <2>1, <2>2
        <3> HIDE DEF Control
        <3>. QED  BY <2>1, <2>3, <3>1, FailedReconciliationControl, Zenon
    <2>4. CASE UNCHANGED faults /\ \E safe \in BOOLEAN :
                   /\ ApplyReconciliationAssessmentState(l, safe)
                   /\ op' = [op EXCEPT !.at = "finalize", !.safe = safe]
        BY <2>1, <2>4, SMTT(30) DEF ApplyReconciliationAssessmentState, TypeOK, Ops, ReconcileKinds
    <2>. QED  BY <1>5, <2>3, <2>4, ZenonT(30) DEF AssessReconciliation
<1>6. ASSUME NEW l \in Lanes, FinalizeReconciliationResult(l)
      PROVE  Control'
    <2>1. /\ op.at = "finalize" /\ op.lane = l /\ op.kind \in ReconcileKinds
          /\ st[l] = "reconciling" /\ blocked[l] = ~op.safe /\ UNCHANGED <<kill, blocked>>
        BY <1>6, Zenon DEF FinalizeReconciliationResult
    <2>2. CASE TransitionFails(l, ReconciledState(l)) /\ ReconcileError(l)
        <3>1. WriteFails /\ UNCHANGED st
            BY <2>2, Zenon DEF TransitionFails
        <3> HIDE DEF Control
        <3>. QED  BY <2>1, <2>2, <3>1, FailedReconciliationControl, Zenon
    <2>3. CASE Transition(l, ReconciledState(l)) /\ AtStep(l, "record") /\ UNCHANGED faults
        <3>1. st' = [st EXCEPT ![l] = ReconciledState(l)]
            BY <2>3 DEF Transition
        <3>2. ReconciledState(l) = "running" => op.kind = "startup" /\ op.safe
            BY SMTT(30) DEF ReconciledState
        <3>. QED  BY <2>1, <2>3, <3>1, <3>2, AtStepFields DEF TypeOK, ReconcileKinds
    <2>. QED  BY <1>6, <2>2, <2>3 DEF FinalizeReconciliationResult
<1>7. ASSUME NEW l \in Lanes, AppendReconciliationRecord(l)
      PROVE  Control'
    <2>1. /\ op.at = "record" /\ op.lane = l /\ op.kind \in ReconcileKinds
          /\ op.todo \in SUBSET Lanes /\ UNCHANGED <<kill, st, blocked>>
        BY <1>7 DEF AppendReconciliationRecord, memory, TypeOK, Ops
    <2>2. CASE WriteFails /\ ReconcileError(l)
        <3> HIDE DEF Control
        <3>. QED  BY <2>1, <2>2, FailedReconciliationControl, Zenon
    <2>3. CASE LaneDone(l) /\ UNCHANGED faults
        BY <1>0, <2>1, <2>3, BeginFields DEF LaneDone, ReconcileKinds
    <2>. QED  BY <1>7, <2>2, <2>3 DEF AppendReconciliationRecord
<1>8. ASSUME Halt
      PROVE  Control'
    BY <1>0, <1>8, Zenon DEF Halt
<1>9. ASSUME NEW l \in Lanes, MarkStartupReconciliationFailed(l)
      PROVE  Control'
    <2>1. CASE ~Halt
        <3>1. /\ op.at = "failed" /\ op.kind = "startup" /\ ~kill /\ op.todo \in SUBSET Lanes
              /\ st' = [st EXCEPT ![l] = "paused"]
              /\ LaneDone(l) /\ UNCHANGED kill
            BY <1>9, <2>1, Zenon DEF MarkStartupReconciliationFailed, TypeOK, Ops
        <3>2. \A m \in Lanes : blocked'[m] => m = l \/ blocked[m]
            BY <1>9, <2>1 DEF MarkStartupReconciliationFailed, TypeOK
        <3>3. op'.at = "next" /\ op'.kind \in {"idle", "startup"} /\ (op'.kind = "idle" => op'.todo = {})
            BY <1>0, <3>1, BeginFields DEF LaneDone, ReconcileKinds
        <3>4. BlockedLaneDoesNotRun'
            BY <3>1, <3>2 DEF TypeOK
        <3>. QED  BY <3>1, <3>3, <3>4 DEF ReconcileKinds
    <2>. QED  BY <1>8, <2>1
<1>10. CASE Boot
    <2>1. /\ st' = BootState /\ UNCHANGED kill /\ ~kill
          /\ \A l \in Lanes : blocked'[l] => BootState[l] = "reconciling"
          /\ Begin("startup", PendingLanes) /\ PendingLanes \in SUBSET Lanes
        BY <1>0, <1>10, Zenon DEF Boot, PendingLanes
    <2>2. op'.at = "next" /\ op'.kind \in {"idle", "startup"} /\ (op'.kind = "idle" => op'.todo = {})
        BY <1>0, <2>1, BeginFields DEF ReconcileKinds
    <2>3. BlockedLaneDoesNotRun'
        BY <2>1
    <2>. QED  BY <2>1, <2>2, <2>3 DEF ReconcileKinds
<1>11. CASE BootFails
    BY <1>11 DEF BootFails, WriteFails, memory, TypeOK
<1>12. ASSUME NEW l \in Lanes, NEW q \in BOOLEAN, FillLane(l, q) \/ CloseLanePosition(l, q)
       PROVE  Control'
    <2>1. UNCHANGED <<kill, st, blocked, op>> /\ (UNCHANGED faults \/ WriteFails)
        BY <1>12 DEF FillLane, CloseLanePosition
    <2>. QED  BY <2>1 DEF WriteFails, TypeOK
<1>13. CASE UNCHANGED vars
    BY <1>13 DEF vars
<1>. QED  BY <1>1, <1>2, <1>3, <1>4, <1>5, <1>6, <1>7, <1>8, <1>9, <1>10, <1>11, <1>12, <1>13, Zenon
          DEF Next, Step, Request, Trade, Crash

-----------------------------------------------------------------------------
(***************************************************************************)
(* The snapshot invariant.                                                 *)
(***************************************************************************)

\* A transition that succeeds writes the aggregate of the lane states it leaves.
LEMMA TransitionKeepsSnapshot ==
    ASSUME TypeOK, RunningLaneIsInSnapshot, NEW l \in Lanes, NEW target,
           Transition(l, target), UNCHANGED faults
    PROVE  RunningLaneIsInSnapshot'
<1> DEFINE s == [st EXCEPT ![l] = target]
<1>1. st' = s /\ snap' = [snap EXCEPT ![BotOf[l]] = AggregateBotState(s, BotOf[l])]
    BY DEF Transition, PersistInstanceState
<1>2. ASSUME NEW m \in Lanes, s[m] = "running", BotOf[m] = BotOf[l]
      PROVE  AggregateBotState(s, BotOf[l]) \in {"running", "reconciling"}
    BY <1>2, AggregateOfRunning, Zenon
<1>3. ASSUME NEW m \in Lanes, s[m] = "running", BotOf[m] # BotOf[l]
      PROVE  st[m] = "running"
    BY <1>3 DEF TypeOK
<1> HIDE DEF s
<1>. QED  BY <1>1, <1>2, <1>3, LifecycleAssumption DEF RunningLaneIsInSnapshot, TypeOK

\* Every step keeps the snapshot invariant.
LEMMA SnapshotStep ==
    TypeOK /\ Control /\ RunningLaneIsInSnapshot /\ [Next]_vars => RunningLaneIsInSnapshot'
<1> SUFFICES ASSUME TypeOK, Control, RunningLaneIsInSnapshot, [Next]_vars
             PROVE  RunningLaneIsInSnapshot'
    OBVIOUS
<1> USE LifecycleAssumption
<1>1. ASSUME WriteFails PROVE RunningLaneIsInSnapshot'
    BY <1>1 DEF WriteFails, RunningLaneIsInSnapshot, TypeOK
<1>2. ASSUME UNCHANGED <<st, snap, faults>> PROVE RunningLaneIsInSnapshot'
    BY <1>2 DEF RunningLaneIsInSnapshot
<1>3. ASSUME Halt PROVE RunningLaneIsInSnapshot'
    BY <1>3 DEF Halt, RunningLaneIsInSnapshot
<1>4. ASSUME NEW l \in Lanes, NEW target, Transition(l, target), UNCHANGED faults
      PROVE  RunningLaneIsInSnapshot'
    BY <1>4, TransitionKeepsSnapshot
<1>5. ASSUME NEW l \in Lanes, MarkStartupReconciliationFailed(l)
      PROVE  RunningLaneIsInSnapshot'
    <2>1. CASE ~Halt
        <3>1. Transition(l, "paused") /\ UNCHANGED faults
            BY <1>5, <2>1, Zenon DEF MarkStartupReconciliationFailed, Transition
        <3>. QED  BY <1>4, <3>1
    <2>. QED  BY <1>3, <2>1
<1>6. CASE Boot
    <2>1. ASSUME NEW l \in Lanes, BootState[l] = "running"
          PROVE  AggregateBotState(BootState, BotOf[l]) \in {"running", "reconciling"}
        BY <2>1, AggregateOfRunning
    <2>. QED  BY <1>6, <2>1 DEF Boot, RunningLaneIsInSnapshot
<1>7. ASSUME NEW l \in Lanes, NEW q \in BOOLEAN, FillLane(l, q) \/ CloseLanePosition(l, q)
      PROVE  RunningLaneIsInSnapshot'
    <2>1. UNCHANGED <<st, snap>> /\ (UNCHANGED faults \/ WriteFails)
        BY <1>7 DEF FillLane, CloseLanePosition
    <2>. QED  BY <1>1, <1>2, <2>1
<1>8. ASSUME NEW l \in Lanes,
             TransitionInstance(l) \/ ReconcileStarted(l) \/ AssessReconciliation(l)
                \/ FinalizeReconciliationResult(l) \/ AppendReconciliationRecord(l)
      PROVE  RunningLaneIsInSnapshot'
    <2>1. \/ WriteFails
          \/ UNCHANGED <<st, snap, faults>>
          \/ UNCHANGED faults /\ \E target \in LaneStates : Transition(l, target)
        BY <1>8, Zenon DEF TransitionInstance, ReconcileStarted, AssessReconciliation,
                    FinalizeReconciliationResult, AppendReconciliationRecord, TransitionFails,
                    memory, journal, TargetState, ReconciledState, LaneStates, TransitionKinds
    <2>. QED  BY <1>1, <1>2, <1>4, <2>1, SMTT(30)
<1>9. ASSUME NEW b \in Bots,
             StartInstance(b) \/ ResumeInstance(b) \/ StopInstance(b) \/ PauseInstance(b)
                \/ ReconcileInstance(b)
      PROVE  RunningLaneIsInSnapshot'
    <2>1. UNCHANGED <<st, snap, faults>>
        BY <1>9 DEF StartInstance, ResumeInstance, StopInstance, PauseInstance,
                    ReconcileInstance, memory, journal
    <2>. QED  BY <1>2, <2>1
<1>10. ASSUME NEW active \in BOOLEAN, SetKillSwitch(active)
       PROVE  RunningLaneIsInSnapshot'
    BY <1>1, <1>2, <1>10 DEF SetKillSwitch, journal
<1>. QED  BY <1>1, <1>2, <1>3, <1>5, <1>6, <1>7, <1>8, <1>9, <1>10
          DEF Next, Step, Request, Trade, Crash, BootFails, vars

-----------------------------------------------------------------------------
(***************************************************************************)
(* The theorems.                                                           *)
(***************************************************************************)

\* The first start finds an empty journal and a blank memory.
LEMMA InitIInv == Init => IInv
<1> SUFFICES ASSUME Init PROVE IInv
    OBVIOUS
<1>1. /\ op = Down /\ op \in Ops
      /\ op.kind = "down" /\ op.todo = {} /\ op.at = "next"
    BY OpType DEF Init, Down, Op
<1>2. TypeOK
    <2>1. [l \in Lanes |-> FALSE] \in [Lanes -> BOOLEAN]
        OBVIOUS
    <2>2. /\ kill \in BOOLEAN /\ blocked \in [Lanes -> BOOLEAN] /\ resume \in [Lanes -> BOOLEAN]
          /\ pos \in [Lanes -> BOOLEAN] /\ posRec \in [Lanes -> BOOLEAN]
        BY <2>1, Zenon DEF Init
    <2>3. NoRecord \in Records
        BY DEF NoRecord, Records
    <2>4. /\ st \in [Lanes -> LaneStates] /\ snap \in [Bots -> LaneStates \cup {"none"}]
          /\ recs \in [Lanes -> Records] /\ faults \in 0..MaxFaults /\ crashes \in 0..MaxCrashes
        BY <2>3, LifecycleAssumption DEF Init, LaneStates
    <2>. QED  BY <1>1, <2>2, <2>4 DEF TypeOK
<1>3. Control /\ RunningLaneIsInSnapshot
    BY <1>1 DEF Init, Control, OpShape, StartChecked, LaneUnderReconciliation,
                NoKillAtStartup, DownIsBlank, BlockedLaneDoesNotRun, KillPending,
                RunningLaneIsInSnapshot, ReconcileKinds
<1>. QED  BY <1>2, <1>3 DEF IInv

\* The invariant is inductive.
THEOREM Invariance == Spec => []IInv
<1>1. IInv /\ [Next]_vars => IInv'
    BY TypeStep, ControlStep, SnapshotStep DEF IInv, Control
<1>. QED  BY InitIInv, <1>1, PTL DEF Spec

\* Every variable keeps its type, for any number of bots and lanes.
THEOREM TypeCorrect == Spec => []TypeOK
BY Invariance, PTL DEF IInv

\* No path of requests, failures, crashes and restarts lets a lane run whose
\* reconciliation left it blocked.
THEOREM BlockedLanesStayOut == Spec => []BlockedLaneDoesNotRun
BY Invariance, PTL DEF IInv, Control

\* With a journal that accepts its writes, set_kill_switch(true) leaves no lane
\* running.
THEOREM KillSwitchIsComplete == Spec => []KillSwitchPausesEveryLane
<1>1. IInv => KillSwitchPausesEveryLane
    BY DEF IInv, Control, KillPending, KillSwitchPausesEveryLane, Idle, Op
<1>. QED  BY <1>1, Invariance, PTL

\* With a journal that accepts its writes, a restart finds every running lane in
\* the snapshot of its bot.
THEOREM RunningLanesAreRemembered == Spec => []RunningLaneIsInSnapshot
BY Invariance, PTL DEF IInv

\* Under the kill switch no step, whatever it is and whatever fails in it, makes
\* a lane run that did not run before.
THEOREM KillSwitchHolds == Spec => NoLaneStartsUnderKillSwitch
<1> DEFINE Starts == kill /\ kill' => \A l \in Lanes : st'[l] = "running" => st[l] = "running"
<1>1. ASSUME IInv, [Next]_vars PROVE [Starts]_vars
    <2> SUFFICES ASSUME kill, kill', NEW m \in Lanes, st'[m] = "running", Next
                 PROVE  st[m] = "running"
        BY <1>1
    <2> USE LifecycleAssumption
    <2>1. TypeOK /\ op.kind \notin {"start", "resume", "startup", "down"}
        BY <1>1 DEF IInv, Control, StartChecked, NoKillAtStartup
    <2>2. CASE UNCHANGED st
        BY <2>2
    <2>3. ASSUME NEW l \in Lanes, NEW target \in LaneStates \ {"running"}, Transition(l, target)
          PROVE  st[m] = "running"
        BY <2>1, <2>3 DEF Transition, TypeOK
    <2>4. CASE Step
        <3>1. PICK l \in Lanes :
                 \/ TransitionInstance(l) \/ ReconcileStarted(l) \/ AssessReconciliation(l)
                 \/ FinalizeReconciliationResult(l) \/ AppendReconciliationRecord(l)
                 \/ MarkStartupReconciliationFailed(l)
            BY <2>4 DEF Step
        <3>2. ~MarkStartupReconciliationFailed(l)
            BY <1>1, <2>1, SMTT(30) DEF MarkStartupReconciliationFailed, IInv, Control, OpShape
        <3>3. \/ UNCHANGED st
              \/ \E target \in LaneStates \ {"running"} : Transition(l, target)
            BY <2>1, <3>1, <3>2, Zenon
               DEF TransitionInstance, ReconcileStarted, AssessReconciliation,
                   FinalizeReconciliationResult, AppendReconciliationRecord, TransitionFails,
                   memory, TargetState, ReconciledState, LaneStates, TransitionKinds
        <3>. QED  BY <2>2, <2>3, <3>3
    <2>5. CASE Request
        <3>1. UNCHANGED st
            BY <2>5, Zenon DEF Request, StartInstance, ResumeInstance, StopInstance, PauseInstance,
                        ReconcileInstance, SetKillSwitch, memory
        <3>. QED  BY <2>2, <3>1, SMTT(30)
    <2>6. CASE Trade
        BY <2>2, <2>6 DEF Trade, FillLane, CloseLanePosition
    <2>7. CASE Crash
        BY <2>7, SMTT(30) DEF Crash, Halt
    <2>8. CASE Boot \/ BootFails
        BY <2>1, <2>8 DEF Boot, BootFails, Down, Op
    <2>. QED  BY <2>4, <2>5, <2>6, <2>7, <2>8 DEF Next
<1>. QED  BY <1>1, Invariance, PTL DEF Spec, NoLaneStartsUnderKillSwitch

-----------------------------------------------------------------------------
(***************************************************************************)
(* Live bots.                                                              *)
(***************************************************************************)

\* If the running lanes of a vector of states are safely reconciled, a bot whose
\* aggregate is Running has all its lanes, its only lane, safely reconciled.
LEMMA LiveAggregate ==
    ASSUME NEW s, NEW l \in Lanes, BotOf[l] \in Live,
           \A m \in Lanes : BotOf[m] \in Live /\ s[m] = "running" => SafelyReconciled(m),
           AggregateBotState(s, BotOf[l]) = "running"
    PROVE  SafelyReconciled(l) /\ s[l] = "running"
<1>1. PICK m \in LanesOf(BotOf[l]) : s[m] = "running"
    BY DEF AggregateBotState
<1>2. m \in Lanes /\ BotOf[m] = BotOf[l] /\ SafelyReconciled(m)
    BY <1>1 DEF LanesOf
<1>3. l \in LanesOf(BotOf[m])
    BY <1>2 DEF LanesOf
<1>4. l = m
    BY <1>2, <1>3 DEF SafelyReconciled
<1>. QED  BY <1>1, <1>2, <1>4

\* The check of a live bot passes only if it has one lane, whose latest record is
\* a safe one (lifecycle.rs, ensure_live_reconciliation_ready).
LEMMA LiveReady ==
    ASSUME TypeOK, NEW b \in Live, EnsureLiveReconciliationReady(b), NEW l \in LanesOf(b)
    PROVE  SafelyReconciled(l)
<1>1. LatestReconciliationForLane(b, l).safe /\ LatestReconciliationForLane(b, l).source = "manual"
    BY DEF EnsureLiveReconciliationReady
<1>2. LaneInstanceId(l) = <<b>> /\ recs[l].safe
    BY <1>1 DEF LatestReconciliationForLane, NoRecord
<1>3. LanesOf(BotOf[l]) = {l}
    BY <1>2, SMTT(30) DEF LaneInstanceId
<1>. QED  BY <1>2, <1>3 DEF SafelyReconciled

\* What a transition may write to the snapshot of a live bot, whether or not the
\* event that follows fails.
LEMMA LiveTransition ==
    ASSUME TypeOK, LiveInv, NEW l \in Lanes, NEW target \in LaneStates,
           BotOf[l] \in Live /\ target = "running" => SafelyReconciled(l),
           UNCHANGED recs,
           \/ Transition(l, target)
           \/ TransitionFails(l, target)
    PROVE  \A m \in Lanes : BotOf[m] \in Live =>
              /\ st'[m] = "running" => SafelyReconciled(m)'
              /\ snap'[BotOf[m]] = "running" => SafelyReconciled(m)'
              /\ m = l /\ target # "running" /\ Transition(l, target) => snap'[BotOf[m]] # "running"
<1> DEFINE s == [st EXCEPT ![l] = target]
<1>1. \A m \in Lanes : BotOf[m] \in Live /\ s[m] = "running" => SafelyReconciled(m)
    BY DEF LiveInv, TypeOK
<1>2. s[l] = target
    BY DEF TypeOK
<1>3. st' = s \/ st' = st
    BY DEF Transition, TransitionFails
<1>4. \/ snap' = [snap EXCEPT ![BotOf[l]] = AggregateBotState(s, BotOf[l])]
      \/ snap' = snap /\ st' = st /\ ~Transition(l, target)
    BY DEF Transition, TransitionFails, PersistInstanceState
<1>5. \A m \in Lanes : SafelyReconciled(m)' <=> SafelyReconciled(m)
    BY DEF SafelyReconciled, LanesOf
<1> HIDE DEF s
<1> TAKE m \in Lanes
<1> HAVE BotOf[m] \in Live
<1>6. st'[m] = "running" => SafelyReconciled(m)'
    BY <1>1, <1>3, <1>5 DEF LiveInv
<1>7. CASE snap' = [snap EXCEPT ![BotOf[l]] = AggregateBotState(s, BotOf[l])]
    <2>1. CASE BotOf[m] = BotOf[l]
        <3>1. snap'[BotOf[m]] = AggregateBotState(s, BotOf[m])
            BY <1>7, <2>1, LifecycleAssumption DEF TypeOK
        <3>2. AggregateBotState(s, BotOf[m]) = "running" => SafelyReconciled(m) /\ s[m] = "running"
            BY <1>1, LiveAggregate, SMTT(30)
        <3>. QED  BY <1>2, <1>5, <1>6, <3>1, <3>2
    <2>2. CASE BotOf[m] # BotOf[l]
        BY <1>5, <1>6, <1>7, <2>2, LifecycleAssumption, ZenonT(30) DEF LiveInv, TypeOK
    <2>. QED  BY <2>1, <2>2
<1>8. CASE snap' = snap /\ st' = st /\ ~Transition(l, target)
    <2>1. snap[BotOf[m]] = "running" => SafelyReconciled(m)
        BY DEF LiveInv
    <2>. QED  BY <1>5, <1>6, <1>8, <2>1, Zenon
<1>. QED  BY <1>4, <1>7, <1>8

\* Every step keeps the invariant of the live bots.
LEMMA LiveStep == IInv /\ LiveInv /\ [Next]_vars => LiveInv'
<1> SUFFICES ASSUME IInv, LiveInv, [Next]_vars PROVE LiveInv'
    OBVIOUS
<1> USE LifecycleAssumption
<1>0. /\ TypeOK /\ OpShape
      /\ Idle.kind = "idle" /\ Idle.todo = {} /\ Idle.at = "next"
      /\ Down.kind = "down" /\ Down.todo = {} /\ Down.at = "next"
    BY DEF Idle, Down, Op, IInv, Control
<1>1. ASSUME UNCHANGED recs, NEW m \in Lanes
      PROVE  SafelyReconciled(m)' <=> SafelyReconciled(m)
    BY <1>1, SMTT(30) DEF SafelyReconciled, LanesOf
<1>2. ASSUME NEW b \in Bots,
             StartInstance(b) \/ ResumeInstance(b) \/ StopInstance(b) \/ PauseInstance(b)
                \/ ReconcileInstance(b)
      PROVE  LiveInv'
    <2>1. PICK k \in {"start", "resume", "stop", "pause", "manual"} :
             /\ op = Idle /\ Begin(k, LanesOf(b))
             /\ k \in {"start", "resume"} => MayRun(b)
             /\ UNCHANGED <<st, resume, snap, recs>>
        BY <1>2 DEF StartInstance, ResumeInstance, StopInstance, PauseInstance,
                    ReconcileInstance, memory, journal
    <2>2. LanesOf(b) \in SUBSET Lanes /\ \A l \in LanesOf(b) : BotOf[l] = b
        BY DEF LanesOf
    <2>3. /\ op'.at = "next" /\ op'.todo = LanesOf(b)
          /\ op' = Idle \/ op'.kind = k
        BY <2>1, <2>2, BeginFields DEF TransitionKinds, ReconcileKinds
    <2>4. ASSUME NEW l \in Lanes, BotOf[l] \in Live, op'.kind \in {"start", "resume"}, l \in op'.todo
          PROVE  SafelyReconciled(l)
        BY <1>0, <2>1, <2>2, <2>3, <2>4, LiveReady DEF MayRun
    <2>. QED  BY <1>0, <1>1, <2>1, <2>3, <2>4, ZenonT(30) DEF LiveInv
<1>3. ASSUME NEW active \in BOOLEAN, SetKillSwitch(active)
      PROVE  LiveInv'
    <2>1. op = Idle /\ UNCHANGED <<st, resume, snap, recs>>
        BY <1>3 DEF SetKillSwitch, journal
    <2>2. op'.at = "next" /\ op'.kind \in {"idle", "kill"}
        <3>1. CASE UNCHANGED op
            BY <1>0, <2>1, <3>1
        <3>2. CASE Begin("kill", IF active THEN RunningLanes ELSE {})
            BY <1>0, <3>2, BeginFields DEF RunningLanes, TransitionKinds
        <3>. QED  BY <1>3, <3>1, <3>2 DEF SetKillSwitch
    <2>. QED  BY <1>0, <1>1, <2>1, <2>2 DEF LiveInv
<1>4. ASSUME NEW l \in Lanes, TransitionInstance(l)
      PROVE  LiveInv'
    <2>1. /\ op.kind \in TransitionKinds /\ l \in op.todo /\ op.todo \in SUBSET Lanes
          /\ UNCHANGED <<resume, recs>>
        BY <1>0, <1>4 DEF TransitionInstance, TypeOK, Ops
    <2>2. /\ TargetState[op.kind] \in LaneStates
          /\ TargetState[op.kind] = "running" => op.kind \in {"start", "resume"}
        BY <2>1, SMTT(30) DEF TargetState, LaneStates
    <2>3. BotOf[l] \in Live /\ TargetState[op.kind] = "running" => SafelyReconciled(l)
        BY <2>1, <2>2 DEF LiveInv
    <2>4. Transition(l, TargetState[op.kind]) \/ TransitionFails(l, TargetState[op.kind])
        BY <1>4, SMTT(30) DEF TransitionInstance
    <2>5. \A m \in Lanes : BotOf[m] \in Live =>
              /\ st'[m] = "running" => SafelyReconciled(m)'
              /\ snap'[BotOf[m]] = "running" => SafelyReconciled(m)'
        <3> DEFINE target == TargetState[op.kind]
        <3>1. /\ target \in LaneStates /\ UNCHANGED recs
              /\ BotOf[l] \in Live /\ target = "running" => SafelyReconciled(l)
              /\ Transition(l, target) \/ TransitionFails(l, target)
            BY <2>1, <2>2, <2>3, <2>4, Zenon
        <3> HIDE DEF target
        <3>. QED  BY <1>0, <3>1, LiveTransition, Zenon
    <2>6. op'.at = "next" /\ (op' = Idle \/ (op'.kind = op.kind /\ op'.todo = op.todo \ {l}))
        BY <1>0, <1>4, <2>1, BeginFields, SMTT(30) DEF TransitionInstance, LaneDone
    <2>. QED  BY <1>0, <1>1, <2>1, <2>5, <2>6, Zenon DEF LiveInv, TransitionKinds
<1>5. ASSUME NEW l \in Lanes, ReconcileStarted(l)
      PROVE  LiveInv'
    <2>1. /\ op.kind \in ReconcileKinds /\ l \in op.todo /\ op.at = "next"
          /\ UNCHANGED <<resume, recs>>
        BY <1>5 DEF ReconcileStarted
    <2>2. \/ op' = Idle /\ op.kind = "manual"
          \/ op'.kind = op.kind /\ op'.todo = op.todo /\ op'.lane = l /\ op'.at \in {"assess", "failed"}
        <3>1. AtStep(l, "assess") \/ ReconcileError(l)
            BY <1>5 DEF ReconcileStarted
        <3>2. ReconcileError(l) /\ op.kind # "manual" => AtStep(l, "failed")
            BY DEF ReconcileError
        <3>3. ReconcileError(l) /\ op.kind = "manual" => op' = Idle
            BY DEF ReconcileError
        <3>. QED  BY <1>0, <3>1, <3>2, <3>3, AtStepFields
    <2>3. UNCHANGED <<st, snap>> \/ Transition(l, "reconciling") \/ TransitionFails(l, "reconciling")
        BY <1>5 DEF ReconcileStarted
    <2>4. \A m \in Lanes : BotOf[m] \in Live =>
              /\ st'[m] = "running" => SafelyReconciled(m)'
              /\ snap'[BotOf[m]] = "running" => SafelyReconciled(m)'
        <3>1. CASE UNCHANGED <<st, snap>>
            BY <1>1, <2>1, <3>1, SMTT(30) DEF LiveInv
        <3>2. CASE Transition(l, "reconciling") \/ TransitionFails(l, "reconciling")
            BY <1>0, <2>1, <3>2, LiveTransition, SMTT(30) DEF LaneStates
        <3>. QED  BY <2>3, <3>1, <3>2
    <2>. QED  BY <1>0, <1>1, <2>1, <2>2, <2>4, Zenon DEF LiveInv, ReconcileKinds
<1>6. ASSUME NEW l \in Lanes, AssessReconciliation(l)
      PROVE  LiveInv'
    <2>1. /\ op.at = "assess" /\ op.lane = l /\ op.kind \in ReconcileKinds /\ l \in op.todo
          /\ UNCHANGED <<st, resume, snap, recs>>
        BY <1>0, <1>6, ZenonT(30) DEF AssessReconciliation, OpShape, journal, LiveInv
    <2>2. \/ op' = Idle /\ op.kind = "manual"
          \/ op'.kind = op.kind /\ op'.todo = op.todo /\ op'.lane = l /\ op'.at \in {"finalize", "failed"}
        <3>1. CASE ReconcileError(l)
            BY <1>0, <2>1, <3>1, AtStepFields DEF ReconcileError
        <3>2. CASE \E safe \in BOOLEAN : op' = [op EXCEPT !.at = "finalize", !.safe = safe]
            BY <1>0, <2>1, <3>2 DEF TypeOK, Ops
        <3>. QED  BY <1>6, <3>1, <3>2, Zenon DEF AssessReconciliation
    <2>. QED  BY <1>0, <1>1, <2>1, <2>2, SMTT(30) DEF LiveInv, ReconcileKinds
<1>7. ASSUME NEW l \in Lanes, FinalizeReconciliationResult(l)
      PROVE  LiveInv'
    <2>1. /\ op.at = "finalize" /\ op.lane = l /\ op.kind \in ReconcileKinds /\ l \in op.todo
          /\ UNCHANGED recs
        BY <1>0, <1>7, ZenonT(30) DEF FinalizeReconciliationResult, OpShape, LiveInv
    <2>2. /\ ReconciledState(l) \in LaneStates
          /\ ReconciledState(l) = "running" => op.kind = "startup" /\ resume[l] /\ op.safe
        BY DEF ReconciledState, LaneStates
    <2>3. BotOf[l] \in Live /\ ReconciledState(l) = "running" => SafelyReconciled(l)
        BY <2>2 DEF LiveInv
    <2>4. Transition(l, ReconciledState(l)) \/ TransitionFails(l, ReconciledState(l))
        BY <1>7, SMTT(30) DEF FinalizeReconciliationResult
    <2>5. \A m \in Lanes : BotOf[m] \in Live =>
              /\ st'[m] = "running" => SafelyReconciled(m)'
              /\ snap'[BotOf[m]] = "running" => SafelyReconciled(m)'
              /\ m = l /\ ReconciledState(l) # "running" /\ Transition(l, ReconciledState(l))
                    => snap'[BotOf[m]] # "running"
        <3> DEFINE target == ReconciledState(l)
        <3>1. /\ TypeOK /\ UNCHANGED recs /\ target \in LaneStates
              /\ BotOf[l] \in Live /\ target = "running" => SafelyReconciled(l)
              /\ Transition(l, target) \/ TransitionFails(l, target)
            BY <1>0, <2>1, <2>2, <2>3, <2>4, Zenon
        <3> HIDE DEF target
        <3>2. \A m \in Lanes : BotOf[m] \in Live =>
                 /\ st'[m] = "running" => SafelyReconciled(m)'
                 /\ snap'[BotOf[m]] = "running" => SafelyReconciled(m)'
                 /\ m = l /\ target # "running" /\ Transition(l, target)
                       => snap'[BotOf[m]] # "running"
            BY <3>1, LiveTransition, ZenonT(30)
        <3>. QED  BY <3>2, Zenon DEF target
    <2>6. CASE TransitionFails(l, ReconciledState(l)) /\ ReconcileError(l) /\ UNCHANGED resume
        <3>1. \/ op' = Idle /\ op.kind = "manual"
              \/ op'.kind = op.kind /\ op'.todo = op.todo /\ op'.lane = l /\ op'.at = "failed"
            BY <1>0, <2>1, <2>6, AtStepFields, SMTT(30) DEF ReconcileError
        <3>. QED  BY <1>0, <1>1, <2>1, <2>5, <2>6, <3>1, ZenonT(30) DEF LiveInv, ReconcileKinds
    <2>7. CASE /\ Transition(l, ReconciledState(l))
               /\ resume' = [resume EXCEPT ![l] = @ /\ op.kind # "startup"]
               /\ AtStep(l, "record")
        <3>1. /\ op'.kind = op.kind /\ op'.todo = op.todo /\ op'.lane = l /\ op'.at = "record"
              /\ op'.safe = op.safe
            BY <1>0, <2>7, AtStepFields, ZenonT(30)
        <3>2. \A m \in Lanes : resume'[m] => resume[m] /\ (m = l => op.kind # "startup")
            BY <1>0, <2>7, Zenon DEF TypeOK
        <3>3. \A m \in Lanes : BotOf[m] \in Live =>
                 /\ resume'[m] => SafelyReconciled(m)' /\ op'.kind = "startup" /\ m \in op'.todo
                 /\ m = l => ~resume'[m]
            BY <1>1, <2>1, <3>1, <3>2 DEF LiveInv
        <3>4. st'[l] = ReconciledState(l)
            BY <1>0, <2>7 DEF Transition, TypeOK
        <3>. QED  BY <2>1, <2>2, <2>5, <2>7, <3>1, <3>3, <3>4, Zenon DEF LiveInv, ReconcileKinds
    <2>. QED  BY <1>7, <2>6, <2>7, SMTT(30) DEF FinalizeReconciliationResult
<1>8. ASSUME NEW l \in Lanes, AppendReconciliationRecord(l)
      PROVE  LiveInv'
    <2>1. /\ op.at = "record" /\ op.lane = l /\ op.kind \in ReconcileKinds /\ l \in op.todo
          /\ op.todo \in SUBSET Lanes /\ op.safe \in BOOLEAN /\ UNCHANGED <<st, resume, snap>>
        BY <1>0, <1>8, ZenonT(30)
           DEF AppendReconciliationRecord, OpShape, LiveInv, memory, TypeOK, Ops
    <2>2. \/ recs' = recs
          \/ recs' = [recs EXCEPT ![l] = [source |-> op.kind, safe |-> op.safe]]
        BY <1>8, SMTT(30) DEF AppendReconciliationRecord
    <2>3. \A m \in Lanes : SafelyReconciled(m) /\ (m = l => op.safe) => SafelyReconciled(m)'
        BY <1>0, <2>1, <2>2 DEF SafelyReconciled, LanesOf, TypeOK
    <2>4. \/ op' = Idle
          \/ /\ op'.kind = op.kind
             /\ \/ op'.at = "failed" /\ op'.lane = l /\ op'.todo = op.todo /\ op.kind = "startup"
                \/ op'.at = "next" /\ op'.todo = op.todo \ {l}
        <3>1. CASE ReconcileError(l)
            BY <1>0, <2>1, <3>1, ReconcileErrorFields
        <3>2. CASE LaneDone(l)
            BY <1>0, <2>1, <3>2, BeginFields DEF LaneDone
        <3>. QED  BY <1>8, <3>1, <3>2 DEF AppendReconciliationRecord
    <2>5. op' = Idle => op.kind = "manual" \/ op.todo = {l}
        <3>1. CASE ReconcileError(l) /\ op.kind # "manual"
            BY <1>0, <3>1, AtStepFields DEF ReconcileError
        <3>2. CASE LaneDone(l)
            BY <1>0, <2>1, <3>2, OpFields, SMTT(30) DEF LaneDone, Begin, ReconcileKinds
        <3>. QED  BY <1>8, <3>1, <3>2 DEF AppendReconciliationRecord
    <2>7. \A m \in Lanes : BotOf[m] \in Live =>
              /\ st'[m] = "running" => SafelyReconciled(m)'
              /\ snap'[BotOf[m]] = "running" => SafelyReconciled(m)'
        BY <2>1, <2>3 DEF LiveInv
    <2>8. \A m \in Lanes : BotOf[m] \in Live /\ resume'[m] =>
              SafelyReconciled(m)' /\ op.kind = "startup" /\ m \in op.todo /\ m # l
        BY <2>1, <2>3 DEF LiveInv
    <2>9. op'.at # "next" => op'.lane \in op'.todo
        BY <1>0, <2>1, <2>4
    <2>10. op'.kind \notin {"start", "resume"} /\ op'.at # "record"
        BY <1>0, <2>1, <2>4 DEF ReconcileKinds
    <2>11. \A m \in Lanes : BotOf[m] \in Live /\ resume'[m] => op'.kind = "startup" /\ m \in op'.todo
        BY <1>0, <2>4, <2>5, <2>8, SMTT(30)
    <2>. QED  BY <2>7, <2>8, <2>9, <2>10, <2>11, SMTT(30) DEF LiveInv
<1>9. ASSUME Halt, UNCHANGED recs,
             \A m \in Lanes : BotOf[m] \in Live /\ snap'[BotOf[m]] = "running" => SafelyReconciled(m)
      PROVE  LiveInv'
    <2>1. /\ op'.at = "next" /\ op'.kind \notin {"start", "resume"}
          /\ \A m \in Lanes : st'[m] # "running" /\ ~resume'[m]
        BY <1>0, <1>9 DEF Halt
    <2>2. \A m \in Lanes : SafelyReconciled(m) => SafelyReconciled(m)'
        BY <1>9, Zenon DEF SafelyReconciled, LanesOf
    <2>. QED  BY <1>9, <2>1, <2>2, SMTT(30) DEF LiveInv
<1>10. CASE Crash
    BY <1>9, <1>10, Zenon DEF Crash, journal, LiveInv
<1>11. ASSUME NEW l \in Lanes, MarkStartupReconciliationFailed(l)
       PROVE  LiveInv'
    <2> DEFINE s == [st EXCEPT ![l] = "paused"]
    <2>1. /\ op.at = "failed" /\ op.lane = l /\ op.kind = "startup" /\ l \in op.todo
          /\ op.todo \in SUBSET Lanes /\ UNCHANGED recs
        BY <1>0, <1>11, ZenonT(30) DEF MarkStartupReconciliationFailed, OpShape, LiveInv, TypeOK, Ops
    <2>2. UNCHANGED snap \/ PersistInstanceState(s, BotOf[l])
        BY <1>11, ZenonT(30) DEF MarkStartupReconciliationFailed
    <2>3. \A m \in Lanes : BotOf[m] \in Live /\ s[m] = "running" => SafelyReconciled(m)
        BY <1>0, Zenon DEF LiveInv, TypeOK
    <2> HIDE DEF s
    <2>4. \A m \in Lanes : BotOf[m] \in Live /\ snap'[BotOf[m]] = "running" => SafelyReconciled(m)
        <3>1. CASE UNCHANGED snap
            BY <3>1 DEF LiveInv
        <3>2. CASE PersistInstanceState(s, BotOf[l])
            <4> TAKE m \in Lanes
            <4> HAVE BotOf[m] \in Live /\ snap'[BotOf[m]] = "running"
            <4>1. CASE BotOf[m] = BotOf[l]
                <5>1. AggregateBotState(s, BotOf[m]) = "running"
                    BY <1>0, <3>2, <4>1, SMTT(30) DEF PersistInstanceState, TypeOK
                <5>. QED  BY <2>3, <5>1, LiveAggregate
            <4>2. CASE BotOf[m] # BotOf[l]
                BY <1>0, <3>2, <4>2, Zenon DEF PersistInstanceState, TypeOK, LiveInv
            <4>. QED  BY <4>1, <4>2
        <3>. QED  BY <2>2, <3>1, <3>2
    <2>5. CASE ~Halt
        <3>1. st' = s /\ resume' = [resume EXCEPT ![l] = FALSE] /\ LaneDone(l)
            BY <1>11, <2>5, Zenon DEF MarkStartupReconciliationFailed, s
        <3>2. \/ op' = Idle /\ op.todo = {l}
              \/ op'.kind = "startup" /\ op'.at = "next" /\ op'.todo = op.todo \ {l}
            <4>1. CASE op.todo \ {l} = {}
                <5>1. op.todo = {l}
                    BY <2>1, <4>1
                <5>2. op' = Idle
                    BY <3>1, <4>1, Zenon DEF LaneDone, Begin
                <5>. QED  BY <5>1, <5>2, Zenon
            <4>2. CASE op.todo \ {l} # {}
                <5> DEFINE next == Op("startup", op.todo \ {l})
                <5>1. op' = next
                    BY <2>1, <3>1, <4>2, Zenon DEF LaneDone, Begin
                <5>2. next.kind = "startup" /\ next.at = "next" /\ next.todo = op.todo \ {l}
                    BY OpFields
                <5> HIDE DEF next
                <5>. QED  BY <5>1, <5>2, Zenon
            <4>. QED  BY <4>1, <4>2, Zenon
        <3>3. \A m \in Lanes : resume'[m] => resume[m] /\ m # l
            BY <1>0, <3>1, Zenon DEF TypeOK
        <3>. QED  BY <1>0, <1>1, <2>1, <2>3, <2>4, <3>1, <3>2, <3>3, Zenon DEF LiveInv
    <2>. QED  BY <1>9, <2>1, <2>4, <2>5, SMTT(30)
<1>12. \A m \in Lanes : BotOf[m] \in Live /\ BootState[m] = "running" => SafelyReconciled(m)
    BY <1>0 DEF BootState, ResolvedInstanceState, RecoverLaneState, LiveInv
<1>13. \A m \in Lanes : BotOf[m] \in Live /\ AggregateBotState(BootState, BotOf[m]) = "running"
                           => SafelyReconciled(m)
    BY <1>12, LiveAggregate, SMTT(30)
<1>14. CASE Boot
    <2>1. /\ st' = BootState /\ UNCHANGED recs
          /\ snap' = [b \in Bots |-> AggregateBotState(BootState, b)]
          /\ \A m \in Lanes : resume'[m] <=> ResumeAfterStartupReconcile(BotOf[m])
          /\ Begin("startup", PendingLanes) /\ PendingLanes \in SUBSET Lanes
        BY <1>14, SMTT(30) DEF Boot, PendingLanes
    <2>2. /\ op'.at = "next" /\ op'.todo = PendingLanes
          /\ op' = Idle \/ op'.kind = "startup"
          /\ PendingLanes # {} => op'.kind = "startup"
        BY <2>1, BeginFields, OpFields, ZenonT(30) DEF Begin, ReconcileKinds
    <2>3. \A m \in Lanes : resume'[m] => snap[BotOf[m]] = "running" /\ m \in PendingLanes
        BY <2>1 DEF ResumeAfterStartupReconcile, PendingLanes, BootState, ResolvedInstanceState,
                    RecoverLaneState
    <2>. QED  BY <1>0, <1>1, <1>12, <1>13, <2>1, <2>2, <2>3, ZenonT(30) DEF LiveInv
<1>15. CASE BootFails
    <2>1. UNCHANGED <<st, resume, op, recs>> /\ op = Down
        BY <1>15, Zenon DEF BootFails, memory
    <2>2. \A m \in Lanes : BotOf[m] \in Live /\ snap'[BotOf[m]] = "running" => SafelyReconciled(m)
        <3>1. PICK written \in SUBSET Bots :
                 snap' = [b \in Bots |-> IF b \in written THEN AggregateBotState(BootState, b)
                                         ELSE snap[b]]
            BY <1>15, Zenon DEF BootFails
        <3>2. \A m \in Lanes : \/ snap'[BotOf[m]] = AggregateBotState(BootState, BotOf[m])
                               \/ snap'[BotOf[m]] = snap[BotOf[m]]
            <4>1. \A m \in Lanes : BotOf[m] \in Bots
                BY LifecycleAssumption, Zenon
            <4>. QED  BY <3>1, <4>1, Zenon
        <3>3. \A m \in Lanes : BotOf[m] \in Live /\ snap[BotOf[m]] = "running" => SafelyReconciled(m)
            BY Zenon DEF LiveInv
        <3>. QED  BY <1>13, <3>2, <3>3, Zenon
    <2>. QED  BY <1>0, <1>1, <2>1, <2>2, ZenonT(30) DEF LiveInv
<1>16. ASSUME NEW l \in Lanes, NEW q \in BOOLEAN, FillLane(l, q) \/ CloseLanePosition(l, q)
       PROVE  LiveInv'
    <2>1. UNCHANGED <<st, resume, op, snap, recs>>
        BY <1>16, SMTT(30) DEF FillLane, CloseLanePosition
    <2>. QED  BY <1>1, <2>1, ZenonT(30) DEF LiveInv
<1>17. CASE UNCHANGED vars
    BY <1>1, <1>17 DEF vars, LiveInv
<1>. QED  BY <1>2, <1>3, <1>4, <1>5, <1>6, <1>7, <1>8, <1>10, <1>11, <1>14, <1>15, <1>16, <1>17
          DEF Next, Step, Request, Trade

\* Nothing is remembered of a lane of a live bot before the first start.
LEMMA LiveInit == Init => LiveInv
<1> SUFFICES ASSUME Init PROVE LiveInv
    OBVIOUS
<1>1. op.at = "next" /\ op.kind = "down" /\ \A l \in Lanes : st[l] = "stopped" /\ ~resume[l]
    BY DEF Init, Down, Op
<1>2. \A l \in Lanes : snap[BotOf[l]] = "none"
    BY LifecycleAssumption DEF Init
<1>. QED  BY <1>1, <1>2 DEF LiveInv

\* A lane of a live bot runs only while its latest reconciliation record is safe,
\* for any number of bots and lanes, whatever fails and wherever it crashes.
THEOREM LiveLanesAreReconciled == Spec => []LiveLaneRunsReconciled
<1>1. LiveInv => LiveLaneRunsReconciled
    BY DEF LiveInv, LiveLaneRunsReconciled, SafelyReconciled
<1>. QED  BY <1>1, LiveInit, LiveStep, Invariance, PTL DEF Spec

\* No step of the service leaves RestoreInv.
LEMMA RestoreStep == IInv /\ LiveInv /\ RestoreInv /\ [Next]_vars => RestoreInv'
<1> SUFFICES ASSUME IInv, LiveInv, RestoreInv, [Next]_vars PROVE RestoreInv'
    OBVIOUS
<1> TypeOK /\ OpShape
    BY DEF IInv, Control
<1>0. /\ Idle.kind = "idle" /\ Down.kind = "down" /\ Down.todo = {}
      /\ op.todo \in SUBSET Lanes
    BY DEF Idle, Down, Op, TypeOK, Ops
<1>1. ASSUME op'.kind \notin {"down", "startup"} PROVE RestoreInv'
    BY <1>1 DEF RestoreInv
<1>2. ASSUME NEW l \in Lanes, LaneDone(l), op.kind \in TransitionKinds \cup ReconcileKinds
      PROVE  op'.at = "next" /\ op'.todo = op.todo \ {l} /\ (op' = Idle \/ op'.kind = op.kind)
    <2>1. op.todo \ {l} \in SUBSET Lanes
        BY <1>0
    <2>. QED  BY <1>2, <2>1, BeginFields DEF LaneDone
<1>3. ASSUME NEW l \in Lanes, op.kind \in ReconcileKinds, op.lane = l \/ op.at = "next",
             ReconcileError(l), \A m \in Lanes \ {l} : pos'[m] = pos[m]
      PROVE  RestoreInv'
    <2>1. CASE op' = Idle
        BY <1>0, <1>1, <2>1
    <2>2. CASE /\ op.kind = "startup" /\ op'.kind = op.kind /\ op'.todo = op.todo
               /\ op'.lane = l /\ op'.at = "failed"
        BY <1>0, <1>3, <2>2 DEF RestoreInv
    <2>. QED  BY <1>3, <2>1, <2>2, ReconcileErrorFields
<1>4. ASSUME NEW b \in Bots,
             StartInstance(b) \/ ResumeInstance(b) \/ StopInstance(b) \/ PauseInstance(b)
                \/ ReconcileInstance(b)
      PROVE  RestoreInv'
    <2>1. PICK k \in {"start", "resume", "stop", "pause", "manual"} : Begin(k, LanesOf(b))
        BY <1>4 DEF StartInstance, ResumeInstance, StopInstance, PauseInstance,
                    ReconcileInstance
    <2>2. op' = Idle \/ op'.kind = k
        BY <2>1, BeginFields DEF TransitionKinds, ReconcileKinds, LanesOf
    <2>. QED  BY <1>0, <1>1, <2>2
<1>5. ASSUME NEW active \in BOOLEAN, SetKillSwitch(active) PROVE RestoreInv'
    <2>1. op' = Idle \/ op'.kind = "kill"
        BY <1>5, BeginFields DEF SetKillSwitch, RunningLanes, TransitionKinds
    <2>. QED  BY <1>0, <1>1, <2>1
<1>6. ASSUME NEW l \in Lanes, TransitionInstance(l) PROVE RestoreInv'
    <2>1. op.kind \in TransitionKinds /\ (LaneDone(l) \/ op' = Idle)
        BY <1>6 DEF TransitionInstance
    <2>2. op' = Idle \/ op'.kind = op.kind
        BY <1>2, <2>1
    <2>. QED  BY <1>0, <1>1, <2>1, <2>2 DEF TransitionKinds
<1>7. ASSUME NEW l \in Lanes, ReconcileStarted(l) PROVE RestoreInv'
    <2>1. op.kind \in ReconcileKinds /\ op.at = "next" /\ UNCHANGED <<pos, posRec>>
        BY <1>7 DEF ReconcileStarted
    <2>2. CASE AtStep(l, "assess")
        <3>1. op'.kind = op.kind /\ op'.todo = op.todo /\ op'.lane = l /\ op'.at = "assess"
            BY <2>2, AtStepFields
        <3>. QED  BY <2>1, <3>1 DEF RestoreInv, ReconcileKinds
    <2>3. CASE ReconcileError(l)
        BY <1>3, <2>1, <2>3
    <2>. QED  BY <1>7, <2>2, <2>3 DEF ReconcileStarted
<1>8. ASSUME NEW l \in Lanes, AssessReconciliation(l) PROVE RestoreInv'
    <2>1. op.kind \in ReconcileKinds /\ op.at = "assess" /\ op.lane = l /\ UNCHANGED posRec
        BY <1>8, ZenonT(30) DEF AssessReconciliation, OpShape, journal
    <2>2. pos \in [Lanes -> BOOLEAN] /\ posRec \in [Lanes -> BOOLEAN]
        BY DEF TypeOK
    <2>3. /\ pos' = pos \/ pos' = [pos EXCEPT ![l] = @ \/ posRec[l]]
          /\ \A m \in Lanes \ {l} : pos'[m] = pos[m]
        BY <1>8, <2>2, ZenonT(30) DEF AssessReconciliation, ApplyReconciliationAssessmentState
    <2>4. CASE ReconcileError(l)
        BY <1>3, <2>1, <2>3, <2>4
    <2>5. CASE /\ pos' = [pos EXCEPT ![l] = @ \/ posRec[l]]
               /\ \E safe \in BOOLEAN : op' = [op EXCEPT !.at = "finalize", !.safe = safe]
        <3>1. op'.kind = op.kind /\ op'.todo = op.todo /\ op'.lane = l /\ op'.at = "finalize"
            BY <2>1, <2>5, Zenon DEF TypeOK, Ops
        <3>2. CASE op.kind # "startup"
            BY <1>1, <2>1, <3>1, <3>2, ZenonT(30) DEF ReconcileKinds
        <3>3. CASE op.kind = "startup" /\ l \in op.todo
            <4>1. ~pos[l]
                BY <2>1, <3>3 DEF RestoreInv
            <4>2. pos'[l] = posRec[l]
                BY <2>2, <2>5, <4>1
            <4>. QED  BY <1>0, <2>1, <2>3, <3>1, <3>3, <4>2, ZenonT(30) DEF RestoreInv
        <3>. QED  BY <2>1, <3>2, <3>3 DEF LiveInv
    <2>. QED  BY <1>8, <2>4, <2>5, ZenonT(30)
                 DEF AssessReconciliation, ApplyReconciliationAssessmentState
<1>9. ASSUME NEW l \in Lanes, FinalizeReconciliationResult(l) PROVE RestoreInv'
    <2>1. /\ op.kind \in ReconcileKinds /\ op.at = "finalize" /\ op.lane = l
          /\ UNCHANGED <<pos, posRec>>
        BY <1>9, ZenonT(30) DEF FinalizeReconciliationResult, OpShape
    <2>2. CASE AtStep(l, "record")
        <3>1. op'.kind = op.kind /\ op'.todo = op.todo /\ op'.lane = l /\ op'.at = "record"
            BY <2>2, AtStepFields
        <3>. QED  BY <2>1, <3>1 DEF RestoreInv, ReconcileKinds
    <2>3. CASE ReconcileError(l)
        BY <1>3, <2>1, <2>3
    <2>. QED  BY <1>9, <2>2, <2>3 DEF FinalizeReconciliationResult
<1>10. ASSUME NEW l \in Lanes, AppendReconciliationRecord(l) PROVE RestoreInv'
    <2>1. /\ op.kind \in ReconcileKinds /\ op.at = "record" /\ op.lane = l
          /\ UNCHANGED <<pos, posRec>>
        BY <1>10 DEF AppendReconciliationRecord, OpShape, memory
    <2>2. CASE LaneDone(l)
        BY <1>0, <1>2, <2>1, <2>2 DEF RestoreInv, ReconcileKinds
    <2>3. CASE ReconcileError(l)
        BY <1>3, <2>1, <2>3
    <2>. QED  BY <1>10, <2>2, <2>3 DEF AppendReconciliationRecord
<1>11. ASSUME Halt PROVE RestoreInv'
    BY <1>0, <1>11, ZenonT(30) DEF Halt, RestoreInv
<1>12. ASSUME NEW l \in Lanes, MarkStartupReconciliationFailed(l) PROVE RestoreInv'
    <2>1. op.kind = "startup" /\ op.at = "failed" /\ op.lane = l /\ UNCHANGED posRec
        BY <1>12 DEF MarkStartupReconciliationFailed, OpShape
    <2>2. CASE LaneDone(l) /\ UNCHANGED pos
        BY <1>0, <1>2, <2>1, <2>2 DEF RestoreInv, ReconcileKinds
    <2>. QED  BY <1>11, <1>12, <2>2 DEF MarkStartupReconciliationFailed
<1>13. CASE Boot
    <2>1. op = Down /\ Begin("startup", PendingLanes) /\ UNCHANGED pos
        BY <1>13, ZenonT(30) DEF Boot
    <2>2. op'.at = "next" /\ op'.todo = PendingLanes /\ (op' = Idle \/ op'.kind = "startup")
        BY <2>1, BeginFields DEF ReconcileKinds, PendingLanes
    <2>3. PendingLanes \subseteq Lanes
        BY DEF PendingLanes
    <2>. QED  BY <1>0, <2>1, <2>2, <2>3 DEF RestoreInv
<1>14. CASE BootFails
    BY <1>14 DEF BootFails, RestoreInv, memory
<1>15. ASSUME NEW l \in Lanes, NEW q \in BOOLEAN, FillLane(l, q) \/ CloseLanePosition(l, q)
       PROVE  RestoreInv'
    <2>1. op' = Idle
        BY <1>15 DEF FillLane, CloseLanePosition
    <2>. QED  BY <1>0, <1>1, <2>1
<1>16. CASE Crash
    BY <1>11, <1>16 DEF Crash
<1>17. CASE UNCHANGED vars
    BY <1>17, ZenonT(30) DEF vars, RestoreInv
<1>. QED  BY <1>4, <1>5, <1>6, <1>7, <1>8, <1>9, <1>10, <1>12, <1>13, <1>14, <1>15, <1>16, <1>17
          DEF Next, Step, Request, Trade

\* A lane that the startup reconciliation lets run again has the position the journal
\* last recorded for it, whatever else fails: any number of bots and lanes.
THEOREM ResumeRestoresPosition == Spec => StartupResumeRestoresPosition
<1> DEFINE Restores == op.kind = "startup" =>
               \A l \in Lanes : st[l] # "running" /\ st'[l] = "running" => pos'[l] = posRec'[l]
<1>1. Init => RestoreInv
    <2> SUFFICES ASSUME Init PROVE RestoreInv
        OBVIOUS
    <2>1. op.kind = "down"
        BY DEF Init, Down, Op
    <2>. QED  BY <2>1 DEF Init, RestoreInv
<1>2. IInv /\ RestoreInv /\ [Next]_vars => Restores
    <2> SUFFICES ASSUME IInv, RestoreInv, [Next]_vars, op.kind = "startup",
                        NEW l \in Lanes, st[l] # "running", st'[l] = "running"
                 PROVE  pos'[l] = posRec'[l]
        OBVIOUS
    <2>0. TypeOK /\ OpShape /\ st \in [Lanes -> LaneStates]
        BY DEF IInv, Control, TypeOK
    <2>1. op # Idle /\ op # Down
        BY DEF Idle, Down, Op
    <2>2. ASSUME NEW m \in Lanes, FinalizeReconciliationResult(m) PROVE pos'[l] = posRec'[l]
        <3>1. op.at = "finalize" /\ op.lane = m /\ UNCHANGED <<pos, posRec>>
            BY <2>2 DEF FinalizeReconciliationResult
        <3>2. st' = st \/ st' = [st EXCEPT ![m] = ReconciledState(m)]
            BY <2>2, ZenonT(30) DEF FinalizeReconciliationResult, Transition, TransitionFails
        <3>3. l = m
            BY <2>0, <3>2
        <3>. QED  BY <3>1, <3>3 DEF RestoreInv
    <2>3. ASSUME NEW m \in Lanes, ReconcileStarted(m) \/ MarkStartupReconciliationFailed(m)
          PROVE  FALSE
        <3>1. \/ UNCHANGED st
              \/ st' = [st EXCEPT ![m] = "reconciling"] \/ st' = [st EXCEPT ![m] = "paused"]
              \/ st' = [k \in Lanes |-> "stopped"]
            BY <2>3, ZenonT(30) DEF ReconcileStarted, MarkStartupReconciliationFailed, Transition,
                        TransitionFails, Halt
        <3>. QED  BY <2>0, <3>1
    <2>4. ASSUME NEW m \in Lanes,
                 TransitionInstance(m) \/ AssessReconciliation(m) \/ AppendReconciliationRecord(m)
          PROVE  FALSE
        BY <2>4, ZenonT(30) DEF TransitionInstance, TransitionKinds, AssessReconciliation,
                    AppendReconciliationRecord, memory
    <2>5. CASE Crash
        BY <2>5 DEF Crash, Halt
    <2>6. CASE Request \/ Trade \/ Boot \/ BootFails
        BY <2>1, <2>6, ZenonT(30)
           DEF Request, StartInstance, ResumeInstance, StopInstance, PauseInstance,
                      ReconcileInstance, SetKillSwitch, Trade, FillLane, CloseLanePosition,
                      Boot, BootFails
    <2>7. CASE UNCHANGED vars
        BY <2>7 DEF vars
    <2>. QED  BY <2>2, <2>3, <2>4, <2>5, <2>6, <2>7, ZenonT(30) DEF Next, Step
<1>3. Spec => [](IInv /\ LiveInv /\ RestoreInv)
    BY <1>1, LiveInit, LiveStep, RestoreStep, Invariance, PTL DEF Spec
<1>. QED  BY <1>2, <1>3, PTL DEF Spec, StartupResumeRestoresPosition
=============================================================================
