--------------------------- MODULE RolloutProofs ---------------------------
(***************************************************************************)
(* Theorems about one rollout, for every plan, cohort, policy and bound     *)
(* that PlanAssumption and EnvironmentAssumption admit: its types, and its  *)
(* bookkeeping of attempts.                                                 *)
(***************************************************************************)
EXTENDS RolloutSafety, FiniteSetTheorems, TLAPS

-----------------------------------------------------------------------------
LEMMA Bounds ==
  /\ NumStages \in Nat \ {0} /\ MaxGeneration \in Nat \ {0}
  /\ Stages = 1..NumStages
  /\ IsFiniteSet(Targets)
BY PlanAssumption, EnvironmentAssumption
   DEF PlanAssumption, EnvironmentAssumption, Stages

(* The lifecycle tables.                                                    *)

LEMMA RolloutStatesAre ==
  RolloutStates = {"Created", "Validated", "Armed", "Running", "Gated", "Soaking",
                   "Advancing", "Paused", "Aborting", "RollingBack", "Failed",
                   "Completed", "Retired"}
BY DEF RolloutStates, RolloutSuccessors

LEMMA StageStatesAre ==
  StageStates = {"Pending", "Blocked", "Armed", "Running", "Gated", "Soaking",
                 "Advancing", "Succeeded", "Failed", "Aborted", "RolledBack",
                 "Skipped"}
BY DEF StageStates, StageSuccessors

LEMMA TargetStatesAre ==
  TargetStates = {"Pending", "Dispatched", "Unknown", "Succeeded", "Failed",
                  "Cancelled", "RollingBack", "RolledBack", "RollbackFailed",
                  "Exhausted"}
BY DEF TargetStates, TargetSuccessors

-----------------------------------------------------------------------------
(* Cells, the planner and the steps that handlers share.                    *)

LEMMA CellsFinite ==
  /\ IsFiniteSet(Cells)
  /\ \A c \in Cells : c[1] \in Stages /\ c[2] \in Targets /\ c = <<c[1], c[2]>>
<1>1. IsFiniteSet(Stages)
  BY Bounds, FS_Interval
<1>2. IsFiniteSet(Stages \X Targets)
  BY <1>1, Bounds, FS_Product
<1>3. IsFiniteSet(Cells)
  BY <1>2, FS_Subset DEF Cells
<1>4. \A c \in Cells : c[1] \in Stages /\ c[2] \in Targets /\ c = <<c[1], c[2]>>
  BY DEF Cells
<1> QED  BY <1>3, <1>4

LEMMA PartOfCellsIsCounted ==
  ASSUME NEW S \in SUBSET Cells
  PROVE  IsFiniteSet(S) /\ Cardinality(S) \in Nat
BY CellsFinite, FS_Subset, FS_CardinalityType

(* plan_dispatch admits only pending targets of the stage it plans for.     *)
LEMMA PlanStaysInStage ==
  ASSUME NEW ts, NEW made, NEW cleared, NEW s
  PROVE  PlanDispatch(ts, made, cleared, s) \subseteq {c \in StageCells(s) : ts[c] = "Pending"}
<1> DEFINE eligible == {c \in StageCells(s) : /\ ts[c] = "Pending"
                                              /\ BlastRadiusAdmits(ts, s, c[2])}
<1>1. eligible \subseteq {c \in StageCells(s) : ts[c] = "Pending"}
  OBVIOUS
<1> HIDE DEF eligible
<1>2. CanaryAdmits(eligible, s, made, cleared) \subseteq eligible
  BY DEF CanaryAdmits, FirstOf
<1>3. PlanDispatch(ts, made, cleared, s) \subseteq CanaryAdmits(eligible, s, made, cleared)
  BY DEF PlanDispatch, FirstOf, eligible
<1> QED  BY <1>1, <1>2, <1>3

LEMMA MovedType ==
  ASSUME rolloutState \in RolloutStates, NEW to \in RolloutStates
  PROVE  Moved(to) \in RolloutStates
BY DEF Moved

(* An attempt that a dispatch creates is the next epoch of its target.      *)
LEMMA DispatchType ==
  ASSUME TypeOK, NEW accepted \in SUBSET Cells, Dispatch(accepted)
  PROVE  /\ Cardinality(accepted) \in Nat
         /\ attemptsMade' \in [Cells -> Nat]
         /\ dispatchedTotal' \in [Stages -> Nat]
         /\ issued' \subseteq Attempts
<1>1. Cardinality(accepted) \in Nat
  BY PartOfCellsIsCounted
<1>2. attemptsMade' \in [Cells -> Nat]
  BY DEF Dispatch, TypeOK
<1>3. \A s \in Stages : Cardinality(accepted \cap StageCells(s)) \in Nat
  BY PartOfCellsIsCounted
<1>4. dispatchedTotal' \in [Stages -> Nat]
  <2>1. \A s \in Stages :
          dispatchedTotal[s] + Cardinality(accepted \cap StageCells(s)) \in Nat
    <3> TAKE s \in Stages
    <3>1. dispatchedTotal[s] \in Nat
      BY DEF TypeOK
    <3>2. Cardinality(accepted \cap StageCells(s)) \in Nat
      BY <1>3
    <3> QED  BY <3>1, <3>2
  <2>2. dispatchedTotal' = [s \in Stages |->
          dispatchedTotal[s] + Cardinality(accepted \cap StageCells(s))]
    BY DEF Dispatch
  <2> QED  BY <2>1, <2>2, Zenon
<1>5. \A c \in accepted :
        [gen |-> generation, cell |-> c, epoch |-> attemptsMade[c] + 1] \in Attempts
  BY DEF TypeOK, Attempts
<1>6. issued' \subseteq Attempts
  BY <1>5 DEF Dispatch, TypeOK
<1> QED  BY <1>1, <1>2, <1>4, <1>6

LEMMA OutstandingType ==
  ASSUME TypeOK, NEW finished, IsFiniteSet(finished)
  PROVE  OutstandingAfter(finished) \in Nat
<1>1. Cardinality(finished) \in Nat
  BY FS_CardinalityType
<1> QED  BY <1>1 DEF OutstandingAfter, TypeOK

LEMMA FinishType ==
  ASSUME TypeOK, NEW finished, IsFiniteSet(finished), Finish(finished)
  PROVE  outstanding' \in Nat /\ open' \subseteq Attempts /\ overdue' \subseteq Attempts
BY OutstandingType DEF Finish, TypeOK

LEMMA SweepType ==
  ASSUME TypeOK, NEW s \in Stages
  PROVE  /\ Swept(s) \in [Cells -> TargetStates]
         /\ IsFiniteSet(ExpiredAttempts(s))
<1>1. \A c \in Cells : RetryOrExhaust(c) \in TargetStates
  BY TargetStatesAre DEF RetryOrExhaust
<1>2. Swept(s) \in [Cells -> TargetStates]
  BY <1>1, TargetStatesAre DEF Swept, TypeOK
<1>3. IsFiniteSet(Expired(s))
  BY PartOfCellsIsCounted DEF Expired, StageCells
<1>4. IsFiniteSet(ExpiredAttempts(s))
  <2> DEFINE attempt == [c \in Expired(s) |-> Current(c)]
  <2>1. attempt \in Surjection(Expired(s), ExpiredAttempts(s))
    BY DEF Surjection, ExpiredAttempts
  <2> QED  BY <1>3, <2>1, FS_Surjection DEF ExistsSurjection
<1> QED  BY <1>2, <1>4

LEMMA UnwindType ==
  ASSUME TypeOK, NEW ts \in [Cells -> TargetStates], NEW ss \in [Stages -> StageStates],
         Unwind(ts, ss)
  PROVE  /\ rolloutState' \in {"RollingBack", "Failed"}
         /\ stageState' = ss
         /\ targetState' \in [Cells -> TargetStates]
         /\ rollbackStep' \in [Cells -> Nat]
<1>1. CASE HasCompensation
  BY <1>1, TargetStatesAre DEF Unwind, BeginRollback, TypeOK
<1>2. CASE ~HasCompensation
  BY <1>2 DEF Unwind, TypeOK
<1> QED  BY <1>1, <1>2

-----------------------------------------------------------------------------
(* The inductive invariant.  TypeOK alone is not inductive: that the cursor *)
(* stops one past the last stage needs to know that the gate an operator    *)
(* approves is the current stage's, and that is a fact about where every    *)
(* other stage can be.                                                      *)

(* Stages before the cursor are over, stages after it have not begun.       *)
StagesAroundCursor ==
  \A s \in Stages :
    /\ s < cursor => stageState[s] \in {"Succeeded", "RolledBack"}
    /\ s > cursor => stageState[s] \in {"Pending", "Skipped"}

(* No work was issued beyond the cursor.                                    *)
WorkUpToCursor == \A c \in Cells : attemptsMade[c] > 0 => c[1] <= cursor

CursorInv == TypeOK /\ StagesAroundCursor /\ WorkUpToCursor

(* A stage that is neither over nor still to begin is the current one.      *)
LEMMA OnlyTheCurrentStageRuns ==
  ASSUME CursorInv, NEW s \in Stages,
         stageState[s] \in {"Blocked", "Armed", "Running", "Gated", "Soaking", "Advancing"}
  PROVE  s = cursor
<1>1. s \in Int /\ cursor \in Int
  BY Bounds DEF CursorInv, TypeOK
<1>2. ~(s < cursor) /\ ~(s > cursor)
  BY DEF CursorInv, StagesAroundCursor
<1> QED  BY <1>1, <1>2

LEMMA InitCursorInv == Init => CursorInv
<1> SUFFICES ASSUME Init PROVE CursorInv
  OBVIOUS
<1>1. TypeOK
  <2>1. 1 \in 1..(NumStages + 1) /\ 1 \in 1..MaxGeneration
    BY Bounds
  <2> QED
    BY <2>1, RolloutStatesAre, StageStatesAre, TargetStatesAre
       DEF Init, TypeOK, Gates, SoakStates
<1>2. StagesAroundCursor
  BY Bounds DEF Init, StagesAroundCursor
<1>3. WorkUpToCursor
  BY DEF Init, WorkUpToCursor
<1> QED  BY <1>1, <1>2, <1>3 DEF CursorInv

(* What a cancellation marks was an open attempt.                           *)
LEMMA CancelType ==
  ASSUME TypeOK, NEW s \in Stages
  PROVE  /\ CancelsAll(s) \subseteq Attempts
         /\ \A told \in CancelInterruptions(s) : told \subseteq Attempts
<1>1. \A c \in Live(s) : Current(c) \in Attempts
  BY DEF Live, TypeOK
<1> QED  BY <1>1 DEF CancelsAll, CancelInterruptions

LEMMA SucceedStageType ==
  ASSUME CursorInv, NEW s \in Stages, s = cursor, SucceedStage(s)
  PROVE  /\ stageState' \in [Stages -> StageStates]
         /\ cursor' \in 1..(NumStages + 1)
         /\ rolloutState' \in RolloutStates
<1>1. cursor' \in 1..(NumStages + 1)
  BY Bounds DEF SucceedStage
<1>2. stageState' \in [Stages -> StageStates]
  BY StageStatesAre DEF SucceedStage, CursorInv, TypeOK
<1>3. rolloutState' \in RolloutStates
  BY MovedType, RolloutStatesAre DEF SucceedStage, CursorInv, TypeOK
<1> QED  BY <1>1, <1>2, <1>3

LEMMA OpenGateType ==
  ASSUME TypeOK, NEW s \in Stages, NEW kind \in Gates, NEW from, OpenGate(s, kind, from)
  PROVE  /\ stageState' \in [Stages -> StageStates]
         /\ pendingGate' \in [Stages -> Gates]
         /\ rolloutState' \in RolloutStates
         /\ halted' \in BOOLEAN
BY MovedType, RolloutStatesAre, StageStatesAre DEF OpenGate, TypeOK

LEMMA CommandKeepsTypes ==
  ASSUME CursorInv, Command
  PROVE  TypeOK'
<1> USE RolloutStatesAre DEF CursorInv, TypeOK, rolloutVars, stageVars, targetVars, attemptVars, planeVars
<1>1. CASE Arm
  BY <1>1 DEF Arm
<1>2. CASE Start
  BY <1>2 DEF Start
<1>3. CASE Pause
  <2>1. cancelled' \subseteq Attempts
    BY <1>3, CancelType, Bounds DEF Pause
  <2> QED  BY <1>3, <2>1 DEF Pause
<1>4. CASE Resume
  BY <1>4 DEF Resume
<1> DEFINE aborted == [s \in Stages |-> AbortedStage(stageState[s])]
<1>a. aborted \in [Stages -> StageStates]
  BY StageStatesAre DEF AbortedStage
<1>5. CASE Abort
  <2>1. cancelled' \subseteq Attempts
    BY <1>5, CancelType DEF Abort, Abortees
  <2>2. /\ rolloutState' \in RolloutStates
        /\ stageState' \in [Stages -> StageStates]
        /\ targetState' \in [Cells -> TargetStates]
        /\ rollbackStep' \in [Cells -> Nat]
    <3>1. Unwind(targetState, aborted)
      BY <1>5 DEF Abort
    <3> QED  BY <3>1, <1>a, UnwindType
  <2> QED  BY <1>5, <2>1, <2>2 DEF Abort
<1>6. CASE AbortInterrupted
  <2>1. cancelled' \subseteq Attempts
    BY <1>6, CancelType DEF AbortInterrupted, Abortees
  <2>2. stageState' \in [Stages -> StageStates]
    BY <1>6, <1>a DEF AbortInterrupted
  <2> QED  BY <1>6, <2>1, <2>2 DEF AbortInterrupted
<1>7. CASE ApproveGate
  <2>1. PICK s \in Stages : ApproveEntry(s) \/ ApproveCompletion(s) \/ ApproveTooLate(s)
    BY <1>7 DEF ApproveGate
  <2>2. pendingGate' \in [Stages -> Gates]
    BY <2>1 DEF ApproveEntry, ApproveCompletion, ApproveTooLate, Approving, Gates
  <2>3. CASE ApproveEntry(s)
    BY <2>2, <2>3, MovedType, StageStatesAre DEF ApproveEntry, Approving
  <2>4. CASE ApproveCompletion(s)
    <3>1. s = cursor
      BY <2>4, OnlyTheCurrentStageRuns DEF ApproveCompletion
    <3>2. SucceedStage(s)
      BY <2>4 DEF ApproveCompletion
    <3> QED  BY <2>2, <2>4, <3>1, <3>2, SucceedStageType DEF ApproveCompletion, Approving
  <2>5. CASE ApproveTooLate(s)
    BY <2>2, <2>5 DEF ApproveTooLate, Approving
  <2> QED  BY <2>1, <2>3, <2>4, <2>5
<1>8. CASE Retire
  BY <1>8 DEF Retire
<1>9. CASE Regenerate
  <2>1. generation' \in 1..MaxGeneration /\ cursor' \in 1..(NumStages + 1)
    BY <1>9, Bounds DEF Regenerate
  <2> QED  BY <1>9, <2>1, StageStatesAre, TargetStatesAre DEF Regenerate, Gates, SoakStates
<1> QED  BY <1>1, <1>2, <1>3, <1>4, <1>5, <1>6, <1>7, <1>8, <1>9 DEF Command

LEMMA EvidenceKeepsTypes ==
  ASSUME CursorInv, DrainEvidence
  PROVE  TypeOK'
<1> USE DEF CursorInv, TypeOK, rolloutVars, stageVars, planeVars
<1>1. PICK r \in reports : ApplyStopped(r) \/ ApplyCompensation(r) \/ ApplyExecution(r)
  BY DEF DrainEvidence
<1>2. /\ r.attempt \in Attempts /\ r.attempt.cell \in Cells
      /\ Apply(r)
  BY <1>1 DEF Reports, Attempts, ApplyStopped, ApplyCompensation, ApplyExecution
<1>3. outstanding' \in Nat /\ open' \subseteq Attempts /\ overdue' \subseteq Attempts
  BY <1>2, FinishType, FS_Singleton DEF Apply
<1>4. CASE ApplyStopped(r)
  <2>1. targetState' \in [Cells -> TargetStates]
    BY <1>4, TargetStatesAre DEF ApplyStopped, Settle
  <2> QED  BY <1>2, <1>3, <1>4, <2>1 DEF Apply, ApplyStopped
<1>5. CASE ApplyCompensation(r)
  <2>1. targetState' \in [Cells -> TargetStates]
    BY <1>5, TargetStatesAre DEF ApplyCompensation, Settle
  <2>2. rollbackStep' \in [Cells -> Nat]
    BY <1>2, <1>5 DEF ApplyCompensation
  <2> QED  BY <1>2, <1>3, <2>1, <2>2 DEF Apply
<1>6. CASE ApplyExecution(r)
  <2>1. ExecutionSettles(r) \in TargetStates
    BY <1>2, TargetStatesAre DEF ExecutionSettles, RetryOrExhaust
  <2>2. targetState' \in [Cells -> TargetStates]
    BY <1>6, <2>1 DEF ApplyExecution, Settle
  <2> QED  BY <1>2, <1>3, <1>6, <2>2 DEF Apply, ApplyExecution
<1> QED  BY <1>1, <1>4, <1>5, <1>6

LEMMA EnvironmentKeepsTypes ==
  ASSUME CursorInv, Environment
  PROVE  TypeOK'
<1> USE DEF CursorInv, TypeOK, rolloutVars, stageVars, targetVars, attemptVars, planeVars
<1>1. ASSUME NEW a \in issued, WorkerReports(a) PROVE TypeOK'
  <2>1. reports' \subseteq Reports
    BY <1>1 DEF WorkerReports, Reports
  <2> QED  BY <1>1, <2>1 DEF WorkerReports
<1>2. ASSUME NEW c \in Cells, DeadlinePasses(c) PROVE TypeOK'
  BY <1>2 DEF DeadlinePasses
<1>3. ASSUME NEW s \in Stages, SoakElapses(s) PROVE TypeOK'
  BY <1>3 DEF SoakElapses, SoakStates
<1> QED  BY <1>1, <1>2, <1>3 DEF Environment

(* The end of a stage: it failed, it met a gate, it succeeded, or it holds. *)
LEMMA CompleteStageKeepsTypes ==
  ASSUME CursorInv, NEW s \in Stages, NEW held, CompleteStage(s, held)
  PROVE  TypeOK'
<1> USE DEF CursorInv, TypeOK
<1>1. /\ s = cursor
      /\ canaryCleared' \in [Stages -> BOOLEAN]
      /\ UNCHANGED <<resumeState, generation, reports, cancelled>>
      /\ draining' \in BOOLEAN
  BY DEF CompleteStage, Proceeding, Advancing, Ticking
<1>2. outstanding' \in Nat /\ open' \subseteq Attempts /\ overdue' \subseteq Attempts
  BY FinishType, SweepType DEF CompleteStage
<1>3. UNCHANGED <<dispatchedTotal, soak, attemptsMade, issued>>
  BY DEF CompleteStage
<1>4. Swept(s) \in [Cells -> TargetStates]
  BY SweepType
<1>5. CASE /\ FailStage(s, Swept(s))
           /\ UNCHANGED <<cursor, pendingGate, halted>>
  <2>1. [stageState EXCEPT ![s] = "Failed"] \in [Stages -> StageStates]
    BY StageStatesAre
  <2>2. /\ rolloutState' \in RolloutStates
        /\ stageState' \in [Stages -> StageStates]
        /\ targetState' \in [Cells -> TargetStates]
        /\ rollbackStep' \in [Cells -> Nat]
    BY <1>4, <1>5, <2>1, UnwindType, RolloutStatesAre DEF FailStage
  <2> QED  BY <1>1, <1>2, <1>3, <1>5, <2>2
<1>6. CASE /\ \E kind \in Gates : OpenGate(s, kind, stageState[s])
           /\ targetState' = Swept(s)
           /\ UNCHANGED <<cursor, rollbackStep>>
  <2>1. /\ stageState' \in [Stages -> StageStates]
        /\ pendingGate' \in [Stages -> Gates]
        /\ rolloutState' \in RolloutStates
        /\ halted' \in BOOLEAN
    BY <1>6, OpenGateType
  <2> QED  BY <1>1, <1>2, <1>3, <1>4, <1>6, <2>1
<1>7. CASE /\ SucceedStage(s)
           /\ targetState' = Swept(s)
           /\ UNCHANGED <<pendingGate, rollbackStep, halted>>
  <2>1. /\ stageState' \in [Stages -> StageStates]
        /\ cursor' \in 1..(NumStages + 1)
        /\ rolloutState' \in RolloutStates
    BY <1>1, <1>7, SucceedStageType
  <2> QED  BY <1>1, <1>2, <1>3, <1>4, <1>7, <2>1
<1>8. CASE /\ targetState' = Swept(s)
           /\ UNCHANGED <<rolloutState, cursor, stageState, pendingGate, rollbackStep,
                          halted>>
  BY <1>1, <1>2, <1>3, <1>4, <1>8
<1> QED  BY <1>5, <1>6, <1>7, <1>8 DEF CompleteStage, Gates

(* The batch a tick dispatches is of pending targets in the stage it runs.  *)
LEMMA BatchAccepted ==
  ASSUME NEW s \in Stages, NEW held, DispatchBatch(s, held)
  PROVE  \E accepted \in SUBSET Cells :
           /\ accepted \subseteq {c \in StageCells(s) : Swept(s)[c] = "Pending"}
           /\ Dispatch(accepted)
           /\ targetState' = [c \in Cells |->
                 IF c \in accepted THEN "Dispatched" ELSE Swept(s)[c]]
           /\ open' = (open \ ExpiredAttempts(s)) \cup (issued' \ issued)
           /\ outstanding' = OutstandingAfter(ExpiredAttempts(s)) + Cardinality(accepted)
           /\ overdue' = overdue \ ExpiredAttempts(s)
<1> DEFINE batch == PlanDispatch(Swept(s), attemptsMade, canaryCleared'[s], s)
<1>1. /\ batch \subseteq {c \in StageCells(s) : Swept(s)[c] = "Pending"}
      /\ StageCells(s) \subseteq Cells
  BY PlanStaysInStage DEF StageCells
<1> HIDE DEF batch
<1>2. \A accepted \in Acceptable(batch) : accepted \subseteq batch
  BY DEF Acceptable
<1> QED  BY <1>1, <1>2 DEF DispatchBatch, batch

LEMMA AdvanceKeepsTypes ==
  ASSUME CursorInv, Advance
  PROVE  TypeOK'
<1> USE DEF CursorInv, TypeOK, stageVars, targetVars, attemptVars, Ticking
<1>1. CASE AdvanceIdle
  BY <1>1 DEF AdvanceIdle
<1>2. CASE AdvanceRollback
  <2>1. PICK accepted \in SUBSET Cells :
          /\ Dispatch(accepted)
          /\ open' = open \cup (issued' \ issued)
          /\ outstanding' = outstanding + Cardinality(accepted)
    BY <1>2 DEF AdvanceRollback, Acceptable, RollbackPending
  <2>2. /\ Cardinality(accepted) \in Nat
        /\ attemptsMade' \in [Cells -> Nat]
        /\ dispatchedTotal' \in [Stages -> Nat]
        /\ issued' \subseteq Attempts
    BY <2>1, DispatchType
  <2>3. open' \subseteq Attempts /\ outstanding' \in Nat
    BY <2>1, <2>2
  <2> QED  BY <1>2, <2>2, <2>3 DEF AdvanceRollback
<1>3. CASE FinishRollback
  <2>1. stageState' \in [Stages -> StageStates]
    BY <1>3, StageStatesAre DEF FinishRollback
  <2> QED  BY <1>3, <2>1, RolloutStatesAre DEF FinishRollback
<1>4. ASSUME NEW s \in Stages, BeginStage(s) PROVE TypeOK'
  <2>1. /\ stageState' \in [Stages -> StageStates]
        /\ pendingGate' \in [Stages -> Gates]
        /\ rolloutState' \in RolloutStates
        /\ halted' \in BOOLEAN
    <3>1. CASE Policy[s].entryGate = "manual"
      BY <1>4, <3>1, OpenGateType DEF BeginStage, Gates
    <3>2. CASE Policy[s].entryGate # "manual"
      BY <1>4, <3>2, StageStatesAre, RolloutStatesAre DEF BeginStage
    <3> QED  BY <3>1, <3>2
  <2> QED  BY <1>4, <2>1 DEF BeginStage, Advancing
<1>5. ASSUME NEW s \in Stages, FailRunningStage(s) PROVE TypeOK'
  <2>1. outstanding' \in Nat /\ open' \subseteq Attempts /\ overdue' \subseteq Attempts
    BY <1>5, FinishType, SweepType DEF FailRunningStage
  <2>2. [stageState EXCEPT ![s] = "Failed"] \in [Stages -> StageStates]
    BY StageStatesAre
  <2>3. /\ rolloutState' \in RolloutStates
        /\ stageState' \in [Stages -> StageStates]
        /\ targetState' \in [Cells -> TargetStates]
        /\ rollbackStep' \in [Cells -> Nat]
    BY <1>5, <2>2, SweepType, UnwindType, RolloutStatesAre DEF FailRunningStage, FailStage
  <2> QED  BY <1>5, <2>1, <2>3 DEF FailRunningStage, Advancing
<1>6. ASSUME NEW s \in Stages, NEW held, DispatchBatch(s, held) PROVE TypeOK'
  <2>1. PICK accepted \in SUBSET Cells :
          /\ Dispatch(accepted)
          /\ targetState' = [c \in Cells |->
                IF c \in accepted THEN "Dispatched" ELSE Swept(s)[c]]
          /\ open' = (open \ ExpiredAttempts(s)) \cup (issued' \ issued)
          /\ outstanding' = OutstandingAfter(ExpiredAttempts(s)) + Cardinality(accepted)
          /\ overdue' = overdue \ ExpiredAttempts(s)
    BY <1>6, BatchAccepted
  <2>2. /\ Cardinality(accepted) \in Nat
        /\ attemptsMade' \in [Cells -> Nat]
        /\ dispatchedTotal' \in [Stages -> Nat]
        /\ issued' \subseteq Attempts
    BY <2>1, DispatchType
  <2>3. OutstandingAfter(ExpiredAttempts(s)) \in Nat
    BY OutstandingType, SweepType
  <2>4. /\ open' \subseteq Attempts /\ overdue' \subseteq Attempts
        /\ outstanding' \in Nat
    BY <2>1, <2>2, <2>3
  <2>5. targetState' \in [Cells -> TargetStates]
    BY <2>1, SweepType, TargetStatesAre
  <2> QED  BY <1>6, <2>2, <2>4, <2>5 DEF DispatchBatch, Proceeding, Advancing
<1>7. ASSUME NEW s \in Stages, NEW held, HoldStage(s, held) \/ StartSoak(s, held)
      PROVE  TypeOK'
  <2>1. outstanding' \in Nat /\ open' \subseteq Attempts /\ overdue' \subseteq Attempts
    BY <1>7, FinishType, SweepType DEF HoldStage, StartSoak
  <2>2. targetState' \in [Cells -> TargetStates]
    BY <1>7, SweepType DEF HoldStage, StartSoak
  <2>3. CASE HoldStage(s, held)
    BY <2>1, <2>2, <2>3 DEF HoldStage, Proceeding, Advancing
  <2>4. CASE StartSoak(s, held)
    <3>1. /\ stageState' \in [Stages -> StageStates]
          /\ rolloutState' \in RolloutStates
          /\ soak' \in [Stages -> SoakStates]
      BY <2>4, MovedType, StageStatesAre, RolloutStatesAre DEF StartSoak, SoakStates
    <3> QED  BY <2>1, <2>2, <2>4, <3>1 DEF StartSoak, Proceeding, Advancing
  <2> QED  BY <1>7, <2>3, <2>4
<1>8. ASSUME NEW s \in Stages, NEW held, CompleteStage(s, held) PROVE TypeOK'
  BY <1>8, CompleteStageKeepsTypes
<1> QED  BY <1>1, <1>2, <1>3, <1>4, <1>5, <1>6, <1>7, <1>8 DEF Advance, RunStage

-----------------------------------------------------------------------------
(* The cursor.                                                              *)

(* The end of the current stage: it may succeed, stop at a gate, run on or  *)
(* fail, and the stages before and after it stay as they are.               *)
LEMMA CurrentStageMoves ==
  ASSUME CursorInv, cursor \in Stages,
         \A r \in Stages : r # cursor => stageState'[r] = stageState[r],
         \/ cursor' = cursor
         \/ cursor' = cursor + 1 /\ stageState'[cursor] = "Succeeded"
  PROVE  StagesAroundCursor'
<1>1. cursor \in Int /\ \A r \in Stages : r \in Int
  BY Bounds
<1>2. CASE cursor' = cursor
  BY <1>1, <1>2 DEF CursorInv, StagesAroundCursor
<1>3. CASE cursor' = cursor + 1 /\ stageState'[cursor] = "Succeeded"
  <2>1. \A r \in Stages : r < cursor + 1 => r = cursor \/ r < cursor
    BY <1>1
  <2>2. \A r \in Stages : r > cursor + 1 => r > cursor /\ r # cursor
    BY <1>1
  <2>3. \A r \in Stages : r < cursor => r # cursor
    BY <1>1
  <2> QED  BY <1>3, <2>1, <2>2, <2>3 DEF CursorInv, StagesAroundCursor
<1> QED  BY <1>2, <1>3

LEMMA UnchangedWorkStays ==
  ASSUME CursorInv, attemptsMade' = attemptsMade, cursor' \in {cursor, cursor + 1}
  PROVE  WorkUpToCursor'
<1>1. \A c \in Cells : c[1] \in Int /\ cursor \in Int
  BY CellsFinite, Bounds DEF CursorInv, TypeOK
<1>2. \A c \in Cells : c[1] <= cursor => c[1] <= cursor'
  BY <1>1
<1> QED  BY <1>2 DEF CursorInv, WorkUpToCursor

(* A dispatch issues work only for the cells it was given.                  *)
LEMMA DispatchedWorkStays ==
  ASSUME CursorInv, NEW accepted \in SUBSET Cells, Dispatch(accepted), cursor' = cursor,
         \A c \in accepted : c[1] <= cursor
  PROVE  WorkUpToCursor'
BY DEF CursorInv, WorkUpToCursor, Dispatch

LEMMA CommandKeepsCursor ==
  ASSUME CursorInv, Command
  PROVE  StagesAroundCursor' /\ WorkUpToCursor'
<1> DEFINE Still == UNCHANGED <<stageState, cursor, attemptsMade>>
<1>1. ASSUME Still PROVE StagesAroundCursor' /\ WorkUpToCursor'
  BY <1>1 DEF CursorInv, StagesAroundCursor, WorkUpToCursor
<1>2. CASE Arm \/ Start \/ Pause \/ Resume \/ Retire
  <2>1. Still
    BY <1>2 DEF Arm, Start, Pause, Resume, Retire, stageVars, targetVars
  <2> QED  BY <1>1, <2>1
<1>3. CASE Abort \/ AbortInterrupted
  <2>1. UNCHANGED <<cursor, attemptsMade>>
    BY <1>3 DEF Abort, AbortInterrupted, targetVars
  <2>2. \A s \in Stages : stageState'[s] \in {stageState[s], AbortedStage(stageState[s])}
    BY <1>3 DEF Abort, AbortInterrupted, Unwind
  <2>3. \A state \in {"Succeeded", "RolledBack"} : AbortedStage(state) = state
    BY DEF AbortedStage, TerminalStage
  <2>4. \A state \in {"Pending", "Skipped"} : AbortedStage(state) = "Skipped"
    BY DEF AbortedStage, TerminalStage
  <2>5. StagesAroundCursor'
    BY <2>1, <2>2, <2>3, <2>4 DEF CursorInv, StagesAroundCursor
  <2> QED  BY <2>1, <2>5, UnchangedWorkStays
<1>4. CASE ApproveGate
  <2>1. PICK s \in Stages : ApproveEntry(s) \/ ApproveCompletion(s) \/ ApproveTooLate(s)
    BY <1>4 DEF ApproveGate
  <2>2. UNCHANGED attemptsMade
    BY <2>1 DEF ApproveEntry, ApproveCompletion, ApproveTooLate, Approving, targetVars
  <2>3. CASE ApproveEntry(s) \/ ApproveCompletion(s)
    <3>1. s = cursor
      BY <2>3, OnlyTheCurrentStageRuns DEF ApproveEntry, ApproveCompletion
    <3>2. /\ \A r \in Stages : r # s => stageState'[r] = stageState[r]
          /\ \/ cursor' = cursor
             \/ cursor' = cursor + 1 /\ stageState'[s] = "Succeeded"
      BY <2>3 DEF ApproveEntry, ApproveCompletion, SucceedStage, CursorInv, TypeOK
    <3>3. StagesAroundCursor'
      BY <3>1, <3>2, CurrentStageMoves
    <3> QED  BY <2>2, <3>2, <3>3, UnchangedWorkStays
  <2>4. CASE ApproveTooLate(s)
    BY <1>1, <2>2, <2>4 DEF ApproveTooLate
  <2> QED  BY <2>1, <2>3, <2>4
<1>5. CASE Regenerate
  <2>1. \A s \in Stages : ~(s < 1)
    BY Bounds
  <2> QED  BY <1>5, <2>1 DEF Regenerate, StagesAroundCursor, WorkUpToCursor
<1> QED  BY <1>2, <1>3, <1>4, <1>5 DEF Command

LEMMA AdvanceKeepsCursor ==
  ASSUME CursorInv, Advance
  PROVE  StagesAroundCursor' /\ WorkUpToCursor'
<1>1. CASE AdvanceIdle
  BY <1>1 DEF AdvanceIdle, stageVars, targetVars, CursorInv, StagesAroundCursor, WorkUpToCursor
<1>2. CASE AdvanceRollback
  <2>1. PICK accepted \in SUBSET RollbackPending : Dispatch(accepted)
    BY <1>2 DEF AdvanceRollback, Acceptable
  <2>2. \A c \in RollbackPending : c \in Cells /\ c[1] <= cursor
    <3>1. \A c \in RollbackPending : c \in Cells /\ c[1] \in Int /\ ~(c[1] > cursor)
      BY CellsFinite, Bounds DEF RollbackPending, CursorInv, StagesAroundCursor
    <3> QED  BY <3>1 DEF CursorInv, TypeOK
  <2>3. WorkUpToCursor'
    BY <1>2, <2>1, <2>2, DispatchedWorkStays DEF AdvanceRollback
  <2>4. StagesAroundCursor'
    BY <1>2 DEF AdvanceRollback, CursorInv, StagesAroundCursor
  <2> QED  BY <2>3, <2>4
<1>3. CASE FinishRollback
  <2>1. UNCHANGED <<cursor, attemptsMade>>
    BY <1>3 DEF FinishRollback, targetVars
  <2>2. \A s \in Stages :
          \/ stageState'[s] = stageState[s]
          \/ stageState'[s] = "RolledBack" /\ LegalStage(stageState[s], "RolledBack")
    BY <1>3, Bounds DEF FinishRollback
  <2>3. \A state \in {"Pending", "Skipped"} : ~LegalStage(state, "RolledBack")
    BY DEF LegalStage, StageSuccessors
  <2>4. StagesAroundCursor'
    BY <2>1, <2>2, <2>3 DEF CursorInv, StagesAroundCursor
  <2> QED  BY <2>1, <2>4, UnchangedWorkStays
<1>4. ASSUME NEW s \in Stages, BeginStage(s) PROVE StagesAroundCursor' /\ WorkUpToCursor'
  <2>1. /\ s = cursor /\ UNCHANGED <<cursor, attemptsMade>>
        /\ \A r \in Stages : r # s => stageState'[r] = stageState[r]
    BY <1>4 DEF BeginStage, OpenGate, targetVars, CursorInv, TypeOK
  <2> QED  BY <2>1, CurrentStageMoves, UnchangedWorkStays
<1>5. ASSUME NEW s \in Stages, NEW held, DispatchBatch(s, held)
      PROVE  StagesAroundCursor' /\ WorkUpToCursor'
  <2>1. s = cursor /\ UNCHANGED <<cursor, stageState>>
    BY <1>5 DEF DispatchBatch, Proceeding, Advancing
  <2>2. PICK accepted \in SUBSET Cells : accepted \subseteq StageCells(s) /\ Dispatch(accepted)
    BY <1>5, BatchAccepted
  <2>3. \A c \in accepted : c[1] <= cursor
    BY <2>1, <2>2, Bounds DEF StageCells
  <2>4. WorkUpToCursor'
    BY <2>1, <2>2, <2>3, DispatchedWorkStays
  <2> QED  BY <2>1, <2>4 DEF CursorInv, StagesAroundCursor
<1>6. ASSUME NEW s \in Stages, NEW held,
             FailRunningStage(s) \/ HoldStage(s, held) \/ StartSoak(s, held)
               \/ CompleteStage(s, held)
      PROVE  StagesAroundCursor' /\ WorkUpToCursor'
  <2>1. s = cursor /\ UNCHANGED attemptsMade
    BY <1>6 DEF FailRunningStage, HoldStage, StartSoak, CompleteStage, Proceeding, Advancing
  <2>2. /\ \A r \in Stages : r # s => stageState'[r] = stageState[r]
        /\ \/ cursor' = cursor
           \/ cursor' = cursor + 1 /\ stageState'[s] = "Succeeded"
    <3>1. CASE FailRunningStage(s)
      BY <3>1 DEF FailRunningStage, FailStage, Unwind, CursorInv, TypeOK
    <3>2. CASE HoldStage(s, held) \/ StartSoak(s, held)
      BY <3>2 DEF HoldStage, StartSoak, CursorInv, TypeOK
    <3>3. CASE CompleteStage(s, held)
      BY <3>3 DEF CompleteStage, FailStage, Unwind, OpenGate, SucceedStage, CursorInv, TypeOK
    <3> QED  BY <1>6, <3>1, <3>2, <3>3
  <2>3. StagesAroundCursor'
    BY <2>1, <2>2, CurrentStageMoves
  <2> QED  BY <2>1, <2>2, <2>3, UnchangedWorkStays
<1> QED  BY <1>1, <1>2, <1>3, <1>4, <1>5, <1>6 DEF Advance, RunStage

LEMMA NextKeepsCursorInv == CursorInv /\ [Next]_vars => CursorInv'
<1> SUFFICES ASSUME CursorInv, [Next]_vars PROVE CursorInv'
  OBVIOUS
<1>1. CASE Command
  BY <1>1, CommandKeepsTypes, CommandKeepsCursor DEF CursorInv
<1>2. CASE DrainEvidence
  <2>1. UNCHANGED <<stageState, cursor, attemptsMade>>
    BY <1>2 DEF DrainEvidence, ApplyStopped, ApplyCompensation, ApplyExecution, Apply,
                rolloutVars, stageVars
  <2>2. StagesAroundCursor' /\ WorkUpToCursor'
    BY <2>1 DEF CursorInv, StagesAroundCursor, WorkUpToCursor
  <2> QED  BY <1>2, <2>2, EvidenceKeepsTypes DEF CursorInv
<1>3. CASE Advance
  BY <1>3, AdvanceKeepsTypes, AdvanceKeepsCursor DEF CursorInv
<1>4. CASE Environment
  <2>1. UNCHANGED <<stageState, cursor, attemptsMade>>
    BY <1>4 DEF Environment, WorkerReports, DeadlinePasses, SoakElapses,
                rolloutVars, stageVars, targetVars
  <2>2. StagesAroundCursor' /\ WorkUpToCursor'
    BY <2>1 DEF CursorInv, StagesAroundCursor, WorkUpToCursor
  <2> QED  BY <1>4, <2>2, EnvironmentKeepsTypes DEF CursorInv
<1>5. CASE UNCHANGED vars
  BY <1>5 DEF vars, rolloutVars, stageVars, targetVars, attemptVars, planeVars,
              CursorInv, TypeOK, StagesAroundCursor, WorkUpToCursor
<1> QED  BY <1>1, <1>2, <1>3, <1>4, <1>5 DEF Next

THEOREM CursorInvariant == Spec => []CursorInv
BY InitCursorInv, NextKeepsCursorInv, PTL DEF Spec

(* Every state of every rollout is well typed: in particular the cursor     *)
(* stops one past the last stage and outstanding_attempts never wraps.      *)
THEOREM TypesHold == Spec => []TypeOK
<1>1. CursorInv => TypeOK
  BY DEF CursorInv
<1> QED  BY <1>1, CursorInvariant, PTL

LEMMA CursorKeepsOrder == CursorInv => StagesInOrder
<1> SUFFICES ASSUME CursorInv, NEW c \in Cells, attemptsMade[c] > 0,
                    NEW s \in 1..(c[1] - 1)
             PROVE  stageState[s] \in {"Succeeded", "RolledBack"}
  BY DEF StagesInOrder
<1>1. c[1] \in 1..NumStages /\ c[1] <= cursor /\ cursor \in Int
  BY CellsFinite, Bounds DEF CursorInv, TypeOK, WorkUpToCursor
<1>2. s \in Stages /\ s < cursor
  BY <1>1, Bounds
<1> QED  BY <1>2 DEF CursorInv, StagesAroundCursor

(* No work is issued in a stage before every earlier stage has succeeded.   *)
THEOREM StagesRunInOrder == Spec => []StagesInOrder
BY CursorKeepsOrder, CursorInvariant, PTL

-----------------------------------------------------------------------------
(* The bookkeeping of attempts agrees with the targets, and a target is     *)
(* counted as changed only on the report of its last, uncancelled attempt.  *)

(* The inductive invariant.  AttemptLedger is about open attempts and what  *)
(* their targets do; that a new attempt is new, and was not cancelled       *)
(* before it was made, is a fact about the attempts issued so far, and that *)
(* a restored target's attempt was not cancelled a fact about the rollout   *)
(* while it compensates.                                                    *)

OpenNow == {a \in open : a.gen = generation}

(* The attempts of this generation are the epochs counted so far.           *)
IssuedSoFar ==
  \A a \in issued : /\ a.gen <= generation
                    /\ a.gen = generation => a.epoch <= attemptsMade[a.cell]

(* Nothing is known of an attempt that was not issued.                      *)
OnlyIssued ==
  /\ open \subseteq issued /\ cancelled \subseteq issued
  /\ \A r \in reports : r.attempt \in issued

OpenIsCurrent ==
  \A a \in open : a.gen = generation =>
     a = Current(a.cell) /\ targetState[a.cell] \in {"Dispatched", "RollingBack"}

DispatchedIsOpen ==
  \A c \in Cells : targetState[c] = "Dispatched" => Current(c) \in open

(* Compensation is never cancelled.                                         *)
CompensationStands ==
  \A c \in Cells : targetState[c] = "RollingBack" =>
    ~(Current(c) \in open /\ Current(c) \in cancelled)

Ledger ==
  /\ IssuedSoFar /\ OnlyIssued /\ OpenIsCurrent /\ DispatchedIsOpen
  /\ CompensationStands /\ SuccessIsAttested

(* Targets are compensated only while the rollout is, in stages that ran;   *)
(* no gate is open then, and a pause returns to where it came from.         *)
CompensationUnderWay ==
  /\ \A c \in Cells : targetState[c] = "RollingBack" =>
       rolloutState = "RollingBack" /\ stageState[c[1]] \notin {"Pending", "Skipped"}
  /\ rolloutState = "RollingBack" => \A s \in Stages : stageState[s] # "Gated"
  /\ rolloutState = "Paused" => resumeState \in Pausable

OutstandingCounts == outstanding = Cardinality(OpenNow)

LedgerInv == CursorInv /\ Ledger /\ CompensationUnderWay /\ OutstandingCounts

LEMMA InitLedgerInv == Init => LedgerInv
<1> SUFFICES ASSUME Init PROVE LedgerInv
  OBVIOUS
<1>1. CursorInv
  BY InitCursorInv
<1>2. Ledger
  BY DEF Init, Ledger, IssuedSoFar, OnlyIssued, OpenIsCurrent, DispatchedIsOpen,
         CompensationStands, SuccessIsAttested
<1>3. CompensationUnderWay
  BY DEF Init, CompensationUnderWay
<1>4. OutstandingCounts
  <2>1. OpenNow = {}
    BY DEF Init, OpenNow
  <2> QED  BY <2>1, FS_EmptySet DEF Init, OutstandingCounts
<1> QED  BY <1>1, <1>2, <1>3, <1>4 DEF LedgerInv

-----------------------------------------------------------------------------
(* The two ways in which a step may move attempts and targets.              *)

(* The target and its last attempt stay as they are, or the attempt is over *)
(* and the target with it.                                                  *)
StaysOrSettles(c, left) ==
  \/ targetState'[c] = targetState[c] /\ (Current(c) \in open => Current(c) \in left)
  \/ /\ Current(c) \notin left /\ targetState'[c] # "Dispatched"
     /\ targetState'[c] \in {"Succeeded", "RolledBack"} =>
          /\ [attempt |-> Current(c), outcome |-> "completed"] \in reports
          /\ Current(c) \notin cancelled'

LEMMA CurrentType ==
  ASSUME TypeOK, NEW c \in Cells
  PROVE  /\ Current(c).gen = generation /\ Current(c).cell = c
         /\ Current(c).epoch = attemptsMade[c]
BY DEF Current

(* A step that issues nothing.                                              *)
LEMMA SettlingKeepsLedger ==
  ASSUME TypeOK, Ledger,
         UNCHANGED <<generation, attemptsMade, issued>>,
         reports \subseteq reports', \A r \in reports' : r.attempt \in issued,
         open' \subseteq open,
         \/ cancelled' = cancelled
         \/ /\ cancelled' \subseteq cancelled \cup open
            /\ \A c \in Cells : targetState[c] # "RollingBack",
         \A c \in Cells : StaysOrSettles(c, open')
  PROVE  Ledger'
<1> USE DEF Ledger
<1>1. \A c \in Cells : Current(c)' = Current(c)
  BY DEF Current
<1>2. cancelled' \subseteq cancelled \cup open
  OBVIOUS
<1>3. IssuedSoFar'
  BY DEF IssuedSoFar
<1>4. OnlyIssued'
  BY <1>2 DEF OnlyIssued
<1>5. OpenIsCurrent'
  <2> SUFFICES ASSUME NEW a \in open', a.gen = generation
               PROVE  (a = Current(a.cell) /\ targetState[a.cell] \in {"Dispatched", "RollingBack"})'
    BY DEF OpenIsCurrent
  <2>1. a.cell \in Cells /\ a = Current(a.cell)
        /\ targetState[a.cell] \in {"Dispatched", "RollingBack"}
    BY DEF OpenIsCurrent, TypeOK, Attempts
  <2>2. targetState'[a.cell] = targetState[a.cell]
    BY <2>1 DEF StaysOrSettles
  <2> QED  BY <1>1, <2>1, <2>2
<1>6. DispatchedIsOpen'
  BY <1>1 DEF DispatchedIsOpen, StaysOrSettles
<1>7. CompensationStands'
  BY <1>1 DEF CompensationStands, StaysOrSettles
<1>8. SuccessIsAttested'
  <2> SUFFICES ASSUME NEW c \in Cells, targetState'[c] \in {"Succeeded", "RolledBack"}
               PROVE  /\ [attempt |-> Current(c), outcome |-> "completed"] \in reports
                      /\ Current(c) \notin cancelled'
    BY <1>1 DEF SuccessIsAttested
  <2>1. CASE targetState'[c] = targetState[c]
    <3>1. Current(c) \notin open
      BY <2>1, CurrentType DEF OpenIsCurrent
    <3> QED  BY <1>2, <2>1, <3>1 DEF SuccessIsAttested
  <2>2. CASE targetState'[c] # targetState[c]
    BY <2>2 DEF StaysOrSettles
  <2> QED  BY <2>1, <2>2
<1> QED  BY <1>3, <1>4, <1>5, <1>6, <1>7, <1>8

(* A step that dispatches, after the attempts not in `left` have settled.   *)
LEMMA DispatchKeepsLedger ==
  ASSUME TypeOK, Ledger, NEW left \in SUBSET open, NEW accepted \in SUBSET Cells,
         Dispatch(accepted),
         open' = left \cup (issued' \ issued),
         UNCHANGED <<generation, reports, cancelled>>,
         \A c \in accepted :
            Current(c) \notin left /\ targetState'[c] \in {"Dispatched", "RollingBack"},
         \A c \in Cells \ accepted : StaysOrSettles(c, left)
  PROVE  Ledger'
<1> USE DEF Ledger
<1> DEFINE next(c) == [gen |-> generation, cell |-> c, epoch |-> attemptsMade[c] + 1]
<1>1. /\ \A c \in accepted : Current(c)' = next(c) /\ attemptsMade'[c] = attemptsMade[c] + 1
      /\ \A c \in Cells \ accepted : Current(c)' = Current(c) /\ attemptsMade'[c] = attemptsMade[c]
      /\ issued' = issued \cup {next(c) : c \in accepted}
      /\ \A c \in Cells : attemptsMade[c] \in Nat
  BY DEF Dispatch, Current, TypeOK
<1>2. \A c \in Cells : next(c) \notin issued
  <2> SUFFICES ASSUME NEW c \in Cells, next(c) \in issued PROVE FALSE
    OBVIOUS
  <2>1. next(c).gen = generation /\ next(c).cell = c /\ next(c).epoch = attemptsMade[c] + 1
    OBVIOUS
  <2>2. attemptsMade[c] + 1 <= attemptsMade[c]
    BY <2>1 DEF IssuedSoFar
  <2> QED  BY <1>1, <2>2
<1>3. open' = left \cup {next(c) : c \in accepted}
  BY <1>1, <1>2
<1> HIDE DEF next
<1>a. \A c \in Cells : next(c).gen = generation /\ next(c).cell = c
                       /\ next(c).epoch = attemptsMade[c] + 1
  BY DEF next
<1>4. IssuedSoFar'
  <2> SUFFICES ASSUME NEW a \in issued'
               PROVE  /\ a.gen <= generation
                      /\ a.gen = generation => a.epoch <= attemptsMade'[a.cell]
    BY DEF IssuedSoFar
  <2>1. CASE a \in issued
    <3>1. /\ a.cell \in Cells /\ a.epoch \in Nat
          /\ a.gen <= generation
          /\ a.gen = generation => a.epoch <= attemptsMade[a.cell]
      BY <2>1 DEF IssuedSoFar, TypeOK, Attempts
    <3>2. attemptsMade'[a.cell] \in {attemptsMade[a.cell], attemptsMade[a.cell] + 1}
      BY <1>1, <3>1
    <3>3. attemptsMade[a.cell] \in Nat
      BY <1>1, <3>1
    <3> QED  BY <3>1, <3>2, <3>3
  <2>2. CASE \E c \in accepted : a = next(c)
    <3>1. PICK c \in accepted : a = next(c)
      BY <2>2
    <3>2. a.gen = generation /\ a.cell = c /\ a.epoch = attemptsMade[c] + 1
      BY <1>a, <3>1
    <3>3. attemptsMade'[c] = attemptsMade[c] + 1 /\ attemptsMade[c] \in Nat
      BY <1>1
    <3> QED  BY <3>2, <3>3 DEF TypeOK
  <2> QED  BY <1>1, <2>1, <2>2
<1>5. OnlyIssued'
  BY <1>1, <1>3 DEF OnlyIssued
<1>6. OpenIsCurrent'
  <2> SUFFICES ASSUME NEW a \in open', a.gen = generation
               PROVE  (a = Current(a.cell) /\ targetState[a.cell] \in {"Dispatched", "RollingBack"})'
    BY DEF OpenIsCurrent
  <2>1. CASE a \in left
    <3>1. a.cell \in Cells /\ a = Current(a.cell)
          /\ targetState[a.cell] \in {"Dispatched", "RollingBack"}
      BY <2>1 DEF OpenIsCurrent, TypeOK, Attempts
    <3>2. a.cell \notin accepted
      BY <2>1, <3>1
    <3>3. targetState'[a.cell] = targetState[a.cell]
      BY <2>1, <3>1, <3>2 DEF StaysOrSettles
    <3> QED  BY <1>1, <3>1, <3>2, <3>3
  <2>2. CASE \E c \in accepted : a = next(c)
    BY <1>1, <1>a, <2>2
  <2> QED  BY <1>3, <2>1, <2>2
<1>7. DispatchedIsOpen'
  <2> SUFFICES ASSUME NEW c \in Cells, targetState'[c] = "Dispatched"
               PROVE  Current(c)' \in open'
    BY DEF DispatchedIsOpen
  <2>1. CASE c \in accepted
    BY <1>1, <1>3, <2>1
  <2>2. CASE c \notin accepted
    BY <1>1, <1>3, <2>2 DEF DispatchedIsOpen, StaysOrSettles
  <2> QED  BY <2>1, <2>2
<1>8. CompensationStands'
  <2> SUFFICES ASSUME NEW c \in Cells, targetState'[c] = "RollingBack",
                      Current(c)' \in open', Current(c)' \in cancelled
               PROVE  FALSE
    BY DEF CompensationStands
  <2>1. CASE c \in accepted
    BY <1>1, <1>2, <2>1 DEF OnlyIssued
  <2>2. CASE c \notin accepted
    <3>1. Current(c)' = Current(c) /\ Current(c) \in issued
      BY <1>1, <2>2 DEF OnlyIssued
    <3>2. Current(c) \in left
      BY <1>2, <1>3, <3>1
    <3> QED  BY <2>2, <3>1, <3>2 DEF CompensationStands, StaysOrSettles
  <2> QED  BY <2>1, <2>2
<1>9. SuccessIsAttested'
  <2> SUFFICES ASSUME NEW c \in Cells, targetState'[c] \in {"Succeeded", "RolledBack"}
               PROVE  /\ [attempt |-> Current(c)', outcome |-> "completed"] \in reports
                      /\ Current(c)' \notin cancelled
    BY DEF SuccessIsAttested
  <2>1. c \notin accepted
    OBVIOUS
  <2> QED  BY <1>1, <2>1 DEF StaysOrSettles, SuccessIsAttested
<1> QED  BY <1>4, <1>5, <1>6, <1>7, <1>8, <1>9

-----------------------------------------------------------------------------
(* What handlers have in common.                                            *)

(* The deadline sweep finishes the attempts of the targets it settles.      *)
LEMMA SweepSettles ==
  ASSUME TypeOK, NEW s \in Stages, NEW c \in Cells
  PROVE  \/ Swept(s)[c] = targetState[c] /\ Current(c) \notin ExpiredAttempts(s)
         \/ Swept(s)[c] \in {"Pending", "Cancelled", "Exhausted"}
              /\ Current(c) \in ExpiredAttempts(s)
<1>1. \A d \in Cells : Current(d) = Current(c) => d = c
  BY CurrentType
<1>2. CASE c \in Expired(s)
  BY <1>2 DEF Swept, ExpiredAttempts, RetryOrExhaust
<1>3. CASE c \notin Expired(s)
  BY <1>1, <1>3 DEF Swept, ExpiredAttempts, Expired, StageCells
<1> QED  BY <1>2, <1>3

(* What the sweep finishes was open, in this generation.                    *)
LEMMA SweptWasOpen ==
  ASSUME TypeOK, DispatchedIsOpen, NEW s \in Stages
  PROVE  ExpiredAttempts(s) \subseteq OpenNow
<1>1. \A c \in Expired(s) : c \in Cells /\ targetState[c] = "Dispatched"
  BY DEF Expired, StageCells
<1> QED  BY <1>1, CurrentType DEF DispatchedIsOpen, ExpiredAttempts, OpenNow

(* begin_rollback marks targets that have nothing in flight.                *)
LEMMA UnwindMarks ==
  ASSUME NEW ts \in [Cells -> TargetStates], NEW ss, Unwind(ts, ss), NEW c \in Cells
  PROVE  \/ targetState'[c] = ts[c]
         \/ /\ ts[c] \in {"Succeeded", "Failed"} /\ targetState'[c] = "RollingBack"
            /\ rolloutState' = "RollingBack" /\ ss[c[1]] \notin {"Pending", "Skipped"}
BY DEF Unwind, BeginRollback

LEMMA CancelsWhatIsOpen ==
  ASSUME NEW s \in Stages
  PROVE  /\ CancelsAll(s) \subseteq open
         /\ \A told \in CancelInterruptions(s) : told \subseteq open
BY DEF CancelsAll, CancelInterruptions, Live

LEMMA NothingCompensates ==
  ASSUME CompensationUnderWay, rolloutState # "RollingBack"
  PROVE  \A c \in Cells : targetState[c] # "RollingBack"
BY DEF CompensationUnderWay

LEMMA CalmKeepsUnderWay ==
  ASSUME \A c \in Cells : targetState'[c] # "RollingBack",
         rolloutState' # "RollingBack",
         rolloutState' = "Paused" => resumeState' \in Pausable
  PROVE  CompensationUnderWay'
BY DEF CompensationUnderWay

LEMMA UnwindKeepsUnderWay ==
  ASSUME NEW ts \in [Cells -> TargetStates], NEW ss, Unwind(ts, ss),
         \A c \in Cells : ts[c] # "RollingBack",
         \A s \in Stages : ss[s] # "Gated"
  PROVE  CompensationUnderWay'
<1>1. rolloutState' \in {"RollingBack", "Failed"} /\ stageState' = ss
  BY DEF Unwind, BeginRollback
<1>2. \A c \in Cells : targetState'[c] = "RollingBack" =>
        rolloutState' = "RollingBack" /\ ss[c[1]] \notin {"Pending", "Skipped"}
  BY UnwindMarks
<1> QED  BY <1>1, <1>2 DEF CompensationUnderWay

-----------------------------------------------------------------------------
(* The count of outstanding attempts.                                       *)

(* The lemmas about the count rest on these two facts alone.                *)
OpenIsLast == \A a \in open : a.gen = generation => a = Current(a.cell)

LEMMA LedgerCounts ==
  ASSUME Ledger PROVE OpenIsLast /\ IssuedSoFar /\ DispatchedIsOpen
BY DEF Ledger, OpenIsCurrent, OpenIsLast

(* There are as many open attempts as cells that have one.                  *)
LEMMA OpenNowFinite ==
  ASSUME TypeOK, OpenIsLast
  PROVE  IsFiniteSet(OpenNow) /\ Cardinality(OpenNow) \in Nat
<1> DEFINE cellOf == [a \in OpenNow |-> a.cell]
<1>1. \A a \in OpenNow : a.cell \in Cells /\ a = Current(a.cell)
  BY DEF OpenNow, OpenIsLast, TypeOK, Attempts
<1>2. cellOf \in Injection(OpenNow, Cells)
  BY <1>1 DEF Injection, IsInjective
<1>3. IsFiniteSet(OpenNow)
  BY <1>2, CellsFinite, FS_Injection
<1> QED  BY <1>3, FS_CardinalityType

(* The guard against zero never matters: what is finished was counted.      *)
LEMMA FinishedWasCounted ==
  ASSUME TypeOK, OpenIsLast, OutstandingCounts, NEW finished \in SUBSET OpenNow
  PROVE  OutstandingAfter(finished) = Cardinality(OpenNow \ finished)
<1>1. IsFiniteSet(OpenNow) /\ Cardinality(OpenNow) \in Nat
  BY OpenNowFinite
<1>2. IsFiniteSet(finished) /\ Cardinality(finished) <= Cardinality(OpenNow)
  BY <1>1, FS_Subset
<1>a. Cardinality(finished) \in Nat
  BY <1>2, FS_CardinalityType
<1>3. OpenNow \cap finished = finished
  OBVIOUS
<1>4. Cardinality(OpenNow \ finished) = Cardinality(OpenNow) - Cardinality(finished)
  BY <1>1, <1>3, FS_Difference
<1> QED  BY <1>1, <1>2, <1>a, <1>4 DEF OutstandingAfter, OutstandingCounts

LEMMA FinishCounts ==
  ASSUME TypeOK, OpenIsLast, OutstandingCounts, NEW finished \in SUBSET OpenNow,
         Finish(finished), generation' = generation
  PROVE  OutstandingCounts'
<1>1. OpenNow' = OpenNow \ finished
  BY DEF OpenNow, Finish
<1> QED  BY <1>1, FinishedWasCounted DEF Finish, OutstandingCounts

LEMMA DispatchCounts ==
  ASSUME TypeOK, OpenIsLast, IssuedSoFar, NEW finished \in SUBSET OpenNow, NEW accepted \in SUBSET Cells,
         Dispatch(accepted),
         open' = (open \ finished) \cup (issued' \ issued), generation' = generation,
         outstanding' = Cardinality(OpenNow \ finished) + Cardinality(accepted)
  PROVE  OutstandingCounts'
<1> DEFINE next(c) == [gen |-> generation, cell |-> c, epoch |-> attemptsMade[c] + 1]
           new == {next(c) : c \in accepted}
           made == [c \in accepted |-> next(c)]
<1>1. \A c \in Cells : next(c) \notin issued
  <2> SUFFICES ASSUME NEW c \in Cells, next(c) \in issued PROVE FALSE
    OBVIOUS
  <2>1. next(c).gen = generation /\ next(c).cell = c /\ next(c).epoch = attemptsMade[c] + 1
    OBVIOUS
  <2>2. attemptsMade[c] + 1 <= attemptsMade[c]
    BY <2>1 DEF IssuedSoFar
  <2>3. attemptsMade[c] \in Nat
    BY DEF TypeOK
  <2> QED  BY <2>2, <2>3
<1>2. issued' = issued \cup new
  BY DEF Dispatch
<1>3. \A c \in accepted : next(c).gen = generation /\ next(c).cell = c
  OBVIOUS
<1>4. IsFiniteSet(accepted) /\ Cardinality(accepted) \in Nat
  BY PartOfCellsIsCounted
<1>5. ExistsBijection(accepted, new)
  <2>1. made \in Injection(accepted, new)
    <3>1. made \in [accepted -> new]
      OBVIOUS
    <3>2. \A c, d \in accepted : made[c] = made[d] => c = d
      <4> SUFFICES ASSUME NEW c \in accepted, NEW d \in accepted, next(c) = next(d)
                   PROVE  c = d
        OBVIOUS
      <4> QED  BY <1>3
    <3> QED  BY <3>1, <3>2 DEF Injection, IsInjective
  <2>2. made \in Surjection(accepted, new)
    BY DEF Surjection
  <2> QED  BY <2>1, <2>2 DEF ExistsBijection, Bijection
<1>6. IsFiniteSet(new) /\ Cardinality(new) = Cardinality(accepted)
  BY <1>4, <1>5, FS_Bijection
<1> HIDE DEF next, made
<1>7. \A a \in new : a \notin issued /\ a.gen = generation
  BY <1>1, <1>3
<1>o. \A a \in new : a \notin open
  <2> SUFFICES ASSUME NEW c \in accepted, next(c) \in open PROVE FALSE
    OBVIOUS
  <2>1. next(c).gen = generation /\ next(c).cell = c /\ next(c).epoch = attemptsMade[c] + 1
    BY DEF next
  <2>2. next(c) = Current(c)
    BY <2>1 DEF OpenIsLast
  <2>3. Current(c).epoch = attemptsMade[c] /\ attemptsMade[c] \in Nat
    BY DEF Current, TypeOK
  <2> QED  BY <2>1, <2>2, <2>3
<1> HIDE DEF new
<1>8. OpenNow' = (OpenNow \ finished) \cup new
  BY <1>2, <1>7 DEF OpenNow
<1>9. (OpenNow \ finished) \cap new = {}
  BY <1>o DEF OpenNow
<1>10. IsFiniteSet(OpenNow \ finished) /\ Cardinality(OpenNow \ finished) \in Nat
  <2>1. IsFiniteSet(OpenNow \ finished)
    BY OpenNowFinite, FS_Difference
  <2> QED  BY <2>1, FS_CardinalityType
<1>11. Cardinality((OpenNow \ finished) \cup new)
         = Cardinality(OpenNow \ finished) + Cardinality(new) - 0
  <2>1. Cardinality({}) = 0
    BY FS_EmptySet
  <2> QED  BY <1>6, <1>9, <1>10, <2>1, FS_Union
<1> QED  BY <1>4, <1>6, <1>8, <1>10, <1>11 DEF OutstandingCounts

-----------------------------------------------------------------------------
(* The steps.                                                               *)

Kept == Ledger' /\ CompensationUnderWay' /\ OutstandingCounts'

LEMMA UncountedStep ==
  ASSUME OutstandingCounts, UNCHANGED <<outstanding, open, generation>>
  PROVE  OutstandingCounts'
BY DEF OutstandingCounts, OpenNow

(* A command that may cancel work and leaves the targets as they are.       *)
LEMMA CancellingKeepsLedger ==
  ASSUME TypeOK, Ledger, CompensationUnderWay, rolloutState # "RollingBack",
         UNCHANGED <<generation, targetState, attemptsMade, open, issued, reports>>,
         cancelled' \subseteq cancelled \cup open
  PROVE  Ledger'
<1>1. \A c \in Cells : targetState[c] # "RollingBack"
  BY NothingCompensates
<1>2. \A c \in Cells : StaysOrSettles(c, open')
  BY DEF StaysOrSettles
<1>3. \A r \in reports' : r.attempt \in issued
  BY DEF Ledger, OnlyIssued
<1>4. open' \subseteq open /\ reports \subseteq reports'
  OBVIOUS
<1> QED  BY <1>1, <1>2, <1>3, <1>4, SettlingKeepsLedger

LEMMA ApproveKeepsLedger ==
  ASSUME LedgerInv, ApproveGate
  PROVE  Kept
<1> USE DEF LedgerInv, CursorInv
<1>1. PICK s \in Stages : ApproveEntry(s) \/ ApproveCompletion(s) \/ ApproveTooLate(s)
  BY DEF ApproveGate
<1>2. UNCHANGED <<generation, resumeState, targetVars, attemptVars, planeVars>>
  BY <1>1 DEF ApproveEntry, ApproveCompletion, ApproveTooLate, Approving
<1>3. OutstandingCounts'
  BY <1>2, UncountedStep DEF attemptVars
<1>4. Ledger'
  <2>1. \A c \in Cells : StaysOrSettles(c, open')
    BY <1>2 DEF StaysOrSettles, targetVars, attemptVars
  <2>2. \A r \in reports' : r.attempt \in issued
    BY <1>2 DEF planeVars, Ledger, OnlyIssued
  <2> QED
    BY <1>2, <2>1, <2>2, SettlingKeepsLedger DEF targetVars, attemptVars, planeVars
<1>5. CompensationUnderWay'
  <2>1. CASE ApproveTooLate(s)
    BY <1>2, <2>1 DEF ApproveTooLate, CompensationUnderWay, targetVars
  <2>2. CASE ApproveEntry(s) \/ ApproveCompletion(s)
    <3>1. rolloutState # "RollingBack"
      BY <2>2 DEF ApproveEntry, ApproveCompletion, CompensationUnderWay
    <3>2. \A c \in Cells : targetState'[c] # "RollingBack"
      BY <1>2, <3>1, NothingCompensates DEF targetVars
    <3>3. rolloutState' \in {rolloutState, "Running", "Completed", "Advancing"}
      BY <2>2 DEF ApproveEntry, ApproveCompletion, SucceedStage, Moved
    <3>4. rolloutState' = "Paused" => resumeState' \in Pausable
      BY <1>2, <3>3 DEF CompensationUnderWay
    <3> QED  BY <3>1, <3>2, <3>3, <3>4, CalmKeepsUnderWay
  <2> QED  BY <1>1, <2>1, <2>2
<1> QED  BY <1>3, <1>4, <1>5 DEF Kept

LEMMA RegenerateKeepsLedger ==
  ASSUME LedgerInv, Regenerate
  PROVE  Kept
<1> USE DEF LedgerInv, CursorInv, Ledger, planeVars
<1>1. \A a \in issued : a.gen # generation' /\ a.gen <= generation'
  <2> SUFFICES ASSUME NEW a \in issued PROVE a.gen # generation' /\ a.gen <= generation'
    OBVIOUS
  <2>1. a.gen \in Nat /\ generation \in Nat /\ generation' = generation + 1
    BY DEF Regenerate, TypeOK, Attempts
  <2>2. a.gen <= generation
    BY DEF IssuedSoFar
  <2> QED  BY <2>1, <2>2
<1>2. Ledger'
  <2>1. IssuedSoFar'
    BY <1>1 DEF Regenerate, IssuedSoFar
  <2>2. OnlyIssued'
    BY DEF Regenerate, OnlyIssued
  <2>3. OpenIsCurrent'
    BY <1>1 DEF Regenerate, OnlyIssued, OpenIsCurrent
  <2>4. DispatchedIsOpen' /\ CompensationStands' /\ SuccessIsAttested'
    BY DEF Regenerate, DispatchedIsOpen, CompensationStands, SuccessIsAttested
  <2> QED  BY <2>1, <2>2, <2>3, <2>4
<1>3. CompensationUnderWay'
  BY DEF Regenerate, CompensationUnderWay
<1>4. OutstandingCounts'
  <2>1. OpenNow' = {}
    BY <1>1 DEF Regenerate, OpenNow, OnlyIssued
  <2> QED  BY <2>1, FS_EmptySet DEF Regenerate, OutstandingCounts
<1> QED  BY <1>2, <1>3, <1>4 DEF Kept

LEMMA AbortKeepsLedger ==
  ASSUME LedgerInv, Abort
  PROVE  Kept
<1> USE DEF LedgerInv, CursorInv, planeVars
<1> DEFINE aborted == [s \in Stages |-> AbortedStage(stageState[s])]
<1>1. \A c \in Cells : targetState[c] # "RollingBack"
  BY NothingCompensates DEF Abort, Abortable
<1>2. Unwind(targetState, aborted) /\ targetState \in [Cells -> TargetStates]
  BY DEF Abort, TypeOK
<1>3. \A s \in Stages : aborted[s] # "Gated"
  BY DEF AbortedStage, TerminalStage
<1> HIDE DEF aborted
<1>4. cancelled' \subseteq cancelled \cup open
  BY CancelsWhatIsOpen DEF Abort, Abortees
<1>5. \A c \in Cells : StaysOrSettles(c, open')
  <2> SUFFICES ASSUME NEW c \in Cells PROVE StaysOrSettles(c, open)
    BY DEF Abort
  <2>1. CASE targetState'[c] = targetState[c]
    BY <2>1 DEF StaysOrSettles
  <2>2. CASE targetState'[c] = "RollingBack" /\ targetState[c] \in {"Succeeded", "Failed"}
    <3>1. Current(c) \notin open
      BY <2>2, CurrentType DEF Ledger, OpenIsCurrent
    <3> QED  BY <2>2, <3>1 DEF StaysOrSettles
  <2> QED  BY <1>2, <2>1, <2>2, UnwindMarks
<1>6. Ledger'
  <2>1. \A r \in reports' : r.attempt \in issued
    BY DEF Abort, Ledger, OnlyIssued
  <2>2. open' = open /\ reports' = reports /\ UNCHANGED <<generation, attemptsMade, issued>>
    BY DEF Abort
  <2> QED  BY <1>1, <1>4, <1>5, <2>1, <2>2, SettlingKeepsLedger
<1>7. CompensationUnderWay'
  BY <1>1, <1>2, <1>3, UnwindKeepsUnderWay
<1>8. OutstandingCounts'
  BY UncountedStep DEF Abort
<1> QED  BY <1>6, <1>7, <1>8 DEF Kept

LEMMA CommandKeepsLedger ==
  ASSUME LedgerInv, Command
  PROVE  Kept
<1> USE DEF LedgerInv, CursorInv, targetVars, attemptVars, planeVars
<1> DEFINE Untouched ==
      /\ UNCHANGED <<generation, targetState, attemptsMade, open, outstanding, issued,
                     reports>>
      /\ cancelled' \subseteq cancelled \cup open
      /\ rolloutState # "RollingBack" /\ rolloutState' # "RollingBack"
      /\ rolloutState' = "Paused" => resumeState' \in Pausable
<1>1. ASSUME Untouched PROVE Kept
  <2>1. Ledger'
    BY <1>1, CancellingKeepsLedger
  <2>2. CompensationUnderWay'
    BY <1>1, NothingCompensates, CalmKeepsUnderWay
  <2>3. OutstandingCounts'
    BY <1>1, UncountedStep
  <2> QED  BY <2>1, <2>2, <2>3 DEF Kept
<1>2. CASE Arm \/ Start \/ Retire
  <2>1. Untouched
    BY <1>2 DEF Arm, Start, Retire
  <2> QED  BY <1>1, <2>1
<1>3. CASE Pause
  <2>1. cancelled' \subseteq cancelled \cup open
    BY <1>3, CancelsWhatIsOpen, Bounds DEF Pause, TypeOK
  <2>2. Untouched
    BY <1>3, <2>1 DEF Pause, Pausable
  <2> QED  BY <1>1, <2>2
<1>4. CASE Resume
  <2>1. Untouched
    BY <1>4 DEF Resume, CompensationUnderWay, Pausable
  <2> QED  BY <1>1, <2>1
<1>5. CASE AbortInterrupted
  <2>1. cancelled' \subseteq cancelled \cup open
    BY <1>5, CancelsWhatIsOpen DEF AbortInterrupted, Abortees
  <2>2. Untouched
    BY <1>5, <2>1 DEF AbortInterrupted, Abortable
  <2> QED  BY <1>1, <2>2
<1> QED
  BY <1>2, <1>3, <1>4, <1>5, AbortKeepsLedger, ApproveKeepsLedger, RegenerateKeepsLedger
     DEF Command

(* A report settles the one target whose last attempt it is about.          *)
LEMMA EvidenceKeepsLedger ==
  ASSUME LedgerInv, DrainEvidence
  PROVE  Kept
<1> USE DEF LedgerInv, CursorInv
<1>1. PICK r \in reports : ApplyStopped(r) \/ ApplyCompensation(r) \/ ApplyExecution(r)
  BY DEF DrainEvidence
<1> DEFINE a == r.attempt
           c == r.attempt.cell
<1>2. Apply(r) /\ Admitted(r)
  BY <1>1 DEF ApplyStopped, ApplyCompensation, ApplyExecution, Apply
<1>3. /\ c \in Cells /\ a \in open /\ a = Current(c)
      /\ targetState[c] \in {"Dispatched", "RollingBack"}
      /\ r = [attempt |-> a, outcome |-> r.outcome] /\ r.outcome \in Outcomes
  <2>1. r \in Reports /\ a \in open /\ a.gen = generation
    BY <1>2 DEF Admitted, TypeOK
  <2>2. c \in Cells /\ r.outcome \in Outcomes /\ r = [attempt |-> a, outcome |-> r.outcome]
    BY <2>1 DEF Reports, Attempts
  <2> QED  BY <2>1, <2>2 DEF Ledger, OpenIsCurrent
<1>4. /\ open' = open \ {a} /\ Finish({a})
      /\ UNCHANGED <<rolloutState, resumeState, generation, stageState, attemptsMade,
                     cancelled, issued, reports>>
  BY <1>2 DEF Apply, Finish, rolloutVars, stageVars, planeVars
<1>5. \A d \in Cells : d # c =>
        targetState'[d] = targetState[d] /\ (Current(d) \in open => Current(d) \in open')
  <2>1. \A d \in Cells : d # c => targetState'[d] = targetState[d]
    BY <1>1 DEF ApplyStopped, ApplyCompensation, ApplyExecution, Settle, TypeOK
  <2>2. \A d \in Cells : d # c => Current(d) # a
    BY <1>3, CurrentType
  <2> QED  BY <1>4, <2>1, <2>2
<1>6. /\ targetState'[c] # "Dispatched"
      /\ targetState'[c] = "RollingBack" => targetState[c] = "RollingBack"
      /\ targetState'[c] \in {"Succeeded", "RolledBack"} =>
            r.outcome = "completed" /\ a \notin cancelled
  <2>1. CASE ApplyStopped(r)
    BY <1>3, <2>1 DEF ApplyStopped, Settle, TypeOK
  <2>2. CASE ApplyCompensation(r)
    <3>1. a \notin cancelled
      BY <1>3, <2>2 DEF ApplyCompensation, Ledger, CompensationStands
    <3> QED  BY <1>3, <2>2, <3>1 DEF ApplyCompensation, Settle, TypeOK, Outcomes
  <2>3. CASE ApplyExecution(r)
    <3>1. targetState'[c] = ExecutionSettles(r) /\ r.outcome # "stopped"
      BY <1>3, <2>3 DEF ApplyExecution, Settle, TypeOK
    <3>2. \/ ExecutionSettles(r) \in {"Cancelled", "Pending", "Exhausted"}
          \/ ExecutionSettles(r) = "Succeeded" /\ r.outcome = "completed" /\ a \notin cancelled
      BY DEF ExecutionSettles, RetryOrExhaust
    <3> QED  BY <3>1, <3>2
  <2> QED  BY <1>1, <2>1, <2>2, <2>3
<1>7. Ledger'
  <2>1. StaysOrSettles(c, open')
    BY <1>3, <1>4, <1>6 DEF StaysOrSettles
  <2>2. \A d \in Cells : StaysOrSettles(d, open')
    BY <1>5, <2>1 DEF StaysOrSettles
  <2>3. \A q \in reports' : q.attempt \in issued
    BY <1>4 DEF Ledger, OnlyIssued
  <2> QED  BY <1>4, <2>2, <2>3, SettlingKeepsLedger
<1>8. CompensationUnderWay'
  BY <1>4, <1>5, <1>6 DEF CompensationUnderWay
<1>9. OutstandingCounts'
  <2>1. {a} \subseteq OpenNow
    BY <1>2, <1>3 DEF OpenNow, Admitted
  <2> QED  BY <1>4, <2>1, FinishCounts, LedgerCounts
<1> QED  BY <1>7, <1>8, <1>9 DEF Kept

LEMMA EnvironmentKeepsLedger ==
  ASSUME LedgerInv, Environment
  PROVE  Kept
<1> USE DEF LedgerInv, CursorInv, rolloutVars, stageVars, targetVars, attemptVars, planeVars
<1>1. /\ UNCHANGED <<rolloutState, resumeState, generation, stageState, targetState,
                     attemptsMade, outstanding, open, cancelled, issued>>
      /\ reports \subseteq reports' /\ \A r \in reports' : r.attempt \in issued
  <2>1. ASSUME NEW a \in issued, WorkerReports(a)
        PROVE  reports \subseteq reports' /\ \A r \in reports' : r.attempt \in issued
    BY <2>1 DEF WorkerReports, Ledger, OnlyIssued
  <2>2. ASSUME (\E c \in Cells : DeadlinePasses(c)) \/ (\E s \in Stages : SoakElapses(s))
        PROVE  reports \subseteq reports' /\ \A r \in reports' : r.attempt \in issued
    BY <2>2 DEF DeadlinePasses, SoakElapses, Ledger, OnlyIssued
  <2> QED  BY <2>1, <2>2 DEF Environment, WorkerReports, DeadlinePasses, SoakElapses
<1>2. \A c \in Cells : StaysOrSettles(c, open')
  BY <1>1 DEF StaysOrSettles
<1>3. Ledger'
  BY <1>1, <1>2, SettlingKeepsLedger
<1>4. CompensationUnderWay'
  BY <1>1 DEF CompensationUnderWay
<1> QED  BY <1>1, <1>3, <1>4, UncountedStep DEF Kept

-----------------------------------------------------------------------------
(* The tick.                                                                *)

(* A tick that runs the current stage and dispatches nothing: the sweep     *)
(* settles targets and the stage then holds, ends, or fails.                *)
LEMMA SweepKeepsLedger ==
  ASSUME LedgerInv, NEW s \in Stages, rolloutState # "RollingBack",
         UNCHANGED <<generation, attemptsMade, issued, reports, cancelled>>,
         Finish(ExpiredAttempts(s)),
         \A c \in Cells : \/ targetState'[c] = Swept(s)[c]
                          \/ Swept(s)[c] \in {"Succeeded", "Failed"}
                               /\ targetState'[c] = "RollingBack"
  PROVE  Ledger' /\ OutstandingCounts'
<1> USE DEF LedgerInv, CursorInv
<1>1. open' = open \ ExpiredAttempts(s)
  BY DEF Finish
<1>2. \A c \in Cells : StaysOrSettles(c, open')
  <2> SUFFICES ASSUME NEW c \in Cells PROVE StaysOrSettles(c, open')
    OBVIOUS
  <2>1. CASE Current(c) \in ExpiredAttempts(s)
    <3>1. Swept(s)[c] \in {"Pending", "Cancelled", "Exhausted"}
      BY <2>1, SweepSettles
    <3> QED  BY <1>1, <2>1, <3>1 DEF StaysOrSettles
  <2>2. CASE Current(c) \notin ExpiredAttempts(s)
    <3>1. Swept(s)[c] = targetState[c]
      BY <2>2, SweepSettles
    <3>2. CASE targetState'[c] = targetState[c]
      BY <1>1, <2>2, <3>2 DEF StaysOrSettles
    <3>3. CASE targetState[c] \in {"Succeeded", "Failed"} /\ targetState'[c] = "RollingBack"
      <4>1. Current(c) \notin open
        BY <3>3, CurrentType DEF Ledger, OpenIsCurrent
      <4> QED  BY <1>1, <3>3, <4>1 DEF StaysOrSettles
    <3> QED  BY <3>1, <3>2, <3>3
  <2> QED  BY <2>1, <2>2
<1>3. Ledger'
  <2>1. \A r \in reports' : r.attempt \in issued
    BY DEF Ledger, OnlyIssued
  <2> QED  BY <1>1, <1>2, <2>1, SettlingKeepsLedger
<1>4. OutstandingCounts'
  BY SweptWasOpen, FinishCounts, LedgerCounts
<1> QED  BY <1>3, <1>4

(* After the sweep still nothing compensates.                               *)
LEMMA SweptIsCalm ==
  ASSUME LedgerInv, rolloutState # "RollingBack", NEW s \in Stages
  PROVE  /\ Swept(s) \in [Cells -> TargetStates]
         /\ \A c \in Cells : Swept(s)[c] # "RollingBack"
<1>1. \A c \in Cells : targetState[c] # "RollingBack"
  BY NothingCompensates DEF LedgerInv
<1> QED  BY <1>1, SweepType, SweepSettles DEF LedgerInv, CursorInv

LEMMA FailStageKeepsLedger ==
  ASSUME LedgerInv, NEW s \in Stages, s = cursor, rolloutState # "RollingBack",
         UNCHANGED <<generation, attemptsMade, issued, reports, cancelled>>,
         Finish(ExpiredAttempts(s)), FailStage(s, Swept(s))
  PROVE  Kept
<1> DEFINE ss == [stageState EXCEPT ![s] = "Failed"]
<1>1. Unwind(Swept(s), ss)
  BY DEF FailStage
<1>2. /\ Swept(s) \in [Cells -> TargetStates]
      /\ \A c \in Cells : Swept(s)[c] # "RollingBack"
  BY SweptIsCalm
<1>3. \A r \in Stages : ss[r] # "Gated"
  BY OnlyTheCurrentStageRuns DEF LedgerInv, CursorInv, TypeOK
<1> HIDE DEF ss
<1>4. \A c \in Cells : \/ targetState'[c] = Swept(s)[c]
                       \/ Swept(s)[c] \in {"Succeeded", "Failed"}
                            /\ targetState'[c] = "RollingBack"
  BY <1>1, <1>2, UnwindMarks
<1>5. CompensationUnderWay'
  BY <1>1, <1>2, <1>3, UnwindKeepsUnderWay
<1> QED  BY <1>4, <1>5, SweepKeepsLedger DEF Kept

LEMMA HeldStageKeepsLedger ==
  ASSUME LedgerInv, NEW s \in Stages, rolloutState \notin {"RollingBack", "Paused"},
         UNCHANGED <<generation, attemptsMade, issued, reports, cancelled>>,
         Finish(ExpiredAttempts(s)), targetState' = Swept(s),
         rolloutState' \notin {"RollingBack", "Paused"}
  PROVE  Kept
<1>1. \A c \in Cells : targetState'[c] # "RollingBack"
  BY SweptIsCalm
<1>2. CompensationUnderWay'
  BY <1>1, CalmKeepsUnderWay
<1> QED  BY <1>2, SweepKeepsLedger DEF Kept

LEMMA RunStageKeepsLedger ==
  ASSUME LedgerInv, NEW s \in Stages, NEW held,
         FailRunningStage(s) \/ HoldStage(s, held) \/ StartSoak(s, held)
           \/ CompleteStage(s, held)
  PROVE  Kept
<1>1. /\ s = cursor /\ rolloutState \in {"Running", "Soaking", "Advancing"}
      /\ UNCHANGED <<generation, attemptsMade, issued, reports, cancelled>>
      /\ Finish(ExpiredAttempts(s))
  BY DEF FailRunningStage, HoldStage, StartSoak, CompleteStage, Proceeding, Advancing, Ticking
<1> DEFINE Holds == /\ targetState' = Swept(s)
                    /\ rolloutState' \in {"Running", "Soaking", "Advancing", "Gated",
                                          "Completed"}
<1>2. FailStage(s, Swept(s)) \/ Holds
  <2>1. CASE FailRunningStage(s)
    BY <2>1 DEF FailRunningStage
  <2>2. CASE HoldStage(s, held)
    BY <1>1, <2>2 DEF HoldStage
  <2>3. CASE StartSoak(s, held)
    BY <1>1, <2>3 DEF StartSoak, Moved
  <2>4. CASE CompleteStage(s, held)
    BY <1>1, <2>4 DEF CompleteStage, OpenGate, SucceedStage, Moved
  <2> QED  BY <2>1, <2>2, <2>3, <2>4
<1>3. CASE FailStage(s, Swept(s))
  BY <1>1, <1>3, FailStageKeepsLedger
<1>4. CASE Holds
  BY <1>1, <1>4, HeldStageKeepsLedger
<1> QED  BY <1>2, <1>3, <1>4

LEMMA DispatchBatchKeepsLedger ==
  ASSUME LedgerInv, NEW s \in Stages, NEW held, DispatchBatch(s, held)
  PROVE  Kept
<1> USE DEF LedgerInv, CursorInv
<1>1. /\ rolloutState \in {"Running", "Soaking", "Advancing"}
      /\ UNCHANGED <<rolloutState, generation, reports, cancelled>>
  BY DEF DispatchBatch, Proceeding, Advancing, Ticking
<1>2. PICK accepted \in SUBSET Cells :
        /\ accepted \subseteq {c \in StageCells(s) : Swept(s)[c] = "Pending"}
        /\ Dispatch(accepted)
        /\ targetState' = [c \in Cells |->
              IF c \in accepted THEN "Dispatched" ELSE Swept(s)[c]]
        /\ open' = (open \ ExpiredAttempts(s)) \cup (issued' \ issued)
        /\ outstanding' = OutstandingAfter(ExpiredAttempts(s)) + Cardinality(accepted)
  BY BatchAccepted
<1> DEFINE left == open \ ExpiredAttempts(s)
<1>3. \A c \in accepted : Current(c) \notin left /\ targetState'[c] = "Dispatched"
  <2> SUFFICES ASSUME NEW c \in accepted, Current(c) \in left PROVE FALSE
    BY <1>2
  <2>1. Swept(s)[c] = "Pending" /\ Swept(s)[c] = targetState[c]
    BY <1>2, SweepSettles
  <2> QED  BY <2>1, CurrentType DEF Ledger, OpenIsCurrent
<1>4. \A c \in Cells \ accepted : StaysOrSettles(c, left)
  <2> SUFFICES ASSUME NEW c \in Cells \ accepted PROVE StaysOrSettles(c, left)
    OBVIOUS
  <2>1. targetState'[c] = Swept(s)[c]
    BY <1>2
  <2> QED  BY <2>1, SweepSettles DEF StaysOrSettles
<1>5. Ledger'
  BY <1>1, <1>2, <1>3, <1>4, DispatchKeepsLedger
<1>6. CompensationUnderWay'
  <2>1. \A c \in Cells : targetState'[c] # "RollingBack"
    BY <1>1, <1>2, SweptIsCalm
  <2> QED  BY <1>1, <2>1, CalmKeepsUnderWay
<1>7. OutstandingCounts'
  <2>1. outstanding' = Cardinality(OpenNow \ ExpiredAttempts(s)) + Cardinality(accepted)
    BY <1>2, SweptWasOpen, FinishedWasCounted, LedgerCounts
  <2> QED  BY <1>1, <1>2, <2>1, SweptWasOpen, DispatchCounts, LedgerCounts
<1> QED  BY <1>5, <1>6, <1>7 DEF Kept

LEMMA AdvanceRollbackKeepsLedger ==
  ASSUME LedgerInv, AdvanceRollback
  PROVE  Kept
<1> USE DEF LedgerInv, CursorInv
<1>1. PICK accepted \in SUBSET {c \in RollbackPending : Current(c) \notin open} :
        /\ Dispatch(accepted)
        /\ open' = open \cup (issued' \ issued)
        /\ outstanding' = outstanding + Cardinality(accepted)
  BY DEF AdvanceRollback, Acceptable
<1>2. UNCHANGED <<rolloutState, resumeState, generation, stageState, targetState, reports,
                  cancelled>>
  BY DEF AdvanceRollback, Ticking
<1>3. accepted \in SUBSET Cells
      /\ \A c \in accepted : Current(c) \notin open /\ targetState'[c] = "RollingBack"
  BY <1>1, <1>2 DEF RollbackPending
<1>4. \A c \in Cells \ accepted : StaysOrSettles(c, open)
  BY <1>2 DEF StaysOrSettles
<1>5. Ledger'
  BY <1>1, <1>2, <1>3, <1>4, DispatchKeepsLedger
<1>6. CompensationUnderWay'
  BY <1>2 DEF CompensationUnderWay
<1>7. OutstandingCounts'
  <2>1. OpenNow \ {} = OpenNow /\ open \ {} = open /\ {} \subseteq OpenNow
    OBVIOUS
  <2>2. outstanding' = Cardinality(OpenNow \ {}) + Cardinality(accepted)
    BY <1>1, <2>1 DEF OutstandingCounts
  <2> QED  BY <1>1, <1>2, <1>3, <2>1, <2>2, DispatchCounts, LedgerCounts
<1> QED  BY <1>5, <1>6, <1>7 DEF Kept

LEMMA AdvanceKeepsLedger ==
  ASSUME LedgerInv, Advance
  PROVE  Kept
<1> USE DEF LedgerInv, CursorInv, stageVars, targetVars, attemptVars, Ticking
<1> DEFINE Quiet == UNCHANGED <<resumeState, generation, targetState, attemptsMade, open,
                                outstanding, issued, reports, cancelled>>
<1>1. ASSUME Quiet PROVE Ledger' /\ OutstandingCounts'
  <2>1. \A c \in Cells : StaysOrSettles(c, open')
    BY <1>1 DEF StaysOrSettles
  <2>2. \A r \in reports' : r.attempt \in issued
    BY <1>1 DEF Ledger, OnlyIssued
  <2> QED  BY <1>1, <2>1, <2>2, SettlingKeepsLedger, UncountedStep
<1>2. CASE AdvanceIdle
  <2>1. Quiet /\ UNCHANGED <<rolloutState, stageState>>
    BY <1>2 DEF AdvanceIdle
  <2>2. CompensationUnderWay'
    BY <2>1 DEF CompensationUnderWay
  <2> QED  BY <1>1, <2>1, <2>2 DEF Kept
<1>3. CASE FinishRollback
  <2>1. Quiet
    BY <1>3 DEF FinishRollback
  <2>2. /\ rolloutState = "RollingBack" /\ rolloutState' \in {"RollingBack", "Failed"}
        /\ \A s \in Stages : stageState'[s] \in {stageState[s], "RolledBack"}
    BY <1>3 DEF FinishRollback
  <2>3. \A c \in Cells : targetState[c] # "RollingBack"
    BY <1>3 DEF FinishRollback, RollbackPending, CompensationUnderWay
  <2>4. CompensationUnderWay'
    BY <2>1, <2>2, <2>3 DEF CompensationUnderWay
  <2> QED  BY <1>1, <2>1, <2>4 DEF Kept
<1>4. ASSUME NEW s \in Stages, BeginStage(s) PROVE Kept
  <2>1. Quiet
    BY <1>4 DEF BeginStage, Advancing
  <2>2. /\ rolloutState \in {"Running", "Soaking", "Advancing"}
        /\ rolloutState' \in {"Running", "Soaking", "Advancing", "Gated"}
    BY <1>4 DEF BeginStage, Advancing, OpenGate, Moved
  <2>3. \A c \in Cells : targetState'[c] # "RollingBack"
    BY <2>1, <2>2, NothingCompensates
  <2>4. CompensationUnderWay'
    BY <2>2, <2>3, CalmKeepsUnderWay
  <2> QED  BY <1>1, <2>1, <2>4 DEF Kept
<1> QED
  BY <1>2, <1>3, <1>4, AdvanceRollbackKeepsLedger, DispatchBatchKeepsLedger,
     RunStageKeepsLedger
     DEF Advance, RunStage

-----------------------------------------------------------------------------
LEMMA NextKeepsLedgerInv == LedgerInv /\ [Next]_vars => LedgerInv'
<1> SUFFICES ASSUME LedgerInv, [Next]_vars PROVE LedgerInv'
  OBVIOUS
<1>1. CursorInv'
  BY NextKeepsCursorInv DEF LedgerInv
<1>2. CASE Next
  BY <1>1, <1>2, CommandKeepsLedger, EvidenceKeepsLedger, AdvanceKeepsLedger,
     EnvironmentKeepsLedger
     DEF Next, Kept, LedgerInv
<1>3. CASE UNCHANGED vars
  <2>1. Ledger'
    BY <1>3 DEF vars, rolloutVars, targetVars, attemptVars, planeVars, LedgerInv, Ledger,
                IssuedSoFar, OnlyIssued, OpenIsCurrent, DispatchedIsOpen,
                CompensationStands, SuccessIsAttested, Current
  <2>2. CompensationUnderWay' /\ OutstandingCounts'
    BY <1>3 DEF vars, rolloutVars, stageVars, targetVars, attemptVars, LedgerInv,
                CompensationUnderWay, OutstandingCounts, OpenNow
  <2> QED  BY <1>1, <2>1, <2>2 DEF LedgerInv
<1> QED  BY <1>2, <1>3

(* The inductive invariant of attempts and compensation holds.              *)
THEOREM LedgerInvariant == Spec => []LedgerInv
BY InitLedgerInv, NextKeepsLedgerInv, PTL DEF Spec

(* The bookkeeping of attempts agrees with the targets, whatever the order  *)
(* of dispatches, reports, deadlines, cancels and regenerations; the guard  *)
(* that keeps outstanding_attempts from wrapping never has work to do.      *)
THEOREM AttemptsAgree == Spec => []AttemptLedger
<1>1. LedgerInv => AttemptLedger
  BY DEF LedgerInv, Ledger, OpenIsCurrent, DispatchedIsOpen, OutstandingCounts, OpenNow,
         AttemptLedger
<1> QED  BY <1>1, LedgerInvariant, PTL

(* No target is counted as changed or restored but on a report for its last *)
(* attempt in this generation, and never on a cancelled one.                *)
THEOREM SuccessesAreAttested == Spec => []SuccessIsAttested
<1>1. LedgerInv => SuccessIsAttested
  BY DEF LedgerInv, Ledger
<1> QED  BY <1>1, LedgerInvariant, PTL
=============================================================================
