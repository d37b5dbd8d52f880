----------------------------- MODULE StageProofs -----------------------------
(***************************************************************************)
(* Theorems about the targets and the stages of one rollout.  Every handler *)
(* moves a target along the closed target table, within its attempt budget, *)
(* and through every declared step of its compensation; a gate holds back   *)
(* what it should, a completed rollout leaves nothing open, and a stage has *)
(* no more under change at a time than it allows.                           *)
(*                                                                          *)
(* The handlers assign TargetRuntime fields from a dozen places.  Seen from *)
(* one cell they make seven moves (CellMoves), and what holds of a target   *)
(* follows from the moves.                                                  *)
(***************************************************************************)
EXTENDS RolloutProofs

-----------------------------------------------------------------------------
(* The inductive invariant.                                                 *)

(* No handler leaves a target failed or unknown: what failed is retried or  *)
(* exhausted.                                                               *)
OnlyReached == \A c \in Cells : targetState[c] \notin {"Failed", "Unknown"}

(* Only a cancelled attempt is acknowledged as stopped.  With               *)
(* CompensationStands it keeps a compensation attempt from ending without   *)
(* an outcome, which would spend an attempt and take no step.               *)
StoppedWasCancelled ==
  \A r \in reports : r.outcome = "stopped" => r.attempt \in cancelled

(* AttemptBudget, for every state a target can be in: compensation may make *)
(* one attempt for each step it has taken and one that is open or failed.   *)
Spent(c) ==
  LET budget == Policy[c[1]].maxAttempts
      made   == attemptsMade[c]
      step   == rollbackStep[c]
  IN  /\ targetState[c] = "Pending" => made < budget
      /\ targetState[c] \in {"Dispatched", "Succeeded", "Cancelled"} => made <= budget
      /\ targetState[c] = "Exhausted" => made = budget
      /\ targetState[c] = "RollingBack" /\ Current(c) \notin open => made <= budget + step
      /\ targetState[c] \in {"RollingBack", "RollbackFailed"} => made <= budget + step + 1
      /\ targetState[c] = "RolledBack" => made <= budget + step

(* What compensates was tried before, and has steps left.                   *)
Compensating(c) ==
  LET steps == Policy[c[1]].compensation
  IN  /\ targetState[c] = "RolledBack" => steps > 0 /\ rollbackStep[c] = steps
      /\ targetState[c] \in {"RollingBack", "RollbackFailed"} => rollbackStep[c] < steps
      /\ targetState[c] = "RollingBack" => attemptsMade[c] > 0

TargetInv ==
  /\ LedgerInv /\ OnlyReached /\ StoppedWasCancelled
  /\ \A c \in Cells : Spent(c) /\ Compensating(c)

-----------------------------------------------------------------------------
(* The moves of one cell.                                                   *)

Counters(c) == <<attemptsMade[c], rollbackStep[c]>>

Stays(c) ==
  /\ targetState'[c] = targetState[c] /\ Counters(c)' = Counters(c)
  /\ Current(c) \in open => Current(c) \in open'

(* A first dispatch, a retry, or a retry in the tick whose sweep timed the  *)
(* last attempt out.                                                        *)
IsDispatched(c) ==
  /\ targetState[c] \in {"Pending", "Dispatched"}
  /\ attemptsMade[c] < Policy[c[1]].maxAttempts
  /\ targetState'[c] = "Dispatched"
  /\ attemptsMade'[c] = attemptsMade[c] + 1 /\ rollbackStep'[c] = rollbackStep[c]

Settles(c) ==
  /\ targetState[c] = "Dispatched" /\ Counters(c)' = Counters(c)
  /\ targetState'[c] \in {"Succeeded", "Cancelled", RetryOrExhaust(c)}

IsMarked(c) ==
  /\ targetState[c] = "Succeeded" /\ Policy[c[1]].compensation > 0
  /\ targetState'[c] = "RollingBack"
  /\ attemptsMade'[c] = attemptsMade[c] /\ rollbackStep'[c] = 0

StepIssued(c) ==
  /\ targetState[c] = "RollingBack" /\ targetState'[c] = "RollingBack"
  /\ Current(c) \notin open /\ Current(c)' \in open'
  /\ attemptsMade'[c] = attemptsMade[c] + 1 /\ rollbackStep'[c] = rollbackStep[c]

StepTaken(c) ==
  /\ targetState[c] = "RollingBack"
  /\ targetState'[c] = IF rollbackStep[c] + 1 >= Policy[c[1]].compensation
                       THEN "RolledBack" ELSE "RollingBack"
  /\ attemptsMade'[c] = attemptsMade[c] /\ rollbackStep'[c] = rollbackStep[c] + 1

StepFails(c) ==
  /\ targetState[c] = "RollingBack" /\ targetState'[c] = "RollbackFailed"
  /\ Counters(c)' = Counters(c)

CellMoves(c) ==
  \/ Stays(c) \/ IsDispatched(c) \/ Settles(c) \/ IsMarked(c)
  \/ StepIssued(c) \/ StepTaken(c) \/ StepFails(c)

LEMMA CellTypes ==
  ASSUME TypeOK, NEW c \in Cells
  PROVE  /\ attemptsMade[c] \in Nat /\ rollbackStep[c] \in Nat
         /\ targetState[c] \in TargetStates
         /\ Policy[c[1]].maxAttempts \in Nat \ {0}
         /\ Policy[c[1]].compensation \in Nat
<1>1. Policy[c[1]] \in PolicyRecords
  BY PlanAssumption, CellsFinite DEF PlanAssumption
<1> QED  BY <1>1 DEF TypeOK, PolicyRecords

(* The epoch a dispatch uses next was never issued.                         *)
LEMMA NextAttemptIsNew ==
  ASSUME TypeOK, IssuedSoFar, NEW c \in Cells
  PROVE  [gen |-> generation, cell |-> c, epoch |-> attemptsMade[c] + 1] \notin issued
<1> DEFINE next == [gen |-> generation, cell |-> c, epoch |-> attemptsMade[c] + 1]
<1> SUFFICES ASSUME next \in issued PROVE FALSE
  OBVIOUS
<1>1. next.gen = generation /\ next.cell = c /\ next.epoch = attemptsMade[c] + 1
  OBVIOUS
<1>2. attemptsMade[c] + 1 <= attemptsMade[c]
  BY <1>1 DEF IssuedSoFar
<1> QED  BY <1>2, CellTypes

(* A handler that leaves the targets and their attempts alone.              *)
LEMMA StillCells ==
  ASSUME UNCHANGED <<targetState, attemptsMade, rollbackStep>>, open \subseteq open'
  PROVE  \A c \in Cells : CellMoves(c)
BY DEF CellMoves, Stays, Counters

(* begin_rollback, or a failure without compensation.                       *)
LEMMA UnwindMovesCell ==
  ASSUME TypeOK, NEW ts \in [Cells -> TargetStates], NEW ss, Unwind(ts, ss),
         attemptsMade' = attemptsMade,
         NEW c \in Cells, ts[c] # "Failed",
         \/ ts[c] = targetState[c] /\ (Current(c) \in open => Current(c) \in open')
         \/ targetState[c] = "Dispatched" /\ ts[c] \in {"Cancelled", RetryOrExhaust(c)}
  PROVE  CellMoves(c)
<1>1. \/ targetState'[c] = ts[c] /\ rollbackStep'[c] = rollbackStep[c]
      \/ /\ ts[c] = "Succeeded" /\ Policy[c[1]].compensation > 0
         /\ targetState'[c] = "RollingBack" /\ rollbackStep'[c] = 0
  BY DEF Unwind, BeginRollback
<1>2. RetryOrExhaust(c) # "Succeeded"
  BY DEF RetryOrExhaust
<1> QED  BY <1>1, <1>2 DEF CellMoves, Stays, Settles, IsMarked, Counters

(* The deadline sweep, seen from one cell.                                  *)
LEMMA SweepMovesCell ==
  ASSUME TypeOK, NEW s \in Stages, NEW c \in Cells
  PROVE  \/ Swept(s)[c] = targetState[c] /\ Current(c) \notin ExpiredAttempts(s)
         \/ /\ targetState[c] = "Dispatched" /\ Current(c) \in ExpiredAttempts(s)
            /\ Swept(s)[c] \in {"Cancelled", RetryOrExhaust(c)}
<1>1. \A d \in Cells : Current(d) = Current(c) => d = c
  BY CurrentType
<1>2. CASE c \in Expired(s)
  BY <1>2 DEF Swept, ExpiredAttempts, Expired
<1>3. CASE c \notin Expired(s)
  BY <1>1, <1>3 DEF Swept, ExpiredAttempts, Expired, StageCells
<1> QED  BY <1>2, <1>3

-----------------------------------------------------------------------------
(* Every handler but regenerate moves cells so.                             *)

LEMMA CommandMovesCells ==
  ASSUME TargetInv, Command, generation' = generation
  PROVE  \A c \in Cells : CellMoves(c)
<1> USE DEF TargetInv, LedgerInv, CursorInv
<1>1. CASE Arm \/ Start \/ Pause \/ Resume \/ AbortInterrupted \/ Retire
  BY <1>1, StillCells
     DEF Arm, Start, Pause, Resume, AbortInterrupted, Retire, targetVars, attemptVars
<1>2. CASE ApproveGate
  BY <1>2, StillCells DEF ApproveGate, ApproveEntry, ApproveCompletion, ApproveTooLate,
                          Approving, targetVars, attemptVars
<1>3. CASE Abort
  <2> TAKE c \in Cells
  <2>1. Unwind(targetState, [s \in Stages |-> AbortedStage(stageState[s])])
        /\ UNCHANGED <<attemptsMade, open>>
    BY <1>3 DEF Abort
  <2>2. targetState[c] # "Failed" /\ targetState \in [Cells -> TargetStates]
    BY DEF OnlyReached, TypeOK
  <2> QED  BY <2>1, <2>2, UnwindMovesCell
<1>4. CASE Regenerate
  <2>1. generation' = generation + 1 /\ generation \in Int
    BY <1>4 DEF Regenerate, TypeOK
  <2> QED  BY <2>1
<1> QED  BY <1>1, <1>2, <1>3, <1>4 DEF Command

LEMMA EvidenceMovesCells ==
  ASSUME TargetInv, DrainEvidence
  PROVE  \A c \in Cells : CellMoves(c)
<1> USE DEF TargetInv, LedgerInv, CursorInv
<1>1. PICK r \in reports : ApplyStopped(r) \/ ApplyCompensation(r) \/ ApplyExecution(r)
  BY DEF DrainEvidence
<1> DEFINE a == r.attempt
           d == r.attempt.cell
<1>2. /\ a \in open /\ a.gen = generation /\ d \in Cells
      /\ open' = open \ {a} /\ attemptsMade' = attemptsMade
      /\ r.outcome \in Outcomes
  BY <1>1 DEF ApplyStopped, ApplyCompensation, ApplyExecution, Apply, Admitted, Finish,
              TypeOK, Reports, Attempts
<1>3. a = Current(d) /\ targetState[d] \in {"Dispatched", "RollingBack"}
  BY <1>2 DEF Ledger, OpenIsCurrent
<1> HIDE DEF a, d
<1>4. ASSUME NEW c \in Cells, c # d PROVE CellMoves(c)
  <2>1. targetState'[c] = targetState[c] /\ rollbackStep'[c] = rollbackStep[c]
    BY <1>1, <1>4 DEF ApplyStopped, ApplyCompensation, ApplyExecution, Settle, TypeOK, d
  <2>2. Current(c) # a
    BY <1>2, <1>3, <1>4, CurrentType
  <2> QED  BY <1>2, <2>1, <2>2 DEF CellMoves, Stays, Counters
<1>5. CellMoves(d)
  <2>1. CASE ApplyStopped(r)
    <3>1. a \in cancelled
      BY <2>1 DEF ApplyStopped, StoppedWasCancelled, a
    <3>2. targetState[d] = "Dispatched"
      BY <1>2, <1>3, <3>1 DEF Ledger, CompensationStands
    <3>3. targetState'[d] = "Cancelled" /\ rollbackStep'[d] = rollbackStep[d]
      BY <1>2, <2>1, <3>2 DEF ApplyStopped, Settle, TypeOK, d
    <3> QED  BY <1>2, <3>2, <3>3 DEF CellMoves, Settles, Counters
  <2>2. CASE ApplyCompensation(r)
    <3>1. targetState[d] = "RollingBack"
      BY <2>2 DEF ApplyCompensation, d
    <3>2. \/ /\ rollbackStep'[d] = rollbackStep[d] + 1
             /\ targetState'[d] = IF rollbackStep[d] + 1 >= Policy[d[1]].compensation
                                  THEN "RolledBack" ELSE "RollingBack"
          \/ rollbackStep'[d] = rollbackStep[d] /\ targetState'[d] = "RollbackFailed"
      BY <1>2, <2>2 DEF ApplyCompensation, Settle, TypeOK, d
    <3> QED  BY <1>2, <3>1, <3>2 DEF CellMoves, StepTaken, StepFails, Counters
  <2>3. CASE ApplyExecution(r)
    <3>1. /\ targetState[d] = "Dispatched" /\ rollbackStep'[d] = rollbackStep[d]
          /\ targetState'[d] = ExecutionSettles(r)
      BY <1>2, <1>3, <2>3 DEF ApplyExecution, Settle, TypeOK, d
    <3>2. ExecutionSettles(r) \in {"Succeeded", "Cancelled", RetryOrExhaust(d)}
      BY DEF ExecutionSettles, d
    <3> QED  BY <1>2, <3>1, <3>2 DEF CellMoves, Settles, Counters
  <2> QED  BY <1>1, <2>1, <2>2, <2>3
<1> QED  BY <1>4, <1>5

LEMMA DispatchBatchMovesCells ==
  ASSUME TargetInv, NEW s \in Stages, NEW held, DispatchBatch(s, held)
  PROVE  \A c \in Cells : CellMoves(c)
<1> USE DEF TargetInv, LedgerInv, CursorInv
<1>1. PICK accepted \in SUBSET Cells :
        /\ accepted \subseteq {c \in StageCells(s) : Swept(s)[c] = "Pending"}
        /\ Dispatch(accepted)
        /\ targetState' = [c \in Cells |->
              IF c \in accepted THEN "Dispatched" ELSE Swept(s)[c]]
        /\ open' = (open \ ExpiredAttempts(s)) \cup (issued' \ issued)
  BY BatchAccepted
<1>2. rollbackStep' = rollbackStep
  BY DEF DispatchBatch
<1> TAKE c \in Cells
<1>3. CASE c \in accepted
  <2>1. attemptsMade'[c] = attemptsMade[c] + 1
    BY <1>1, <1>3 DEF Dispatch
  <2>2. targetState[c] \in {"Pending", "Dispatched"}
        /\ attemptsMade[c] < Policy[c[1]].maxAttempts
    <3>1. CASE Swept(s)[c] = targetState[c]
      BY <1>1, <1>3, <3>1 DEF Spent
    <3>2. CASE targetState[c] = "Dispatched" /\ Swept(s)[c] \in {"Cancelled", RetryOrExhaust(c)}
      BY <1>1, <1>3, <3>2 DEF RetryOrExhaust
    <3> QED  BY <3>1, <3>2, SweepMovesCell
  <2> QED  BY <1>1, <1>2, <1>3, <2>1, <2>2 DEF CellMoves, IsDispatched
<1>4. CASE c \notin accepted
  <2>1. targetState'[c] = Swept(s)[c] /\ attemptsMade'[c] = attemptsMade[c]
    BY <1>1, <1>4 DEF Dispatch
  <2>2. Current(c) \notin ExpiredAttempts(s) => (Current(c) \in open => Current(c) \in open')
    BY <1>1
  <2> QED  BY <1>2, <2>1, <2>2, SweepMovesCell DEF CellMoves, Stays, Settles, Counters
<1> QED  BY <1>3, <1>4

LEMMA RunStageMovesCells ==
  ASSUME TargetInv, NEW s \in Stages, NEW held,
         FailRunningStage(s) \/ HoldStage(s, held) \/ StartSoak(s, held)
           \/ CompleteStage(s, held)
  PROVE  \A c \in Cells : CellMoves(c)
<1> USE DEF TargetInv, LedgerInv, CursorInv
<1>1. open' = open \ ExpiredAttempts(s) /\ attemptsMade' = attemptsMade
  BY DEF FailRunningStage, HoldStage, StartSoak, CompleteStage, Finish
<1>2. FailStage(s, Swept(s)) \/ (targetState' = Swept(s) /\ rollbackStep' = rollbackStep)
  BY DEF FailRunningStage, HoldStage, StartSoak, CompleteStage
<1> TAKE c \in Cells
<1>3. \/ /\ Swept(s)[c] = targetState[c]
         /\ Current(c) \in open => Current(c) \in open'
      \/ targetState[c] = "Dispatched" /\ Swept(s)[c] \in {"Cancelled", RetryOrExhaust(c)}
  BY <1>1, SweepMovesCell
<1>4. CASE FailStage(s, Swept(s))
  <2>1. Swept(s)[c] # "Failed"
    BY <1>3 DEF OnlyReached, RetryOrExhaust
  <2>2. Swept(s) \in [Cells -> TargetStates]
    BY SweepType
  <2> QED  BY <1>1, <1>3, <1>4, <2>1, <2>2, UnwindMovesCell DEF FailStage
<1>5. CASE targetState' = Swept(s) /\ rollbackStep' = rollbackStep
  BY <1>1, <1>3, <1>5 DEF CellMoves, Stays, Settles, Counters
<1> QED  BY <1>2, <1>4, <1>5

LEMMA AdvanceRollbackMovesCells ==
  ASSUME TargetInv, AdvanceRollback
  PROVE  \A c \in Cells : CellMoves(c)
<1> USE DEF TargetInv, LedgerInv, CursorInv
<1>1. PICK accepted \in SUBSET {c \in RollbackPending : Current(c) \notin open} :
        Dispatch(accepted) /\ open' = open \cup (issued' \ issued)
  BY DEF AdvanceRollback, Acceptable
<1>2. UNCHANGED <<targetState, rollbackStep, generation>>
  BY DEF AdvanceRollback, Ticking
<1> TAKE c \in Cells
<1>3. CASE c \in accepted
  <2>1. targetState[c] = "RollingBack" /\ Current(c) \notin open
    BY <1>3 DEF RollbackPending
  <2>2. attemptsMade'[c] = attemptsMade[c] + 1
    BY <1>1, <1>3 DEF Dispatch
  <2>3. Current(c)' \in issued'
    BY <1>1, <1>2, <1>3, <2>2 DEF Dispatch, Current
  <2>4. Current(c)' \notin issued
    BY <1>2, <2>2, NextAttemptIsNew, LedgerCounts DEF Current
  <2> QED  BY <1>1, <1>2, <2>1, <2>2, <2>3, <2>4 DEF CellMoves, StepIssued
<1>4. CASE c \notin accepted
  <2>1. attemptsMade'[c] = attemptsMade[c]
    BY <1>1, <1>4 DEF Dispatch
  <2> QED  BY <1>1, <1>2, <2>1 DEF CellMoves, Stays, Counters
<1> QED  BY <1>3, <1>4

LEMMA NextMovesCells ==
  ASSUME TargetInv, [Next]_vars, generation' = generation
  PROVE  \A c \in Cells : CellMoves(c)
<1>1. CASE Advance
  <2>1. CASE AdvanceIdle \/ FinishRollback
    BY <2>1, StillCells DEF AdvanceIdle, FinishRollback, targetVars, attemptVars
  <2>2. CASE \E s \in Stages : BeginStage(s)
    BY <2>2, StillCells DEF BeginStage, targetVars
  <2> QED  BY <1>1, <2>1, <2>2, AdvanceRollbackMovesCells, DispatchBatchMovesCells,
              RunStageMovesCells DEF Advance, RunStage
<1>2. CASE Environment
  BY <1>2, StillCells DEF Environment, WorkerReports, DeadlinePasses, SoakElapses,
                          targetVars, attemptVars
<1>3. CASE UNCHANGED vars
  BY <1>3, StillCells DEF vars, targetVars, attemptVars
<1> QED  BY <1>1, <1>2, <1>3, CommandMovesCells, EvidenceMovesCells DEF Next

(* Only regenerate leaves a generation, and every cell starts over.         *)
LEMMA NewGeneration ==
  ASSUME TypeOK, [Next]_vars, generation' # generation
  PROVE  Regenerate
<1>1. CASE Command
  BY <1>1 DEF Command, Arm, Start, Pause, Resume, Abort, AbortInterrupted, ApproveGate,
              ApproveEntry, ApproveCompletion, ApproveTooLate, Approving, Retire
<1>2. CASE DrainEvidence
  BY <1>2 DEF DrainEvidence, ApplyStopped, ApplyCompensation, ApplyExecution, Apply,
              rolloutVars
<1>3. CASE Advance
  BY <1>3 DEF Advance, AdvanceIdle, AdvanceRollback, FinishRollback, BeginStage, RunStage,
              FailRunningStage, DispatchBatch, HoldStage, StartSoak, CompleteStage,
              Proceeding, Advancing, Ticking
<1>4. CASE Environment
  BY <1>4 DEF Environment, WorkerReports, DeadlinePasses, SoakElapses, rolloutVars
<1> QED  BY <1>1, <1>2, <1>3, <1>4 DEF Next, vars, rolloutVars

-----------------------------------------------------------------------------
(* The invariant is inductive.                                              *)

LEMMA InitTargetInv == Init => TargetInv
<1> SUFFICES ASSUME Init PROVE TargetInv
  OBVIOUS
<1>1. LedgerInv
  BY InitLedgerInv
<1>2. ASSUME NEW c \in Cells PROVE Spent(c) /\ Compensating(c)
  <2>1. Policy[c[1]].maxAttempts \in Nat \ {0}
    BY <1>1, CellTypes DEF LedgerInv, CursorInv
  <2> QED  BY <2>1 DEF Init, Spent, Compensating
<1> QED  BY <1>1, <1>2 DEF Init, TargetInv, OnlyReached, StoppedWasCancelled

LEMMA MovesKeepSpent ==
  ASSUME TypeOK, TypeOK', NEW c \in Cells, OnlyReached, Spent(c), CellMoves(c),
         generation' = generation
  PROVE  Spent(c)'
<1> DEFINE budget == Policy[c[1]].maxAttempts
<1>1. /\ attemptsMade[c] \in Nat /\ rollbackStep[c] \in Nat
      /\ targetState[c] \in TargetStates /\ budget \in Nat
  BY CellTypes
<1>2. attemptsMade'[c] = attemptsMade[c] => Current(c)' = Current(c)
  BY DEF Current
<1>3. CASE Stays(c)
  BY <1>2, <1>3 DEF Stays, Counters, Spent
<1>4. CASE IsDispatched(c)
  BY <1>1, <1>4 DEF IsDispatched, Spent
<1>5. CASE Settles(c)
  BY <1>1, <1>5 DEF Settles, Counters, RetryOrExhaust, Spent
<1>6. CASE IsMarked(c)
  BY <1>1, <1>6 DEF IsMarked, Spent
<1>7. CASE StepIssued(c)
  BY <1>1, <1>7 DEF StepIssued, Spent
<1>8. CASE StepTaken(c)
  BY <1>1, <1>8 DEF StepTaken, Spent
<1>9. CASE StepFails(c)
  BY <1>1, <1>9 DEF StepFails, Counters, Spent
<1> QED  BY <1>3, <1>4, <1>5, <1>6, <1>7, <1>8, <1>9 DEF CellMoves

LEMMA MovesKeepCompensating ==
  ASSUME TypeOK, Ledger, NEW c \in Cells, Compensating(c), CellMoves(c)
  PROVE  Compensating(c)'
<1> DEFINE steps == Policy[c[1]].compensation
<1>1. /\ attemptsMade[c] \in Nat /\ rollbackStep[c] \in Nat /\ steps \in Nat
  BY CellTypes
<1>2. CASE Stays(c) \/ StepFails(c)
  BY <1>2 DEF Stays, StepFails, Counters, Compensating
<1>3. CASE IsDispatched(c) \/ Settles(c)
  BY <1>3 DEF IsDispatched, Settles, RetryOrExhaust, Compensating
<1>4. CASE IsMarked(c)
  <2>1. Current(c) \in Attempts
    BY <1>4 DEF IsMarked, Ledger, SuccessIsAttested, TypeOK, Reports
  <2>2. attemptsMade[c] > 0
    BY <1>1, <2>1 DEF Attempts, Current
  <2> QED  BY <1>1, <1>4, <2>2 DEF IsMarked, Compensating
<1>5. CASE StepIssued(c)
  BY <1>1, <1>5 DEF StepIssued, Compensating
<1>6. CASE StepTaken(c)
  BY <1>1, <1>6 DEF StepTaken, Compensating
<1> QED  BY <1>2, <1>3, <1>4, <1>5, <1>6 DEF CellMoves

(* An attempt that was cancelled stays so, and only a worker reports.       *)
LEMMA CancelledAndReports ==
  ASSUME [Next]_vars
  PROVE  /\ cancelled \subseteq cancelled'
         /\ reports' = reports \/ \E a \in issued : WorkerReports(a)
<1>1. CASE Command
  <2>1. cancelled \subseteq cancelled'
    BY <1>1 DEF Command, Arm, Start, Pause, Resume, Abort, AbortInterrupted, ApproveGate,
                ApproveEntry, ApproveCompletion, ApproveTooLate, Approving, Retire, Regenerate,
                attemptVars
  <2>2. reports' = reports
    BY <1>1 DEF Command, Arm, Start, Pause, Resume, Abort, AbortInterrupted, ApproveGate,
                ApproveEntry, ApproveCompletion, ApproveTooLate, Approving, Retire, Regenerate,
                planeVars
  <2> QED  BY <2>1, <2>2
<1>2. CASE DrainEvidence
  BY <1>2 DEF DrainEvidence, ApplyStopped, ApplyCompensation, ApplyExecution, Apply, planeVars
<1>3. CASE AdvanceIdle \/ AdvanceRollback \/ FinishRollback
  BY <1>3 DEF AdvanceIdle, AdvanceRollback, FinishRollback, Ticking, attemptVars, planeVars
<1>4. CASE \E s \in Stages : BeginStage(s)
  BY <1>4 DEF BeginStage, Advancing, Ticking, attemptVars, planeVars
<1>5. CASE \E s \in Stages : RunStage(s)
  BY <1>5 DEF RunStage, FailRunningStage, DispatchBatch, HoldStage, StartSoak, CompleteStage,
              Proceeding, Advancing, Ticking, attemptVars, planeVars
<1>6. CASE Environment
  BY <1>6 DEF Environment, WorkerReports, DeadlinePasses, SoakElapses, attemptVars, planeVars
<1>7. CASE UNCHANGED vars
  BY <1>7 DEF vars, attemptVars, planeVars
<1> QED  BY <1>1, <1>2, <1>3, <1>4, <1>5, <1>6, <1>7 DEF Next, Advance

LEMMA NextKeepsTargetInv == TargetInv /\ [Next]_vars => TargetInv'
<1> SUFFICES ASSUME TargetInv, [Next]_vars PROVE TargetInv'
  OBVIOUS
<1> USE DEF TargetInv, LedgerInv, CursorInv
<1>1. LedgerInv'
  BY NextKeepsLedgerInv
<1>2. StoppedWasCancelled'
  <2>1. cancelled \subseteq cancelled'
    BY CancelledAndReports
  <2>2. \A r \in reports' \ reports : r.outcome = "stopped" => r.attempt \in cancelled
    <3>1. CASE \E a \in issued : WorkerReports(a)
      <4>1. PICK a \in issued, outcome \in Outcomes :
              /\ CASE outcome = "completed" -> \A r \in reports : r.attempt # a
                   [] outcome = "failed"    -> [attempt |-> a, outcome |-> "completed"] \notin reports
                   [] outcome = "stopped"   -> a \in cancelled
              /\ reports' = reports \cup {[attempt |-> a, outcome |-> outcome]}
        BY <3>1, Zenon DEF WorkerReports
      <4>2. outcome = "stopped" => a \in cancelled
        BY <4>1
      <4> QED  BY <4>1, <4>2
    <3>2. CASE reports' = reports
      BY <3>2
    <3> QED  BY <3>1, <3>2, CancelledAndReports
  <2> QED  BY <2>1, <2>2 DEF StoppedWasCancelled
<1>3. CASE generation' = generation
  <2>1. \A c \in Cells : CellMoves(c)
    BY <1>3, NextMovesCells
  <2>2. OnlyReached'
    BY <2>1 DEF OnlyReached, CellMoves, Stays, IsDispatched, Settles, IsMarked, StepIssued,
                StepTaken, StepFails, RetryOrExhaust
  <2>3. \A c \in Cells : Spent(c)' /\ Compensating(c)'
    BY <1>1, <1>3, <2>1, MovesKeepSpent, MovesKeepCompensating
  <2> QED  BY <1>1, <1>2, <2>2, <2>3
<1>4. CASE generation' # generation
  <2>1. Regenerate
    BY <1>4, NewGeneration
  <2>2. OnlyReached'
    BY <2>1 DEF Regenerate, OnlyReached
  <2>3. ASSUME NEW c \in Cells PROVE Spent(c)' /\ Compensating(c)'
    <3>1. Policy[c[1]].maxAttempts \in Nat \ {0}
      BY CellTypes
    <3> QED  BY <2>1, <3>1 DEF Regenerate, Spent, Compensating
  <2> QED  BY <1>1, <1>2, <2>2, <2>3
<1> QED  BY <1>3, <1>4

(* The inductive invariant of what happens to targets holds.                *)
THEOREM TargetInvariant == Spec => []TargetInv
BY InitTargetInv, NextKeepsTargetInv, PTL DEF Spec

-----------------------------------------------------------------------------
(* Within a generation every step of the rollout moves every target along   *)
(* the closed target table, though no handler consults it.                  *)
THEOREM TargetsFollowTheTable == Spec => TargetTableHolds
<1> DEFINE Legal == generation' = generation =>
                      \A c \in Cells : LegalTarget(targetState[c], targetState'[c])
<1>1. TargetInv /\ [Next]_vars => [Legal]_vars
  <2> SUFFICES ASSUME TargetInv, [Next]_vars, generation' = generation, NEW c \in Cells
               PROVE  LegalTarget(targetState[c], targetState'[c])
    OBVIOUS
  <2>1. CellMoves(c)
    BY NextMovesCells
  <2> QED
    BY <2>1 DEF LegalTarget, TargetSuccessors, CellMoves, Stays, IsDispatched, Settles,
                IsMarked, StepIssued, StepTaken, StepFails, RetryOrExhaust
<1>2. TargetTableHolds <=> [][Legal]_vars
  BY DEF TargetTableHolds
<1> QED  BY <1>1, <1>2, TargetInvariant, PTL DEF Spec

(* The attempt budget: a pending target can still be dispatched, an         *)
(* exhausted one has spent its budget, refusals cost nothing, and           *)
(* compensation makes at most one attempt more than the steps it has taken. *)
THEOREM AttemptsStayInBudget == Spec => []AttemptBudget
<1>1. TargetInv => AttemptBudget
  <2> SUFFICES ASSUME TargetInv, NEW c \in Cells
               PROVE  LET budget == Policy[c[1]].maxAttempts
                      IN  /\ attemptsMade[c] <= budget + rollbackStep[c] + 1
                          /\ targetState[c] = "Pending" => attemptsMade[c] < budget
                          /\ targetState[c] = "Dispatched" => attemptsMade[c] <= budget
                          /\ targetState[c] = "Exhausted" => attemptsMade[c] = budget
    BY DEF AttemptBudget
  <2>1. /\ attemptsMade[c] \in Nat /\ rollbackStep[c] \in Nat
        /\ targetState[c] \in TargetStates /\ targetState[c] \notin {"Failed", "Unknown"}
        /\ Policy[c[1]].maxAttempts \in Nat
        /\ Spent(c)
    BY CellTypes DEF TargetInv, LedgerInv, CursorInv, OnlyReached
  <2> QED  BY <2>1, TargetStatesAre DEF Spent
<1> QED  BY <1>1, TargetInvariant, PTL

(* No compensation is outstanding in a rollout that is not rolling back,    *)
(* and a restored target ran every step its stage declares.                 *)
THEOREM CompensationIsSettled == Spec => []CompensationSettled
<1>1. TargetInv => CompensationSettled
  BY DEF TargetInv, LedgerInv, CompensationUnderWay, Compensating, CompensationSettled
<1> QED  BY <1>1, TargetInvariant, PTL

-----------------------------------------------------------------------------
(* Stages: gates, completion, and the targets under change.                 *)

(* The inductive invariant.                                                 *)

(* Rollouts that are giving up, or that gave up before they retired.        *)
Unwound == {"RollingBack", "Failed", "Retired"}

Settled(ts, s) == AllTerminal(ts, s) /\ ~OverBudget(ts, s)

(* Work is issued only in stages that have begun and passed their entry.    *)
WorkHasBegun ==
  \A c \in Cells : attemptsMade[c] > 0 =>
    /\ stageState[c[1]] \notin {"Pending", "Blocked", "Skipped"}
    /\ ~(stageState[c[1]] = "Gated" /\ pendingGate[c[1]] = "entry")

(* A gate opens on a settled stage and is closed by its approval or by the  *)
(* end of the rollout.                                                      *)
GatesWait ==
  \A s \in Stages : stageState[s] = "Gated" =>
    /\ pendingGate[s] # "none" /\ rolloutState \notin Unwound
    /\ pendingGate[s] # "entry" => Settled(targetState, s)

(* What the cursor has passed stays settled, unless it is compensated.      *)
PastIsSettled ==
  rolloutState \notin Unwound =>
    \A s \in Stages : /\ stageState[s] # "RolledBack"
                      /\ s < cursor => Settled(targetState, s)

NothingUndone ==
  rolloutState \notin Unwound =>
    \A c \in Cells : targetState[c] \notin {"RollingBack", "RolledBack", "RollbackFailed"}

(* Only the current stage has targets in flight, a failed rollout included. *)
DispatchedHere == \A c \in Cells : targetState[c] = "Dispatched" => c[1] = cursor

CompletedIsLast == rolloutState = "Completed" => cursor = NumStages + 1

StageInv ==
  /\ TargetInv /\ WorkHasBegun /\ GatesWait /\ PastIsSettled /\ NothingUndone
  /\ DispatchedHere /\ CompletedIsLast

-----------------------------------------------------------------------------
LEMMA InitStageInv == Init => StageInv
<1> SUFFICES ASSUME Init PROVE StageInv
  OBVIOUS
<1>1. TargetInv
  BY InitTargetInv
<1>2. WorkHasBegun /\ GatesWait /\ NothingUndone /\ DispatchedHere /\ CompletedIsLast
  BY DEF Init, WorkHasBegun, GatesWait, NothingUndone, DispatchedHere, CompletedIsLast
<1>3. PastIsSettled
  BY Bounds DEF Init, PastIsSettled
<1> QED  BY <1>1, <1>2, <1>3 DEF StageInv

(* What a stage's cells are in decides whether it is settled.               *)
LEMMA SettledOfCells ==
  ASSUME NEW s \in Stages, NEW ts, NEW us, \A c \in Cells : c[1] = s => us[c] = ts[c]
  PROVE  Settled(us, s) = Settled(ts, s)
<1>1. \A c \in StageCells(s) : us[c] = ts[c]
  BY DEF StageCells
<1>2. FailedCells(us, s) = FailedCells(ts, s)
  BY <1>1 DEF FailedCells
<1>3. AllTerminal(us, s) <=> AllTerminal(ts, s)
  BY <1>1 DEF AllTerminal
<1> QED  BY <1>2, <1>3 DEF Settled, OverBudget

(* A gated stage is the current one of a rollout that has not completed.    *)
LEMMA GatedIsCurrent ==
  ASSUME StageInv, NEW s \in Stages, stageState[s] = "Gated"
  PROVE  s = cursor /\ rolloutState \notin Unwound \cup {"Completed"}
<1>1. s = cursor
  BY OnlyTheCurrentStageRuns DEF StageInv, TargetInv, LedgerInv
<1>2. cursor # NumStages + 1
  BY <1>1, Bounds
<1> QED  BY <1>1, <1>2 DEF StageInv, GatesWait, CompletedIsLast

(* A rollout that gives up does not take up again within its generation.    *)
LEMMA UnwoundStays ==
  ASSUME StageInv, [Next]_vars, rolloutState \in Unwound, generation' = generation
  PROVE  rolloutState' \in Unwound
<1>1. CASE Command
  <2>1. CASE Arm \/ Start \/ Pause \/ Resume \/ Abort \/ AbortInterrupted \/ Retire
    BY <2>1 DEF Unwound, Arm, Start, Pause, Resume, Abort, AbortInterrupted, Retire,
                Abortable, TerminalRollout, Pausable, Unwind, BeginRollback
  <2>2. CASE ApproveGate
    <3>1. \A s \in Stages : stageState[s] # "Gated"
      BY GatedIsCurrent
    <3> QED  BY <2>2, <3>1 DEF ApproveGate, ApproveEntry, ApproveCompletion, ApproveTooLate
  <2>3. CASE Regenerate
    <3>1. generation' = generation + 1 /\ generation \in Int
      BY <2>3 DEF Regenerate, StageInv, TargetInv, LedgerInv, CursorInv, TypeOK
    <3> QED  BY <3>1
  <2> QED  BY <1>1, <2>1, <2>2, <2>3 DEF Command
<1>2. CASE DrainEvidence
  BY <1>2 DEF DrainEvidence, ApplyStopped, ApplyCompensation, ApplyExecution, Apply,
              rolloutVars
<1>3. CASE Advance
  BY <1>3 DEF Unwound, Advance, AdvanceIdle, AdvanceRollback, FinishRollback, BeginStage,
              RunStage, FailRunningStage, DispatchBatch, HoldStage, StartSoak,
              CompleteStage, Proceeding, Advancing
<1>4. CASE Environment
  BY <1>4 DEF Environment, WorkerReports, DeadlinePasses, SoakElapses, rolloutVars
<1> QED  BY <1>1, <1>2, <1>3, <1>4 DEF Next, vars, rolloutVars

LEMMA StepKeepsNothingUndone ==
  ASSUME StageInv, [Next]_vars, generation' = generation
  PROVE  NothingUndone'
<1> SUFFICES ASSUME rolloutState' \notin Unwound, NEW c \in Cells
             PROVE  targetState'[c] \notin {"RollingBack", "RolledBack", "RollbackFailed"}
  BY DEF NothingUndone
<1>1. targetState[c] \notin {"RollingBack", "RolledBack", "RollbackFailed"}
  BY UnwoundStays DEF StageInv, NothingUndone
<1>2. TargetInv'
  BY NextKeepsTargetInv DEF StageInv
<1>3. targetState'[c] # "RollingBack"
  BY <1>2 DEF TargetInv, LedgerInv, CompensationUnderWay, Unwound
<1> QED
  BY <1>1, <1>3, NextMovesCells
     DEF StageInv, CellMoves, Stays, IsDispatched, Settles, IsMarked, StepIssued,
         StepTaken, StepFails, RetryOrExhaust

-----------------------------------------------------------------------------
(* The steps.                                                               *)

StageKept ==
  WorkHasBegun' /\ GatesWait' /\ PastIsSettled' /\ DispatchedHere' /\ CompletedIsLast'

(* A handler that leaves stages, targets and cursor alone, and may move the *)
(* rollout as long as a gate and the past allow for it.                     *)
LEMMA StillStages ==
  ASSUME StageInv,
         UNCHANGED <<cursor, stageState, pendingGate, targetState, attemptsMade>>,
         rolloutState' \in Unwound => \A s \in Stages : stageState[s] # "Gated",
         rolloutState' \notin Unwound => rolloutState \notin Unwound,
         rolloutState' = "Completed" => rolloutState = "Completed"
  PROVE  StageKept
<1> USE DEF StageInv
<1>1. WorkHasBegun' /\ DispatchedHere' /\ CompletedIsLast'
  BY DEF WorkHasBegun, DispatchedHere, CompletedIsLast
<1>2. \A s \in Stages : Settled(targetState, s)' = Settled(targetState, s)
  BY DEF Settled, AllTerminal, OverBudget, FailedCells
<1>3. GatesWait' /\ PastIsSettled'
  BY <1>2 DEF GatesWait, PastIsSettled
<1> QED  BY <1>1, <1>3 DEF StageKept

LEMMA AbortKeepsStages ==
  ASSUME StageInv, Abort \/ AbortInterrupted
  PROVE  StageKept
<1> USE DEF StageInv
<1>1. /\ UNCHANGED <<cursor, pendingGate, attemptsMade>>
      /\ \A s \in Stages : stageState'[s] \in {stageState[s], AbortedStage(stageState[s])}
      /\ \A c \in Cells : targetState'[c] \in {targetState[c], "RollingBack"}
  BY DEF Abort, AbortInterrupted, Unwind, BeginRollback, targetVars, TargetInv, LedgerInv,
         CursorInv, TypeOK
<1>2. \A s \in Stages : stageState'[s] # stageState[s] =>
        stageState'[s] \in {"Skipped", "Aborted"}
  BY <1>1 DEF AbortedStage
<1>3. WorkHasBegun'
  <2>1. \A c \in Cells : attemptsMade[c] > 0 =>
          AbortedStage(stageState[c[1]]) \in {"Aborted", stageState[c[1]]}
    BY DEF WorkHasBegun, AbortedStage
  <2>2. \A c \in Cells : c[1] \in Stages
    BY CellsFinite
  <2> QED  BY <1>1, <2>1, <2>2 DEF WorkHasBegun
<1>4. DispatchedHere'
  BY <1>1 DEF DispatchedHere
<1>5. CASE Abort
  <2>1. rolloutState' \in {"RollingBack", "Failed"}
    BY <1>5 DEF Abort, Unwind, BeginRollback
  <2>2. \A s \in Stages : stageState'[s] # "Gated"
    BY <1>5 DEF Abort, Unwind, AbortedStage, TerminalStage
  <2> QED  BY <1>3, <1>4, <2>1, <2>2 DEF StageKept, GatesWait, PastIsSettled, CompletedIsLast, Unwound
<1>6. CASE AbortInterrupted
  <2>1. /\ rolloutState' = "Aborting" /\ targetState' = targetState
        /\ rolloutState \notin Unwound
    BY <1>6 DEF AbortInterrupted, Abortable, TerminalRollout, Unwound, targetVars
  <2>2. \A s \in Stages : Settled(targetState, s)' = Settled(targetState, s)
    BY <2>1 DEF Settled, AllTerminal, OverBudget, FailedCells
  <2>3. GatesWait'
    BY <1>1, <1>2, <2>1, <2>2 DEF GatesWait, Unwound
  <2>4. PastIsSettled'
    BY <1>1, <1>2, <2>1, <2>2 DEF PastIsSettled
  <2> QED  BY <1>3, <1>4, <2>1, <2>3, <2>4 DEF StageKept, CompletedIsLast
<1> QED  BY <1>5, <1>6

(* The end of the current stage, when it succeeds.                          *)
LEMMA SucceedKeepsStages ==
  ASSUME StageInv, NEW s \in Stages, s = cursor, SucceedStage(s),
         attemptsMade' = attemptsMade, stageState[s] # "Pending",
         \A c \in Cells : c[1] # s => targetState'[c] = targetState[c],
         AllTerminal(targetState', s), ~OverBudget(targetState', s),
         rolloutState \notin Unwound \cup {"Completed"}
  PROVE  StageKept
<1> USE DEF StageInv
<1>1. /\ cursor' = cursor + 1 /\ s \in Int /\ cursor \in Int
      /\ stageState'[s] = "Succeeded"
      /\ \A r \in Stages : r # s => stageState'[r] = stageState[r]
  BY Bounds DEF SucceedStage, TargetInv, LedgerInv, CursorInv, TypeOK
<1>2. \A r \in Stages : r # s => stageState'[r] # "Gated"
  BY <1>1, GatedIsCurrent
<1>3. WorkHasBegun'
  <2> SUFFICES ASSUME NEW c \in Cells, attemptsMade[c] > 0
               PROVE  stageState'[c[1]] \notin {"Pending", "Blocked", "Skipped", "Gated"}
    BY DEF WorkHasBegun
  <2>1. c[1] \in Stages
    BY CellsFinite
  <2> QED  BY <1>1, <1>2, <2>1 DEF WorkHasBegun
<1>4. GatesWait'
  BY <1>1, <1>2 DEF GatesWait
<1>5. PastIsSettled'
  <2> SUFFICES ASSUME NEW r \in Stages
               PROVE  /\ stageState'[r] # "RolledBack"
                      /\ r < cursor' => Settled(targetState', r)
    BY DEF PastIsSettled, Settled, AllTerminal, OverBudget, FailedCells
  <2>1. CASE r = s
    BY <1>1, <2>1 DEF Settled
  <2>2. CASE r # s
    <3>1. stageState'[r] # "RolledBack"
      BY <1>1, <2>2 DEF PastIsSettled
    <3>2. r < cursor' => r < cursor
      BY <1>1, <2>2, Bounds
    <3>3. Settled(targetState', r) = Settled(targetState, r)
      BY <2>2, SettledOfCells
    <3> QED  BY <3>1, <3>2, <3>3 DEF PastIsSettled
  <2> QED  BY <2>1, <2>2
<1>6. DispatchedHere'
  <2>1. \A c \in Cells : c[1] = s => targetState'[c] # "Dispatched"
    BY DEF AllTerminal, StageCells, TerminalTarget
  <2> QED  BY <2>1 DEF DispatchedHere
<1>7. CompletedIsLast'
  <2>1. cursor' \in 1..(NumStages + 1)
    BY <1>1, Bounds
  <2>2. rolloutState' = "Completed" => cursor' > NumStages
    BY DEF SucceedStage, Moved
  <2> QED  BY <2>1, <2>2, Bounds DEF CompletedIsLast
<1> QED  BY <1>3, <1>4, <1>5, <1>6, <1>7 DEF StageKept

LEMMA ApproveKeepsStages ==
  ASSUME StageInv, ApproveGate
  PROVE  StageKept
<1> USE DEF StageInv
<1>1. PICK s \in Stages : ApproveEntry(s) \/ ApproveCompletion(s) \/ ApproveTooLate(s)
  BY DEF ApproveGate
<1>2. /\ UNCHANGED <<targetState, attemptsMade>>
      /\ pendingGate' = [pendingGate EXCEPT ![s] = "none"]
      /\ \A r \in Stages : r # s => pendingGate'[r] = pendingGate[r]
  BY <1>1 DEF ApproveEntry, ApproveCompletion, ApproveTooLate, Approving, targetVars,
              TargetInv, LedgerInv, CursorInv, TypeOK
<1>3. \A r \in Stages : Settled(targetState, r)' = Settled(targetState, r)
  BY <1>2 DEF Settled, AllTerminal, OverBudget, FailedCells
<1>4. CASE ApproveEntry(s)
  <2>1. s = cursor /\ rolloutState \notin Unwound \cup {"Completed"}
    BY <1>4, GatedIsCurrent DEF ApproveEntry
  <2>2. /\ cursor' = cursor /\ rolloutState' \in {rolloutState, "Running"}
        /\ stageState'[s] = "Running"
        /\ \A r \in Stages : r # s => stageState'[r] = stageState[r]
    BY <1>4 DEF ApproveEntry, Moved, TargetInv, LedgerInv, CursorInv, TypeOK
  <2>3. \A r \in Stages : stageState'[r] # "Gated"
    BY <2>1, <2>2, GatedIsCurrent
  <2>4. WorkHasBegun'
    <3>1. \A c \in Cells : c[1] \in Stages
      BY CellsFinite
    <3> QED  BY <1>2, <2>2, <2>3, <3>1 DEF WorkHasBegun
  <2>5. GatesWait' /\ DispatchedHere' /\ CompletedIsLast'
    BY <1>2, <2>1, <2>2, <2>3 DEF GatesWait, DispatchedHere, CompletedIsLast
  <2>6. PastIsSettled'
    BY <1>3, <2>1, <2>2 DEF PastIsSettled
  <2> QED  BY <2>4, <2>5, <2>6 DEF StageKept
<1>5. CASE ApproveCompletion(s)
  <2>1. s = cursor /\ rolloutState \notin Unwound \cup {"Completed"}
    BY <1>5, GatedIsCurrent DEF ApproveCompletion
  <2>2. Settled(targetState, s)
    BY <1>5 DEF ApproveCompletion, GatesWait
  <2>3. SucceedStage(s) /\ stageState[s] # "Pending"
    BY <1>5 DEF ApproveCompletion
  <2> QED  BY <1>2, <2>1, <2>2, <2>3, SucceedKeepsStages DEF Settled
<1>6. CASE ApproveTooLate(s)
  <2>1. UNCHANGED <<rolloutState, cursor, stageState>> /\ stageState[s] # "Gated"
    BY <1>6 DEF ApproveTooLate, TerminalStage
  <2>2. WorkHasBegun'
    <3>1. \A c \in Cells : c[1] \in Stages
      BY CellsFinite
    <3> QED  BY <1>2, <2>1, <3>1 DEF WorkHasBegun
  <2>3. GatesWait' /\ PastIsSettled'
    BY <1>2, <1>3, <2>1 DEF GatesWait, PastIsSettled
  <2>4. DispatchedHere' /\ CompletedIsLast'
    BY <1>2, <2>1 DEF DispatchedHere, CompletedIsLast
  <2> QED  BY <2>2, <2>3, <2>4 DEF StageKept
<1> QED  BY <1>1, <1>4, <1>5, <1>6

LEMMA CommandKeepsStages ==
  ASSUME StageInv, Command
  PROVE  StageKept
<1> USE DEF StageInv
<1>1. CASE Arm \/ Start \/ Pause \/ Resume \/ Retire
  <2>1. UNCHANGED <<cursor, stageState, pendingGate, targetState, attemptsMade>>
    BY <1>1 DEF Arm, Start, Pause, Resume, Retire, stageVars, targetVars
  <2>2. /\ rolloutState' \in Unwound => rolloutState \in {"Failed", "Completed"}
                                          \/ resumeState \in Unwound
        /\ rolloutState' = "Completed" => rolloutState = "Completed"
        /\ rolloutState' \notin Unwound => rolloutState \notin Unwound
    BY <1>1 DEF Arm, Start, Pause, Resume, Retire, Unwound, Pausable, LegalRollout,
                RolloutSuccessors
  <2>3. rolloutState = "Paused" => resumeState \notin Unwound
    BY DEF TargetInv, LedgerInv, CompensationUnderWay, Pausable, Unwound
  <2>4. rolloutState' \in Unwound => rolloutState \in {"Failed", "Completed"}
    BY <1>1, <2>2, <2>3 DEF Arm, Start, Pause, Resume, Retire, Unwound
  <2>5. rolloutState' \in Unwound => \A s \in Stages : stageState[s] # "Gated"
    BY <2>4, GatedIsCurrent DEF Unwound
  <2> QED  BY <2>1, <2>2, <2>5, StillStages
<1>2. CASE Regenerate
  <2>1. \A s \in Stages : ~(s < 1)
    BY Bounds
  <2>2. WorkHasBegun' /\ GatesWait' /\ DispatchedHere' /\ CompletedIsLast'
    BY <1>2 DEF Regenerate, WorkHasBegun, GatesWait, DispatchedHere, CompletedIsLast
  <2>3. PastIsSettled'
    BY <1>2, <2>1 DEF Regenerate, PastIsSettled
  <2> QED  BY <2>2, <2>3 DEF StageKept
<1> QED  BY <1>1, <1>2, AbortKeepsStages, ApproveKeepsStages DEF Command

(* A report settles a target in flight: no stage behind the cursor and no   *)
(* stage behind a gate has one, unless the rollout is giving up.            *)
LEMMA EvidenceKeepsStages ==
  ASSUME StageInv, DrainEvidence
  PROVE  StageKept
<1> USE DEF StageInv
<1>1. PICK r \in reports : ApplyStopped(r) \/ ApplyCompensation(r) \/ ApplyExecution(r)
  BY DEF DrainEvidence
<1> DEFINE d == r.attempt.cell
<1>2. /\ UNCHANGED <<rolloutState, cursor, stageState, pendingGate, attemptsMade>>
      /\ d \in Cells /\ Apply(r)
  BY <1>1 DEF ApplyStopped, ApplyCompensation, ApplyExecution, Apply, rolloutVars, stageVars,
              TargetInv, LedgerInv, CursorInv, TypeOK, Reports, Attempts
<1>3. targetState[d] \in {"Dispatched", "RollingBack"}
  BY <1>2 DEF Apply, Admitted, TargetInv, LedgerInv, Ledger, OpenIsCurrent
<1>4. \A c \in Cells : c # d => targetState'[c] = targetState[c]
  BY <1>1 DEF ApplyStopped, ApplyCompensation, ApplyExecution, Settle, TargetInv, LedgerInv,
              CursorInv, TypeOK
<1> HIDE DEF d
<1>5. targetState'[d] # "Dispatched"
  BY <1>1, <1>2 DEF ApplyStopped, ApplyCompensation, ApplyExecution, Settle, ExecutionSettles,
                    RetryOrExhaust, TargetInv, LedgerInv, CursorInv, TypeOK, d
<1>6. rolloutState \notin Unwound => targetState[d] = "Dispatched" /\ d[1] = cursor
  BY <1>2, <1>3 DEF NothingUndone, DispatchedHere
<1>7. WorkHasBegun' /\ DispatchedHere' /\ CompletedIsLast'
  BY <1>2, <1>4, <1>5 DEF WorkHasBegun, DispatchedHere, CompletedIsLast
<1>8. GatesWait'
  <2> SUFFICES ASSUME NEW s \in Stages, stageState[s] = "Gated", pendingGate[s] # "entry"
               PROVE  Settled(targetState', s)
    BY <1>2 DEF GatesWait, Settled, AllTerminal, OverBudget, FailedCells
  <2>1. Settled(targetState, s) /\ targetState[d] = "Dispatched"
    BY <1>6 DEF GatesWait
  <2>2. d[1] # s
    BY <1>2, <2>1 DEF Settled, AllTerminal, StageCells, TerminalTarget
  <2> QED  BY <1>4, <2>1, <2>2, SettledOfCells
<1>9. PastIsSettled'
  <2> SUFFICES ASSUME rolloutState \notin Unwound, NEW s \in Stages, s < cursor
               PROVE  Settled(targetState', s)
    BY <1>2 DEF PastIsSettled, Settled, AllTerminal, OverBudget, FailedCells
  <2>1. d[1] # s
    BY <1>6, Bounds DEF TargetInv, LedgerInv, CursorInv, TypeOK
  <2> QED  BY <1>4, <2>1, SettledOfCells DEF PastIsSettled
<1> QED  BY <1>7, <1>8, <1>9 DEF StageKept

(* The tick, when it runs the current stage: the other stages stay as they  *)
(* are, and so do their targets.                                            *)
OnlyCurrentMoves(s) ==
  /\ s = cursor /\ cursor' = cursor
  /\ \A r \in Stages : r # s => stageState'[r] = stageState[r]
  /\ \A r \in Stages : r # s => pendingGate'[r] = pendingGate[r]
  /\ \A c \in Cells : c[1] # s => targetState'[c] = targetState[c]

LEMMA CurrentKeepsStages ==
  ASSUME StageInv, NEW s \in Stages, OnlyCurrentMoves(s),
         rolloutState \in {"Running", "Soaking", "Advancing"},
         rolloutState' # "Completed",
         \A c \in Cells : attemptsMade'[c] > 0 =>
            attemptsMade[c] > 0 \/ (c[1] = s /\ stageState[s] # "Pending"),
         stageState'[s] \notin {"Pending", "Blocked", "Skipped", "RolledBack"},
         stageState'[s] = "Gated" =>
            /\ pendingGate'[s] # "none" /\ rolloutState' \notin Unwound
            /\ IF pendingGate'[s] = "entry"
               THEN stageState[s] = "Pending" /\ attemptsMade' = attemptsMade
               ELSE Settled(targetState', s)
  PROVE  StageKept
<1> USE DEF StageInv, OnlyCurrentMoves
<1>1. \A r \in Stages : r # s => stageState[r] # "Gated"
  BY GatedIsCurrent
<1>2. \A c \in Cells : c[1] \in Stages
  BY CellsFinite
<1>3. WorkHasBegun'
  <2> SUFFICES ASSUME NEW c \in Cells, attemptsMade'[c] > 0
               PROVE  /\ stageState'[c[1]] \notin {"Pending", "Blocked", "Skipped"}
                      /\ ~(stageState'[c[1]] = "Gated" /\ pendingGate'[c[1]] = "entry")
    BY DEF WorkHasBegun
  <2>1. CASE c[1] = s
    BY <2>1 DEF WorkHasBegun
  <2>2. CASE c[1] # s
    BY <1>1, <1>2, <2>2 DEF WorkHasBegun
  <2> QED  BY <2>1, <2>2
<1>4. GatesWait'
  <2> SUFFICES ASSUME NEW r \in Stages, stageState'[r] = "Gated"
               PROVE  /\ pendingGate'[r] # "none" /\ rolloutState' \notin Unwound
                      /\ pendingGate'[r] # "entry" => Settled(targetState', r)
    BY DEF GatesWait, Settled, AllTerminal, OverBudget, FailedCells
  <2> QED  BY <1>1
<1>5. PastIsSettled'
  <2> SUFFICES ASSUME rolloutState' \notin Unwound, NEW r \in Stages
               PROVE  /\ stageState'[r] # "RolledBack"
                      /\ r < cursor => Settled(targetState', r)
    BY DEF PastIsSettled, Settled, AllTerminal, OverBudget, FailedCells
  <2>1. rolloutState \notin Unwound /\ ~(s < cursor)
    BY Bounds DEF Unwound
  <2>2. ASSUME r # s PROVE Settled(targetState', r) = Settled(targetState, r)
    <3>1. \A c \in Cells : c[1] = r => targetState'[c] = targetState[c]
      BY <2>2
    <3> QED  BY <3>1, SettledOfCells
  <2> QED  BY <2>1, <2>2 DEF PastIsSettled
<1>6. DispatchedHere'
  BY DEF DispatchedHere
<1> QED  BY <1>3, <1>4, <1>5, <1>6 DEF StageKept, CompletedIsLast

(* The sweep reaches targets of its stage only.                             *)
LEMMA SweepStaysInStage ==
  ASSUME NEW s \in Stages, NEW c \in Cells, c[1] # s
  PROVE  Swept(s)[c] = targetState[c]
BY DEF Swept, Expired, StageCells

LEMMA FailStageKeepsStages ==
  ASSUME StageInv, NEW s \in Stages, s = cursor, cursor' = cursor,
         FailStage(s, Swept(s)), attemptsMade' = attemptsMade
  PROVE  StageKept
<1> USE DEF StageInv
<1> DEFINE ss == [stageState EXCEPT ![s] = "Failed"]
<1>1. Unwind(Swept(s), ss) /\ Swept(s) \in [Cells -> TargetStates]
  BY SweepType DEF FailStage, TargetInv, LedgerInv, CursorInv
<1>2. /\ rolloutState' \in {"RollingBack", "Failed"} /\ stageState' = ss
      /\ \A c \in Cells : targetState'[c] \in {Swept(s)[c], "RollingBack"}
  BY <1>1 DEF Unwind, BeginRollback
<1>3. \A r \in Stages : ss[r] = IF r = s THEN "Failed" ELSE stageState[r]
  BY DEF TargetInv, LedgerInv, CursorInv, TypeOK
<1> HIDE DEF ss
<1>4. \A r \in Stages : stageState'[r] # "Gated"
  BY <1>2, <1>3, GatedIsCurrent
<1>5. WorkHasBegun'
  <2>1. \A c \in Cells : c[1] \in Stages
    BY CellsFinite
  <2> QED  BY <1>2, <1>3, <1>4, <2>1 DEF WorkHasBegun
<1>6. DispatchedHere'
  <2>1. \A c \in Cells : Swept(s)[c] = "Dispatched" => targetState[c] = "Dispatched"
    BY SweepMovesCell DEF RetryOrExhaust, TargetInv, LedgerInv, CursorInv
  <2> QED  BY <1>2, <2>1 DEF DispatchedHere
<1> QED  BY <1>2, <1>4, <1>5, <1>6 DEF StageKept, GatesWait, PastIsSettled, CompletedIsLast, Unwound

LEMMA RunStageKeepsStages ==
  ASSUME StageInv, NEW s \in Stages, NEW held,
         FailRunningStage(s) \/ HoldStage(s, held) \/ StartSoak(s, held)
           \/ CompleteStage(s, held)
  PROVE  StageKept
<1> USE DEF StageInv, TargetInv, LedgerInv, CursorInv
<1>1. /\ s = cursor /\ attemptsMade' = attemptsMade
      /\ rolloutState \in {"Running", "Soaking", "Advancing"}
      /\ stageState[s] \in {"Running", "Soaking"}
  BY DEF FailRunningStage, HoldStage, StartSoak, CompleteStage, Proceeding, Advancing
<1>2. \A c \in Cells : c[1] # s => Swept(s)[c] = targetState[c]
  BY SweepStaysInStage
<1>3. CASE FailStage(s, Swept(s)) /\ cursor' = cursor
  BY <1>1, <1>3, FailStageKeepsStages
<1> DEFINE Stops == /\ \E kind \in {"evidence", "advance"} : OpenGate(s, kind, stageState[s])
                    /\ AllTerminal(Swept(s), s) /\ ~OverBudget(Swept(s), s)
                    /\ targetState' = Swept(s) /\ cursor' = cursor
           Ends == /\ SucceedStage(s) /\ targetState' = Swept(s)
                   /\ AllTerminal(Swept(s), s) /\ ~OverBudget(Swept(s), s)
           Goes == /\ targetState' = Swept(s) /\ pendingGate' = pendingGate
                   /\ cursor' = cursor
                   /\ \/ stageState' = [stageState EXCEPT ![s] = "Soaking"]
                           /\ rolloutState' = Moved("Soaking")
                      \/ UNCHANGED <<stageState, rolloutState>>
<1>4. (FailStage(s, Swept(s)) /\ cursor' = cursor) \/ Stops \/ Ends \/ Goes
  <2>1. CASE FailRunningStage(s)
    BY <2>1 DEF FailRunningStage
  <2>2. CASE HoldStage(s, held)
    BY <2>2 DEF HoldStage
  <2>3. CASE StartSoak(s, held)
    BY <2>3 DEF StartSoak
  <2>4. CASE CompleteStage(s, held)
    BY <2>4 DEF CompleteStage, Proceeding
  <2> QED  BY <2>1, <2>2, <2>3, <2>4
<1>5. CASE Stops
  <2>1. PICK kind \in {"evidence", "advance"} : OpenGate(s, kind, stageState[s])
    BY <1>5
  <2>2. /\ pendingGate'[s] = kind
        /\ \A r \in Stages : r # s => pendingGate'[r] = pendingGate[r]
        /\ \A r \in Stages : r # s => stageState'[r] = stageState[r]
        /\ stageState'[s] \in {"Gated", stageState[s]}
        /\ rolloutState' \in {"Gated", rolloutState}
    BY <2>1 DEF OpenGate, Moved, TypeOK
  <2>3. Settled(targetState', s)
    BY <1>5 DEF Settled
  <2>4. OnlyCurrentMoves(s)
    BY <1>1, <1>2, <1>5, <2>2 DEF OnlyCurrentMoves
  <2> QED  BY <1>1, <2>2, <2>3, <2>4, CurrentKeepsStages DEF Unwound
<1>6. CASE Ends
  BY <1>1, <1>2, <1>6, SucceedKeepsStages DEF Unwound
<1>7. CASE Goes
  <2>1. /\ \A r \in Stages : r # s => stageState'[r] = stageState[r]
        /\ stageState'[s] \in {"Soaking", stageState[s]}
        /\ rolloutState' \in {"Soaking", rolloutState}
    BY <1>7 DEF Moved, TypeOK
  <2>2. OnlyCurrentMoves(s)
    BY <1>1, <1>2, <1>7, <2>1 DEF OnlyCurrentMoves
  <2> QED  BY <1>1, <2>1, <2>2, CurrentKeepsStages
<1> QED  BY <1>3, <1>4, <1>5, <1>6, <1>7

LEMMA DispatchBatchKeepsStages ==
  ASSUME StageInv, NEW s \in Stages, NEW held, DispatchBatch(s, held)
  PROVE  StageKept
<1> USE DEF StageInv, TargetInv, LedgerInv, CursorInv
<1>1. /\ s = cursor /\ UNCHANGED <<cursor, stageState, pendingGate, rolloutState>>
      /\ rolloutState \in {"Running", "Soaking", "Advancing"}
      /\ stageState[s] \in {"Running", "Soaking"}
  BY DEF DispatchBatch, Proceeding, Advancing
<1>2. PICK accepted \in SUBSET Cells :
        /\ accepted \subseteq {c \in StageCells(s) : Swept(s)[c] = "Pending"}
        /\ Dispatch(accepted)
        /\ targetState' = [c \in Cells |->
              IF c \in accepted THEN "Dispatched" ELSE Swept(s)[c]]
  BY BatchAccepted
<1>3. \A c \in Cells : c[1] # s =>
        targetState'[c] = targetState[c] /\ attemptsMade'[c] = attemptsMade[c]
  BY <1>2, SweepStaysInStage DEF StageCells, Dispatch
<1>4. OnlyCurrentMoves(s)
  BY <1>1, <1>3 DEF OnlyCurrentMoves
<1> QED  BY <1>1, <1>3, <1>4, CurrentKeepsStages

LEMMA AdvanceKeepsStages ==
  ASSUME StageInv, Advance
  PROVE  StageKept
<1> USE DEF StageInv
<1>1. CASE AdvanceIdle
  <2>1. UNCHANGED <<rolloutState, cursor, stageState, pendingGate, targetState, attemptsMade>>
    BY <1>1 DEF AdvanceIdle, stageVars, targetVars
  <2> QED  BY <2>1, GatedIsCurrent, StillStages
<1>2. CASE AdvanceRollback
  <2>1. PICK accepted \in SUBSET {c \in RollbackPending : Current(c) \notin open} :
          Dispatch(accepted)
    BY <1>2 DEF AdvanceRollback, Acceptable
  <2>2. /\ UNCHANGED <<rolloutState, cursor, stageState, pendingGate, targetState>>
        /\ rolloutState = "RollingBack"
    BY <1>2 DEF AdvanceRollback
  <2>3. \A c \in Cells : attemptsMade'[c] > 0 => attemptsMade[c] > 0
    BY <2>1 DEF Dispatch, RollbackPending, TargetInv, Compensating
  <2>4. \A s \in Stages : stageState[s] # "Gated"
    BY <2>2, GatedIsCurrent DEF Unwound
  <2>5. WorkHasBegun'
    BY <2>2, <2>3 DEF WorkHasBegun
  <2> QED  BY <2>2, <2>4, <2>5 DEF StageKept, GatesWait, PastIsSettled, DispatchedHere,
                                   CompletedIsLast, Unwound
<1>3. CASE FinishRollback
  <2>1. /\ UNCHANGED <<cursor, pendingGate, targetState, attemptsMade>>
        /\ rolloutState = "RollingBack" /\ rolloutState' \in {"RollingBack", "Failed"}
        /\ \A s \in Stages : stageState'[s] \in {"RolledBack", stageState[s]}
    BY <1>3 DEF FinishRollback, targetVars
  <2>2. \A s \in Stages : stageState'[s] # "Gated"
    BY <2>1, GatedIsCurrent DEF Unwound
  <2>3. WorkHasBegun'
    <3>1. \A c \in Cells : c[1] \in Stages
      BY CellsFinite
    <3> QED  BY <2>1, <2>2, <3>1 DEF WorkHasBegun
  <2> QED  BY <2>1, <2>2, <2>3 DEF StageKept, GatesWait, PastIsSettled, DispatchedHere,
                                   CompletedIsLast, Unwound
<1>4. ASSUME NEW s \in Stages, BeginStage(s) PROVE StageKept
  <2>1. /\ s = cursor /\ UNCHANGED <<cursor, targetState, attemptsMade>>
        /\ rolloutState \in {"Running", "Soaking", "Advancing"}
        /\ stageState[s] = "Pending"
    BY <1>4 DEF BeginStage, Advancing, targetVars
  <2>2. LegalStage("Armed", "Gated") /\ \A state \in {"Running", "Soaking", "Advancing"} :
                                            LegalRollout(state, "Gated")
    BY DEF LegalStage, StageSuccessors, LegalRollout, RolloutSuccessors
  <2>3. /\ \A r \in Stages : r # s => stageState'[r] = stageState[r]
        /\ \A r \in Stages : r # s => pendingGate'[r] = pendingGate[r]
        /\ \/ stageState'[s] = "Gated" /\ pendingGate'[s] = "entry" /\ rolloutState' = "Gated"
           \/ stageState'[s] = "Running" /\ rolloutState' = "Running"
    BY <1>4, <2>1, <2>2 DEF BeginStage, OpenGate, Moved, TargetInv, LedgerInv, CursorInv, TypeOK
  <2>4. OnlyCurrentMoves(s)
    BY <2>1, <2>3 DEF OnlyCurrentMoves
  <2> QED  BY <2>1, <2>3, <2>4, CurrentKeepsStages DEF Unwound
<1> QED
  BY <1>1, <1>2, <1>3, <1>4, DispatchBatchKeepsStages, RunStageKeepsStages
     DEF Advance, RunStage

LEMMA NextKeepsStageInv == StageInv /\ [Next]_vars => StageInv'
<1> SUFFICES ASSUME StageInv, [Next]_vars PROVE StageInv'
  OBVIOUS
<1>1. TargetInv'
  BY NextKeepsTargetInv DEF StageInv
<1>2. NothingUndone'
  <2>1. CASE generation' = generation
    BY <2>1, StepKeepsNothingUndone
  <2>2. CASE generation' # generation
    <3>1. Regenerate
      BY <2>2, NewGeneration DEF StageInv, TargetInv, LedgerInv, CursorInv
    <3> QED  BY <3>1 DEF Regenerate, NothingUndone
  <2> QED  BY <2>1, <2>2
<1>3. StageKept
  <2>1. CASE Environment \/ UNCHANGED vars
    <3>1. UNCHANGED <<rolloutState, cursor, stageState, pendingGate, targetState, attemptsMade>>
      BY <2>1 DEF Environment, WorkerReports, DeadlinePasses, SoakElapses, vars, rolloutVars,
                  stageVars, targetVars
    <3> QED  BY <3>1, GatedIsCurrent, StillStages
  <2> QED
    BY <2>1, CommandKeepsStages, EvidenceKeepsStages, AdvanceKeepsStages DEF Next
<1> QED  BY <1>1, <1>2, <1>3 DEF StageKept, StageInv

(* The inductive invariant of stages and gates holds.                       *)
THEOREM StageInvariant == Spec => []StageInv
BY InitStageInv, NextKeepsStageInv, PTL DEF Spec

-----------------------------------------------------------------------------
(* A stage at a manual gate can be approved, has nothing in flight, and     *)
(* nothing behind the gate was issued.                                      *)
THEOREM GatesHoldWork == Spec => []GateHoldsWork
<1>1. StageInv => GateHoldsWork
  <2> SUFFICES ASSUME StageInv, NEW s \in Stages, stageState[s] = "Gated"
               PROVE  /\ pendingGate[s] # "none"
                      /\ Live(s) = {}
                      /\ \A c \in Cells : attemptsMade[c] > 0 =>
                            c[1] <= s /\ (c[1] = s => pendingGate[s] # "entry")
    BY DEF GateHoldsWork
  <2> USE DEF StageInv, TargetInv, LedgerInv, CursorInv
  <2>1. s = cursor
    BY GatedIsCurrent
  <2>2. Live(s) = {}
    <3> SUFFICES ASSUME NEW c \in StageCells(s), Current(c) \in open PROVE FALSE
      BY DEF Live
    <3>1. c \in Cells /\ c[1] = s
      BY DEF StageCells
    <3>2. targetState[c] \in {"Dispatched", "RollingBack"}
      BY <3>1, CurrentType DEF Ledger, OpenIsCurrent
    <3>3. pendingGate[s] = "entry"
      BY <3>2 DEF GatesWait, Settled, AllTerminal, TerminalTarget
    <3>4. attemptsMade[c] > 0
      <4>1. Current(c) \in Attempts
        BY DEF TypeOK
      <4>2. Current(c).epoch = attemptsMade[c] /\ attemptsMade[c] \in Nat
        BY <3>1, CurrentType, CellTypes
      <4> QED  BY <4>1, <4>2 DEF Attempts
    <3> QED  BY <3>1, <3>3, <3>4 DEF WorkHasBegun
  <2>3. \A c \in Cells : attemptsMade[c] > 0 =>
          c[1] <= s /\ (c[1] = s => pendingGate[s] # "entry")
    BY <2>1 DEF WorkUpToCursor, WorkHasBegun
  <2> QED  BY <2>2, <2>3 DEF GatesWait
<1> QED  BY <1>1, StageInvariant, PTL

(* A settled stage exhausted no more targets than its failure budget.       *)
LEMMA SettledIsInBudget ==
  ASSUME NEW s \in Stages, NEW ts, Settled(ts, s)
  PROVE  Cardinality({c \in StageCells(s) : ts[c] = "Exhausted"}) <= Policy[s].failureBudget
<1> DEFINE E == {c \in StageCells(s) : ts[c] = "Exhausted"}
           F == FailedCells(ts, s)
<1>1. E \in SUBSET F /\ F \in SUBSET Cells
  BY DEF FailedCells, StageCells
<1>2. IsFiniteSet(F) /\ Cardinality(F) \in Nat /\ Cardinality(E) \in Nat
  BY <1>1, PartOfCellsIsCounted
<1>3. Cardinality(E) <= Cardinality(F)
  BY <1>1, <1>2, FS_Subset
<1>4. Policy[s].failureBudget \in Nat
  BY PlanAssumption DEF PlanAssumption, PolicyRecords
<1>5. Cardinality(F) <= Policy[s].failureBudget
  BY <1>2, <1>4 DEF Settled, OverBudget
<1> QED  BY <1>2, <1>3, <1>4, <1>5

(* A completed rollout has nothing left to happen: every stage succeeded    *)
(* with failures inside its budget, and no attempt of the generation is     *)
(* open.                                                                    *)
THEOREM CompletionIsSettled == Spec => []CompletedIsSettled
<1>1. StageInv => CompletedIsSettled
  <2> SUFFICES ASSUME StageInv, rolloutState = "Completed"
               PROVE  /\ \A s \in Stages : stageState[s] = "Succeeded"
                      /\ \A c \in Cells : targetState[c] \in {"Succeeded", "Cancelled", "Exhausted"}
                      /\ \A s \in Stages :
                           Cardinality({c \in StageCells(s) : targetState[c] = "Exhausted"})
                             <= Policy[s].failureBudget
                      /\ \A a \in open : a.gen # generation
    BY DEF CompletedIsSettled
  <2> USE DEF StageInv, TargetInv, LedgerInv, CursorInv
  <2>1. rolloutState \notin Unwound /\ \A s \in Stages : s < cursor
    BY Bounds DEF CompletedIsLast, Unwound
  <2>2. \A s \in Stages : stageState[s] = "Succeeded" /\ Settled(targetState, s)
    BY <2>1 DEF PastIsSettled, StagesAroundCursor
  <2>3. \A c \in Cells : targetState[c] \in {"Succeeded", "Cancelled", "Exhausted"}
    <3> TAKE c \in Cells
    <3>1. c[1] \in Stages /\ c \in StageCells(c[1])
      BY CellsFinite DEF StageCells
    <3>2. targetState[c] \in TerminalTarget
      BY <2>2, <3>1 DEF Settled, AllTerminal
    <3> QED  BY <2>1, <3>2 DEF TerminalTarget, NothingUndone, OnlyReached
  <2>4. \A a \in open : a.gen # generation
    BY <2>3 DEF Ledger, OpenIsCurrent, TypeOK, Attempts
  <2> QED  BY <2>2, <2>3, <2>4, SettledIsInBudget
<1> QED  BY <1>1, StageInvariant, PTL

-----------------------------------------------------------------------------
(* The planner's bounds.                                                    *)

(* FirstOf(n, S) has at most n cells: their ranks in S are different        *)
(* numbers below n.                                                         *)
LEMMA FirstOfIsBounded ==
  ASSUME NEW s \in Stages, NEW n \in Int, NEW S \in SUBSET StageCells(s)
  PROVE  Cardinality(FirstOf(n, S)) <= IF n > 0 THEN n ELSE 0
<1> DEFINE F == FirstOf(n, S)
           before(c) == {d \in S : d[2] < c[2]}
           rank == [c \in F |-> Cardinality(before(c))]
<1>1. /\ S \in SUBSET Cells /\ F \in SUBSET S /\ F \in SUBSET Cells
      /\ \A c \in S : c[1] = s /\ c[2] \in Int /\ c = <<c[1], c[2]>>
  BY CellsFinite, PlanAssumption DEF StageCells, FirstOf, PlanAssumption
<1>2. \A c \in S : IsFiniteSet(before(c)) /\ Cardinality(before(c)) \in Nat
  BY <1>1, PartOfCellsIsCounted
<1>3. \A c \in F : Cardinality(before(c)) < n
  BY DEF FirstOf
<1>4. rank \in [F -> 0..(n - 1)]
  <2> SUFFICES ASSUME NEW c \in F PROVE Cardinality(before(c)) \in 0..(n - 1)
    OBVIOUS
  <2>1. Cardinality(before(c)) \in Nat /\ Cardinality(before(c)) < n
    BY <1>1, <1>2, <1>3
  <2> HIDE DEF before
  <2> QED  BY <2>1
<1>5. \A c, d \in S : c[2] < d[2] => Cardinality(before(c)) < Cardinality(before(d))
  <2> SUFFICES ASSUME NEW c \in S, NEW d \in S, c[2] < d[2]
               PROVE  Cardinality(before(c)) < Cardinality(before(d))
    OBVIOUS
  <2>1. c \notin before(c) /\ before(c) \cup {c} \in SUBSET before(d)
    BY <1>1
  <2>2. Cardinality(before(c) \cup {c}) = Cardinality(before(c)) + 1
    BY <1>2, <2>1, FS_AddElement
  <2>3. Cardinality(before(c) \cup {c}) <= Cardinality(before(d))
    BY <1>2, <2>1, FS_Subset
  <2>4. Cardinality(before(c)) \in Nat /\ Cardinality(before(d)) \in Nat
    BY <1>2
  <2> HIDE DEF before
  <2> QED  BY <2>2, <2>3, <2>4
<1>6. rank \in Injection(F, 0..(n - 1))
  <2> SUFFICES ASSUME NEW c \in F, NEW d \in F, c # d
               PROVE  Cardinality(before(c)) # Cardinality(before(d))
    BY <1>4 DEF Injection, IsInjective
  <2>1. c[2] < d[2] \/ d[2] < c[2]
    BY <1>1
  <2>2. Cardinality(before(c)) \in Nat /\ Cardinality(before(d)) \in Nat
    BY <1>1, <1>2
  <2>3. \/ Cardinality(before(c)) < Cardinality(before(d))
        \/ Cardinality(before(d)) < Cardinality(before(c))
    BY <1>1, <1>5, <2>1
  <2> HIDE DEF before
  <2> QED  BY <2>2, <2>3
<1> HIDE DEF rank
<1>7. IsFiniteSet(0..(n - 1)) /\ Cardinality(0..(n - 1)) = IF n > 0 THEN n ELSE 0
  BY FS_Interval
<1>8. Cardinality(F) <= Cardinality(0..(n - 1))
  BY <1>6, <1>7, FS_Injection
<1> QED  BY <1>7, <1>8

LEMMA PolicyTypes ==
  ASSUME NEW s \in Stages
  PROVE  /\ Policy[s].concurrency \in Nat \ {0} /\ Policy[s].stage \in Nat \ {0}
         /\ Policy[s].global \in Nat \ {0} /\ Policy[s].canary \in Nat
BY PlanAssumption DEF PlanAssumption, PolicyRecords

(* A batch fits in what is left of the concurrency, the stage limit and the *)
(* global limit.                                                            *)
LEMMA BatchFits ==
  ASSUME NEW s \in Stages, NEW ts, NEW made, NEW cleared,
         NEW accepted \in SUBSET PlanDispatch(ts, made, cleared, s)
  PROVE  LET size == Cardinality(accepted)
             busy == Cardinality(ChangingIn(ts, s))
         IN  /\ size \in Nat
             /\ size > 0 => /\ size <= Policy[s].concurrency - busy
                            /\ size <= Policy[s].stage - busy
                            /\ size <= Policy[s].global - Cardinality(Changing(ts))
<1> DEFINE eligible == {c \in StageCells(s) : /\ ts[c] = "Pending"
                                              /\ BlastRadiusAdmits(ts, s, c[2])}
           admitted == CanaryAdmits(eligible, s, made, cleared)
           n == Capacity(ts, s)
           busy == Cardinality(ChangingIn(ts, s))
           all == Cardinality(Changing(ts))
           size == Cardinality(accepted)
<1>1. eligible \in SUBSET StageCells(s)
  OBVIOUS
<1> HIDE DEF eligible
<1>2. admitted \in SUBSET StageCells(s)
  BY <1>1 DEF CanaryAdmits, FirstOf
<1>3. accepted \in SUBSET FirstOf(n, admitted)
  BY DEF PlanDispatch, eligible
<1>4. busy \in Nat /\ all \in Nat
  BY PartOfCellsIsCounted DEF ChangingIn, Changing
<1>5. MaxDispatchBatch \in Nat
  BY PlanAssumption DEF PlanAssumption
<1>6. n \in Int /\ n <= Policy[s].concurrency - busy /\ n <= Policy[s].stage - busy
        /\ n <= Policy[s].global - all
  <2>1. n = Least(Least(Policy[s].concurrency - busy, MaxDispatchBatch),
                  Least(Policy[s].stage - busy, Policy[s].global - all))
    BY DEF Capacity
  <2> HIDE DEF n, busy, all
  <2> QED  BY <1>4, <1>5, <2>1, PolicyTypes DEF Least
<1> HIDE DEF n, busy, all
<1>7. Cardinality(FirstOf(n, admitted)) <= IF n > 0 THEN n ELSE 0
  BY <1>2, <1>6, FirstOfIsBounded
<1>8. FirstOf(n, admitted) \in SUBSET Cells
  BY <1>2 DEF FirstOf, StageCells
<1>9. size \in Nat /\ Cardinality(FirstOf(n, admitted)) \in Nat
        /\ size <= Cardinality(FirstOf(n, admitted))
  <2>1. accepted \in SUBSET Cells
    BY <1>3, <1>8
  <2>2. IsFiniteSet(FirstOf(n, admitted))
    BY <1>8, PartOfCellsIsCounted
  <2> QED  BY <1>3, <1>8, <2>1, <2>2, PartOfCellsIsCounted, FS_Subset
<1> HIDE DEF size, admitted
<1>10. size > 0 => size <= n
  BY <1>6, <1>7, <1>9
<1>11. Policy[s].concurrency \in Nat /\ Policy[s].stage \in Nat /\ Policy[s].global \in Nat
  BY PolicyTypes
<1>12. size > 0 => /\ size <= Policy[s].concurrency - busy
                   /\ size <= Policy[s].stage - busy
                   /\ size <= Policy[s].global - all
  BY <1>4, <1>6, <1>9, <1>10, <1>11
<1> QED  BY <1>9, <1>12 DEF size, busy, all

-----------------------------------------------------------------------------
(* Concurrency and the canary, over any sequence of batches.                *)

BoundsInv == StageInv /\ ConcurrencyBound /\ CanaryBound

Busy(ts) == {c \in Cells : ts[c] = "Dispatched"}

(* Fewer cells in flight fit the limits too.                                *)
LEMMA FewerFitLimits ==
  ASSUME NEW old \in SUBSET Cells, NEW new \in SUBSET old, FitsLimits(old)
  PROVE  FitsLimits(new)
<1> SUFFICES ASSUME NEW s \in Stages, new \cap StageCells(s) # {}
             PROVE  /\ Cardinality(new \cap StageCells(s)) <= Policy[s].concurrency
                    /\ Cardinality(new \cap StageCells(s)) <= Policy[s].stage
                    /\ Cardinality(new) <= Policy[s].global
  BY DEF FitsLimits
<1>1. /\ Cardinality(old \cap StageCells(s)) <= Policy[s].concurrency
      /\ Cardinality(old \cap StageCells(s)) <= Policy[s].stage
      /\ Cardinality(old) <= Policy[s].global
  BY DEF FitsLimits
<1>3. /\ Cardinality(new) <= Cardinality(old)
      /\ Cardinality(new) \in Nat /\ Cardinality(old) \in Nat
  BY PartOfCellsIsCounted, FS_Subset
<1>4. /\ Cardinality(new \cap StageCells(s)) <= Cardinality(old \cap StageCells(s))
      /\ Cardinality(new \cap StageCells(s)) \in Nat
      /\ Cardinality(old \cap StageCells(s)) \in Nat
  BY PartOfCellsIsCounted, FS_Subset
<1> QED  BY <1>1, <1>3, <1>4, PolicyTypes

(* A batch on top of what is changing fits them, if all of that is in the   *)
(* stage the batch is for.                                                  *)
LEMMA BatchFitsLimits ==
  ASSUME NEW s \in Stages, NEW ts, NEW made, NEW cleared,
         NEW accepted \in SUBSET PlanDispatch(ts, made, cleared, s), accepted # {},
         Changing(ts) \subseteq StageCells(s)
  PROVE  FitsLimits(Changing(ts) \cup accepted)
<1> DEFINE busy == Changing(ts)
<1>1. /\ busy \in SUBSET Cells /\ accepted \in SUBSET Cells
      /\ busy \cap accepted = {} /\ busy \cup accepted \subseteq StageCells(s)
  BY PlanStaysInStage DEF Changing, CountsAsChanging, StageCells
<1>2. ChangingIn(ts, s) = busy
  BY DEF ChangingIn
<1> HIDE DEF busy
<1>3. /\ IsFiniteSet(busy) /\ Cardinality(busy) \in Nat
      /\ IsFiniteSet(accepted) /\ Cardinality(accepted) \in Nat
      /\ Cardinality(accepted) # 0
  BY <1>1, PartOfCellsIsCounted, FS_EmptySet
<1>4. Cardinality(busy \cup accepted) = Cardinality(busy) + Cardinality(accepted)
  <2>1. Cardinality(busy \cap accepted) = 0
    BY <1>1, FS_EmptySet
  <2>2. Cardinality(busy \cup accepted)
          = Cardinality(busy) + Cardinality(accepted) - Cardinality(busy \cap accepted)
    BY <1>3, FS_Union
  <2> QED  BY <1>3, <2>1, <2>2
<1>5. /\ Cardinality(accepted) <= Policy[s].concurrency - Cardinality(busy)
      /\ Cardinality(accepted) <= Policy[s].stage - Cardinality(busy)
      /\ Cardinality(accepted) <= Policy[s].global - Cardinality(busy)
  BY <1>2, <1>3, BatchFits DEF busy
<1>6. /\ Cardinality(busy \cup accepted) <= Policy[s].concurrency
      /\ Cardinality(busy \cup accepted) <= Policy[s].stage
      /\ Cardinality(busy \cup accepted) <= Policy[s].global
  BY <1>3, <1>4, <1>5, PolicyTypes
<1>7. (busy \cup accepted) \cap StageCells(s) = busy \cup accepted
  BY <1>1
<1>8. \A r \in Stages : r # s => (busy \cup accepted) \cap StageCells(r) = {}
  BY <1>1 DEF StageCells
<1> QED  BY <1>6, <1>7, <1>8 DEF FitsLimits, busy

(* Until a stage's canary clears, at most its size of targets were tried.   *)
CanaryFits(made, cleared) ==
  \A s \in Stages : Policy[s].canary > 0 /\ ~cleared[s] =>
    Cardinality(Attempted(made, s)) <= Policy[s].canary

LEMMA FewerFitCanary ==
  ASSUME NEW made, NEW after, NEW cleared, NEW now, CanaryFits(made, cleared),
         \A c \in Cells : after[c] > 0 => made[c] > 0,
         \A s \in Stages : cleared[s] => now[s]
  PROVE  CanaryFits(after, now)
<1> SUFFICES ASSUME NEW s \in Stages, Policy[s].canary > 0, ~now[s]
             PROVE  Cardinality(Attempted(after, s)) <= Policy[s].canary
  BY DEF CanaryFits
<1>1. Cardinality(Attempted(made, s)) <= Policy[s].canary
  BY DEF CanaryFits
<1>2. /\ Attempted(after, s) \in SUBSET Attempted(made, s)
      /\ Attempted(made, s) \in SUBSET Cells
  BY DEF Attempted, StageCells
<1>3. /\ Cardinality(Attempted(after, s)) <= Cardinality(Attempted(made, s))
      /\ Cardinality(Attempted(after, s)) \in Nat
      /\ Cardinality(Attempted(made, s)) \in Nat
  BY <1>2, PartOfCellsIsCounted, FS_Subset
<1> QED  BY <1>1, <1>3, PolicyTypes

(* What only a batch, a rollback and a stage that goes on may change.       *)
LEMMA WhoCountsAndClears ==
  ASSUME [Next]_vars, ~Regenerate
  PROVE  /\ \/ attemptsMade' = attemptsMade \/ AdvanceRollback
            \/ \E s \in Stages : \E held \in HealthHolds(s) : DispatchBatch(s, held)
         /\ \/ canaryCleared' = canaryCleared
            \/ \E s \in Stages : \E held : Proceeding(s, held)
<1>1. CASE Command
  BY <1>1 DEF Command, Arm, Start, Pause, Resume, Abort, AbortInterrupted, ApproveGate,
              ApproveEntry, ApproveCompletion, ApproveTooLate, Approving, Retire,
              targetVars, stageVars
<1>2. CASE DrainEvidence
  BY <1>2 DEF DrainEvidence, ApplyStopped, ApplyCompensation, ApplyExecution, Apply, stageVars
<1>3. CASE AdvanceIdle \/ AdvanceRollback \/ FinishRollback
  BY <1>3 DEF AdvanceIdle, AdvanceRollback, FinishRollback, targetVars, stageVars
<1>4. CASE \E s \in Stages : BeginStage(s)
  BY <1>4 DEF BeginStage, targetVars
<1>5. CASE \E s \in Stages : RunStage(s)
  BY <1>5 DEF RunStage, FailRunningStage, DispatchBatch, HoldStage, StartSoak, CompleteStage
<1>6. CASE Environment
  BY <1>6 DEF Environment, WorkerReports, DeadlinePasses, SoakElapses, targetVars, stageVars
<1>7. CASE UNCHANGED vars
  BY <1>7 DEF vars, targetVars, stageVars
<1> QED  BY <1>1, <1>2, <1>3, <1>4, <1>5, <1>6, <1>7 DEF Next, Advance

(* Outside a batch no target is dispatched, none is tried that was not, and *)
(* a canary that has cleared stays so.                                      *)
LEMMA OnlyBatchesDispatch ==
  ASSUME StageInv, [Next]_vars, generation' = generation,
         ~\E s \in Stages : \E held \in HealthHolds(s) : DispatchBatch(s, held)
  PROVE  /\ \A c \in Cells : targetState'[c] = "Dispatched" => targetState[c] = "Dispatched"
         /\ \A c \in Cells : attemptsMade'[c] > 0 => attemptsMade[c] > 0
         /\ \A s \in Stages : canaryCleared[s] => canaryCleared'[s]
<1> USE DEF StageInv, TargetInv, LedgerInv, CursorInv
<1>1. attemptsMade' = attemptsMade \/ AdvanceRollback
  <2>1. ~Regenerate
    BY DEF Regenerate, TypeOK
  <2> QED  BY <2>1, WhoCountsAndClears
<1>2. \A s \in Stages : canaryCleared[s] => canaryCleared'[s]
  <2>1. ~Regenerate
    BY DEF Regenerate, TypeOK
  <2>2. \/ canaryCleared' = canaryCleared
        \/ \E s \in Stages : \E held : Proceeding(s, held)
    BY <2>1, WhoCountsAndClears
  <2> QED  BY <2>2 DEF Proceeding, TypeOK
<1>3. CASE attemptsMade' = attemptsMade
  <2> SUFFICES ASSUME NEW c \in Cells, targetState'[c] = "Dispatched"
               PROVE  targetState[c] = "Dispatched"
    BY <1>2, <1>3
  <2>1. attemptsMade[c] \in Nat
    BY CellTypes
  <2> QED
    BY <1>3, <2>1, NextMovesCells
       DEF CellMoves, Stays, IsDispatched, Settles, IsMarked, StepIssued, StepTaken,
           StepFails, RetryOrExhaust
<1>4. CASE AdvanceRollback
  <2>1. PICK accepted \in SUBSET {c \in RollbackPending : Current(c) \notin open} :
          Dispatch(accepted)
    BY <1>4 DEF AdvanceRollback, Acceptable
  <2>2. \A c \in Cells : attemptsMade'[c] > 0 => attemptsMade[c] > 0
    BY <2>1 DEF Dispatch, RollbackPending, Compensating
  <2> QED  BY <1>2, <1>4, <2>2 DEF AdvanceRollback
<1> QED  BY <1>1, <1>3, <1>4

LEMMA BatchKeepsConcurrency ==
  ASSUME StageInv, ConcurrencyBound, NEW s \in Stages, NEW held, DispatchBatch(s, held)
  PROVE  ConcurrencyBound'
<1> USE DEF StageInv, TargetInv, LedgerInv, CursorInv
<1> DEFINE batch == PlanDispatch(Swept(s), attemptsMade, canaryCleared'[s], s)
           busy == Busy(Swept(s))
<1>1. PICK accepted \in SUBSET batch :
        targetState' = [c \in Cells |-> IF c \in accepted THEN "Dispatched" ELSE Swept(s)[c]]
  BY DEF DispatchBatch, Acceptable
<1>2. /\ batch \subseteq {c \in StageCells(s) : Swept(s)[c] = "Pending"}
      /\ s = cursor /\ rolloutState \in {"Running", "Soaking", "Advancing"}
  BY PlanStaysInStage DEF DispatchBatch, Proceeding, Advancing
<1> HIDE DEF batch
<1>3. \A c \in Cells : /\ Swept(s)[c] \notin {"RollingBack", "Unknown"}
                       /\ Swept(s)[c] = "Dispatched" =>
                            targetState[c] = "Dispatched" /\ c \in StageCells(s)
  <2>1. \A c \in Cells : targetState[c] \notin {"RollingBack", "Unknown"}
    BY <1>2 DEF NothingUndone, OnlyReached, Unwound
  <2>2. \A c \in Cells : Swept(s)[c] = targetState[c]
                          \/ Swept(s)[c] \in {"Cancelled", "Pending", "Exhausted"}
    BY SweepMovesCell DEF RetryOrExhaust
  <2> QED  BY <1>2, <2>1, <2>2 DEF DispatchedHere, StageCells
<1>4. Changing(Swept(s)) = busy /\ busy \subseteq StageCells(s)
  BY <1>3 DEF Changing, CountsAsChanging, Busy
<1>5. /\ Busy(targetState') = busy \cup accepted
      /\ busy \in SUBSET Busy(targetState) /\ Busy(targetState) \in SUBSET Cells
  BY <1>1, <1>2, <1>3 DEF Busy, StageCells
<1>6. FitsLimits(Busy(targetState'))
  <2>1. FitsLimits(Busy(targetState))
    BY DEF ConcurrencyBound, Busy
  <2>2. CASE accepted = {}
    BY <1>5, <2>1, <2>2, FewerFitLimits
  <2>3. CASE accepted # {}
    <3>1. FitsLimits(busy \cup accepted)
      BY <1>4, <2>3, BatchFitsLimits DEF batch
    <3> QED  BY <1>5, <3>1
  <2> QED  BY <2>2, <2>3
<1> QED  BY <1>6 DEF ConcurrencyBound, Busy

LEMMA BatchKeepsCanary ==
  ASSUME TypeOK, CanaryBound, NEW s \in Stages, NEW held, DispatchBatch(s, held)
  PROVE  CanaryBound'
<1> DEFINE batch == PlanDispatch(Swept(s), attemptsMade, canaryCleared'[s], s)
           tried == Attempted(attemptsMade, s)
<1>1. PICK accepted \in SUBSET batch : Dispatch(accepted)
  BY DEF DispatchBatch, Acceptable
<1>2. /\ batch \subseteq StageCells(s) /\ StageCells(s) \subseteq Cells
      /\ \A r \in Stages : canaryCleared[r] => canaryCleared'[r]
  BY PlanStaysInStage DEF StageCells, DispatchBatch, Proceeding, TypeOK
<1> SUFFICES ASSUME NEW r \in Stages, Policy[r].canary > 0, ~canaryCleared'[r]
             PROVE  Cardinality(Attempted(attemptsMade', r)) <= Policy[r].canary
  BY DEF CanaryBound, Attempted
<1>3. Cardinality(Attempted(attemptsMade, r)) <= Policy[r].canary
  BY <1>2 DEF CanaryBound
<1>4. CASE r # s
  <2>1. \A c \in StageCells(r) : attemptsMade'[c] = attemptsMade[c]
    BY <1>1, <1>2, <1>4 DEF Dispatch, StageCells
  <2>2. Attempted(attemptsMade', r) = Attempted(attemptsMade, r)
    BY <2>1 DEF Attempted
  <2> QED  BY <1>3, <2>2
<1>5. CASE r = s
  <2> DEFINE eligible == {c \in StageCells(s) : /\ Swept(s)[c] = "Pending"
                                                /\ BlastRadiusAdmits(Swept(s), s, c[2])}
             fresh == {c \in eligible : attemptsMade[c] = 0}
             left == Policy[s].canary - Cardinality(tried)
             first == FirstOf(left, fresh)
  <2>1. batch \subseteq CanaryAdmits(eligible, s, attemptsMade, FALSE)
    <3>1. canaryCleared'[s] = FALSE
      BY <1>5 DEF DispatchBatch, Proceeding, TypeOK
    <3> HIDE DEF eligible
    <3> QED  BY <3>1 DEF PlanDispatch, FirstOf, eligible
  <2>2. eligible \subseteq StageCells(s)
    OBVIOUS
  <2> HIDE DEF eligible
  <2>3. CanaryAdmits(eligible, s, attemptsMade, FALSE) = {c \in eligible : attemptsMade[c] > 0} \cup first
    <3>1. Policy[s].canary # 0
      BY <1>5
    <3> QED  BY <3>1 DEF CanaryAdmits
  <2>4. Attempted(attemptsMade', s) \subseteq tried \cup first
    <3> SUFFICES ASSUME NEW c \in StageCells(s), attemptsMade'[c] > 0
                 PROVE  c \in tried \cup first
      BY DEF Attempted
    <3>1. c \in accepted \/ attemptsMade'[c] = attemptsMade[c]
      BY <1>1, <1>2 DEF Dispatch
    <3>2. c \in accepted => attemptsMade[c] > 0 \/ c \in first
      BY <2>1, <2>3
    <3> QED  BY <3>1, <3>2 DEF Attempted
  <2>5. tried \in SUBSET Cells /\ first \in SUBSET Cells /\ fresh \in SUBSET StageCells(s)
    BY <1>2, <2>2 DEF Attempted, FirstOf
  <2> HIDE DEF tried, fresh, first
  <2>6. /\ IsFiniteSet(tried) /\ Cardinality(tried) \in Nat
        /\ IsFiniteSet(first) /\ Cardinality(first) \in Nat
        /\ Policy[s].canary \in Nat /\ Cardinality(tried) <= Policy[s].canary
    BY <1>3, <1>5, <2>5, PartOfCellsIsCounted, PolicyTypes DEF tried
  <2>7. Cardinality(first) <= left
    <3>1. left \in Nat
      BY <2>6
    <3>2. Cardinality(first) <= IF left > 0 THEN left ELSE 0
      BY <2>5, <3>1, FirstOfIsBounded DEF first
    <3> QED  BY <3>1, <3>2
  <2>8. Cardinality(tried \cup first) <= Policy[s].canary
    <3>1. Cardinality(tried \cup first)
            = Cardinality(tried) + Cardinality(first) - Cardinality(tried \cap first)
      BY <2>6, FS_Union
    <3>2. Cardinality(tried \cap first) \in Nat
      BY <2>5, PartOfCellsIsCounted
    <3> QED  BY <2>6, <2>7, <3>1, <3>2
  <2>9. /\ Cardinality(Attempted(attemptsMade', s)) <= Cardinality(tried \cup first)
        /\ Cardinality(Attempted(attemptsMade', s)) \in Nat
        /\ Cardinality(tried \cup first) \in Nat
    <3>1. IsFiniteSet(tried \cup first) /\ Cardinality(tried \cup first) \in Nat
      BY <2>5, PartOfCellsIsCounted
    <3> QED  BY <2>4, <2>5, <3>1, PartOfCellsIsCounted, FS_Subset
  <2> QED  BY <1>5, <2>6, <2>8, <2>9
<1> QED  BY <1>4, <1>5

LEMMA InitBoundsInv == Init => BoundsInv
<1> SUFFICES ASSUME Init PROVE BoundsInv
  OBVIOUS
<1>1. ConcurrencyBound
  BY DEF Init, ConcurrencyBound, FitsLimits
<1>2. CanaryBound
  <2>1. \A s \in Stages : Attempted(attemptsMade, s) = {}
    BY DEF Init, Attempted, StageCells
  <2> QED  BY <2>1, FS_EmptySet, PolicyTypes DEF CanaryBound
<1> QED  BY <1>1, <1>2, InitStageInv DEF BoundsInv

LEMMA NextKeepsBoundsInv == BoundsInv /\ [Next]_vars => BoundsInv'
<1> SUFFICES ASSUME BoundsInv, [Next]_vars PROVE BoundsInv'
  OBVIOUS
<1> USE DEF BoundsInv
<1>1. StageInv'
  BY NextKeepsStageInv
<1>2. CASE \E s \in Stages : \E held \in HealthHolds(s) : DispatchBatch(s, held)
  BY <1>1, <1>2, BatchKeepsConcurrency, BatchKeepsCanary
     DEF StageInv, TargetInv, LedgerInv, CursorInv
<1>3. CASE generation' # generation
  <2>1. Regenerate
    BY <1>3, NewGeneration DEF StageInv, TargetInv, LedgerInv, CursorInv
  <2>2. ConcurrencyBound'
    BY <2>1 DEF Regenerate, ConcurrencyBound, FitsLimits
  <2>3. CanaryBound'
    <3> SUFFICES ASSUME NEW s \in Stages
                 PROVE  Cardinality(Attempted(attemptsMade', s)) <= Policy[s].canary
      BY DEF CanaryBound, Attempted
    <3>1. Attempted(attemptsMade', s) = {}
      BY <2>1 DEF Regenerate, Attempted, StageCells
    <3> QED  BY <3>1, FS_EmptySet, PolicyTypes
  <2> QED  BY <1>1, <2>2, <2>3
<1>4. CASE /\ generation' = generation
           /\ ~\E s \in Stages : \E held \in HealthHolds(s) : DispatchBatch(s, held)
  <2>1. /\ \A c \in Cells : targetState'[c] = "Dispatched" => targetState[c] = "Dispatched"
        /\ \A c \in Cells : attemptsMade'[c] > 0 => attemptsMade[c] > 0
        /\ \A s \in Stages : canaryCleared[s] => canaryCleared'[s]
    BY <1>4, OnlyBatchesDispatch
  <2>2. ConcurrencyBound'
    <3>1. FitsLimits(Busy(targetState))
      BY DEF ConcurrencyBound, Busy
    <3>2. /\ Busy(targetState') \in SUBSET Busy(targetState)
          /\ Busy(targetState) \in SUBSET Cells
      BY <2>1 DEF Busy
    <3>3. FitsLimits(Busy(targetState'))
      BY <3>1, <3>2, FewerFitLimits
    <3> QED  BY <3>3 DEF ConcurrencyBound, Busy
  <2>3. CanaryBound'
    <3>1. CanaryFits(attemptsMade, canaryCleared)
      BY DEF CanaryFits, CanaryBound
    <3>2. CanaryFits(attemptsMade', canaryCleared')
      BY <2>1, <3>1, FewerFitCanary
    <3> QED  BY <3>2 DEF CanaryFits, CanaryBound, Attempted
  <2> QED  BY <1>1, <2>2, <2>3
<1> QED  BY <1>2, <1>3, <1>4

(* The bounds, with what they rest on, are inductive and hold.              *)
THEOREM BoundsInvariant == Spec => []BoundsInv
BY InitBoundsInv, NextKeepsBoundsInv, PTL DEF Spec

(* Dispatched work never exceeds the stage's concurrency, the stage limit   *)
(* and the global limit: a batch is planned against what is in flight, and  *)
(* nothing but a batch adds to it.                                          *)
THEOREM ConcurrencyIsBounded == Spec => []ConcurrencyBound
<1>1. BoundsInv => ConcurrencyBound
  BY DEF BoundsInv
<1> QED  BY <1>1, BoundsInvariant, PTL

(* Until the canary clears, no more targets than its size are ever tried.   *)
THEOREM CanaryIsBounded == Spec => []CanaryBound
<1>1. BoundsInv => CanaryBound
  BY DEF BoundsInv
<1> QED  BY <1>1, BoundsInvariant, PTL
=============================================================================
