--------------------------- MODULE RecoveryProofs ---------------------------
(***************************************************************************)
(* Theorems about a rollout across the death of its controller: every       *)
(* snapshot a handler may die with restores into a state from which the     *)
(* next incarnation keeps the plan (its order, gates, limits and canary),   *)
(* the ledger of attempts and the history of targets.                       *)
(***************************************************************************)
EXTENDS RecoverySafety, StageProofs

-----------------------------------------------------------------------------
(* The inductive invariant: what holds of the rollout in memory, and of the *)
(* newest snapshot in the journal.  Both are stated of a snapshot, so that  *)
(* a restart exchanges one for the other.                                   *)

Records ==
  [rolloutState : RolloutStates, resumeState : RolloutStates,
   cursor : 1..(NumStages + 1), generation : 1..MaxGeneration,
   stageState : [Stages -> StageStates], pendingGate : [Stages -> Gates],
   canaryCleared : [Stages -> BOOLEAN], dispatchedTotal : [Stages -> Nat],
   soak : [Stages -> SoakStates], targetState : [Cells -> TargetStates],
   attemptsMade : [Cells -> Nat], rollbackStep : [Cells -> Nat],
   named : SUBSET Cells]

(* Stages before the cursor are over, stages after it have not begun: the   *)
(* cursor's own may be in any state, succeeded included.                    *)
Ordered(m) ==
  /\ \A s \in Stages : /\ s < m.cursor => m.stageState[s] \in {"Succeeded", "RolledBack"}
                       /\ s > m.cursor => m.stageState[s] \in {"Pending", "Skipped"}
  /\ \A c \in Cells : m.attemptsMade[c] > 0 => c[1] <= m.cursor

(* The stages of which nothing but the cursor's move is left to do.         *)
Passed(m, s) ==
  \/ s < m.cursor
  \/ m.stageState[s] \in {"Advancing", "Succeeded"}
  \/ m.stageState[s] = "Gated" /\ m.pendingGate[s] \in {"evidence", "advance"}

Undone == {"RollingBack", "RolledBack", "RollbackFailed"}

(* Passed stages are settled, unless they are compensated.                  *)
Steady(m) ==
  /\ \A s \in Stages : m.stageState[s] # "RolledBack" /\ (Passed(m, s) => Settled(m.targetState, s))
  /\ \A c \in Cells : m.targetState[c] \notin Undone

Sensible(m) ==
  /\ IF m.rolloutState \in Unwound THEN \A s \in Stages : m.stageState[s] # "Gated" ELSE Steady(m)
  /\ m.rolloutState = "Completed" => m.cursor = NumStages + 1
  /\ m.rolloutState = "Paused" => m.resumeState \in Pausable
  /\ \A c \in Cells : m.targetState[c] # "Failed"

(* The attempts restore() rebuilds are those of changing targets, and every *)
(* target that waits for one has one.                                       *)
Names(m) ==
  /\ \A c \in m.named : CountsAsChanging(m.targetState[c]) /\ m.attemptsMade[c] > 0
  /\ \A c \in Cells : m.targetState[c] \in {"Dispatched", "Unknown"} => c \in m.named

Sound(m) == m \in Records /\ Ordered(m) /\ Sensible(m) /\ Names(m)

(* AttemptLedger, of a rollout that may have been restored.                 *)
Tallied ==
  /\ OpenIsLast /\ IssuedSoFar /\ \A a \in open : a.gen <= generation
  /\ \A c \in Cells : Current(c) \in open => CountsAsChanging(targetState[c])
  /\ \A c \in Cells : targetState[c] \in {"Dispatched", "Unknown"} => Current(c) \in open
  /\ OutstandingCounts

(* A controller that is up has written what it did; the tick that leaves a  *)
(* stage held may have timed attempts out and writes them with its next     *)
(* transition, and so does a cursor that moved without one.                 *)
Written ==
  controller = "up" =>
    /\ saved.generation = generation /\ saved.cursor \in 1..cursor
    /\ saved.attemptsMade = attemptsMade
    /\ \A c \in Cells : \/ saved.targetState[c] = targetState[c]
                        \/ /\ saved.targetState[c] = "Dispatched"
                           /\ targetState[c] \in {"Cancelled", "Exhausted"}

RecoveryInv ==
  /\ RecoveryTypeOK /\ CursorInv /\ Tallied /\ Sensible(Snapshot)
  /\ Sound(saved) /\ Written

-----------------------------------------------------------------------------
(* What a step does to one cell, in a rollout that may have been restored.  *)

Same(c) ==
  /\ targetState'[c] = targetState[c] /\ attemptsMade'[c] = attemptsMade[c]
  /\ Current(c) \in open' <=> Current(c) \in open

IsSent(c) ==
  /\ \/ targetState[c] \in {"Pending", "Dispatched"} /\ targetState'[c] = "Dispatched"
     \/ targetState[c] = "RollingBack" /\ targetState'[c] = "RollingBack"
  /\ attemptsMade'[c] = attemptsMade[c] + 1
  /\ Current(c) \notin open' /\ Current(c)' \in open'

HasEnded(c) ==
  /\ \/ /\ targetState[c] \in {"Dispatched", "Unknown"}
        /\ targetState'[c] \in {"Succeeded", "Cancelled", "Pending", "Exhausted"}
     \/ targetState[c] = "RollingBack" /\ targetState'[c] \in Undone
  /\ attemptsMade'[c] = attemptsMade[c] /\ Current(c) \notin open'
  /\ targetState'[c] \in {"Succeeded", "RolledBack"} =>
       [attempt |-> Current(c), outcome |-> "completed"] \in reports

IsUndone(c) ==
  /\ targetState[c] = "Succeeded" /\ targetState'[c] = "RollingBack"
  /\ rolloutState' = "RollingBack" /\ rollbackStep'[c] = 0
  /\ attemptsMade'[c] = attemptsMade[c] /\ Current(c) \notin open'

IsLost(c) ==
  /\ targetState[c] = "Dispatched" /\ targetState'[c] = "Unknown"
  /\ attemptsMade'[c] = attemptsMade[c] /\ Current(c) \in open'

Shifts(c) == Same(c) \/ IsSent(c) \/ HasEnded(c) \/ IsUndone(c) \/ IsLost(c)

(* A step's effect on the cells and on the attempts known of.               *)
Effect ==
  /\ generation' = generation
  /\ \A c \in Cells : Shifts(c)
  /\ open' \subseteq open \cup {Current(c)' : c \in Cells}
  /\ issued' \subseteq issued \cup {Current(c)' : c \in Cells}

(* What the lemmas about steps assume.                                      *)
Ready == CursorInv /\ Tallied /\ Sensible(Snapshot)

LEMMA SnapshotIs ==
  /\ Snapshot.rolloutState = rolloutState /\ Snapshot.resumeState = resumeState
  /\ Snapshot.cursor = cursor /\ Snapshot.generation = generation
  /\ Snapshot.stageState = stageState /\ Snapshot.pendingGate = pendingGate
  /\ Snapshot.targetState = targetState /\ Snapshot.attemptsMade = attemptsMade
  /\ Snapshot.rollbackStep = rollbackStep /\ Snapshot.named = Named
BY DEF Snapshot

(* What is ready is typed, and no target has failed for good.               *)
LEMMA ReadyIs ==
  ASSUME Ready
  PROVE  /\ TypeOK /\ \A c \in Cells : targetState[c] # "Failed"
         /\ \A c \in Cells : Current(c) \in open => targetState[c] \in {"Dispatched", "Unknown", "RollingBack"}
         /\ \A c \in Cells : targetState[c] \in {"Dispatched", "Unknown"} => Current(c) \in open
         /\ OpenIsLast /\ IssuedSoFar /\ OutstandingCounts /\ DispatchedIsOpen
  BY SnapshotIs DEF Ready, CursorInv, Sensible, Tallied, CountsAsChanging, DispatchedIsOpen

LEMMA StillCellsShift ==
  ASSUME UNCHANGED <<generation, targetState, attemptsMade, open, issued>>
  PROVE  Effect
  BY DEF Effect, Shifts, Same

(* What compensates was changed, has nothing in flight, and starts over.    *)
LEMMA UnwindShiftsCell ==
  ASSUME Ready, NEW ts \in [Cells -> TargetStates], NEW ss, Unwind(ts, ss),
         attemptsMade' = attemptsMade, open' \subseteq open, NEW c \in Cells,
         \/ ts[c] = targetState[c] /\ (Current(c) \in open => Current(c) \in open')
         \/ /\ targetState[c] = "Dispatched" /\ Current(c) \notin open'
            /\ ts[c] \in {"Pending", "Cancelled", "Exhausted"}
  PROVE  Shifts(c)
<1>1. TypeOK /\ targetState[c] # "Failed" /\ (Current(c) \in open => targetState[c] # "Succeeded")
  BY ReadyIs
<1>2. CASE targetState'[c] = ts[c]
  BY <1>2 DEF Shifts, Same, HasEnded
<1>3. CASE targetState'[c] # ts[c]
  <2>1. /\ ts[c] \in {"Succeeded", "Failed"} /\ targetState'[c] = "RollingBack"
        /\ rolloutState' = "RollingBack" /\ rollbackStep'[c] = 0
    BY <1>3 DEF Unwind, BeginRollback
  <2>2. ts[c] = targetState[c]
    BY <2>1
  <2> QED  BY <1>1, <2>1, <2>2 DEF Shifts, IsUndone
<1> QED  BY <1>2, <1>3

LEMMA SweepShifts ==
  ASSUME Ready, NEW s \in Stages, NEW c \in Cells
  PROVE  \/ Swept(s)[c] = targetState[c] /\ Current(c) \notin ExpiredAttempts(s)
         \/ /\ targetState[c] = "Dispatched" /\ Current(c) \in ExpiredAttempts(s)
            /\ Swept(s)[c] \in {"Pending", "Cancelled", "Exhausted"}
  BY ReadyIs, SweepMovesCell DEF RetryOrExhaust

(* The plane never heard of the attempt a dispatch makes next.              *)
LEMMA NextIsUnheardOf ==
  ASSUME Ready, NEW c \in Cells, generation' = generation,
         attemptsMade'[c] = attemptsMade[c] + 1
  PROVE  Current(c)' \notin issued
<1>1. Current(c)' = [gen |-> generation, cell |-> c, epoch |-> attemptsMade[c] + 1]
  BY DEF Current
<1> QED  BY <1>1, ReadyIs, NextAttemptIsNew

(* A batch, in a stage or of compensation steps: `left` is what is still    *)
(* open of the attempts made earlier.                                       *)
LEMMA BatchShifts ==
  ASSUME Ready, generation' = generation,
         NEW left \in SUBSET open, NEW accepted \in SUBSET Cells,
         Dispatch(accepted), open' = left \cup (issued' \ issued),
         \A c \in accepted :
            /\ Current(c) \notin left
            /\ \/ targetState[c] \in {"Pending", "Dispatched"} /\ targetState'[c] = "Dispatched"
               \/ targetState[c] = "RollingBack" /\ targetState'[c] = "RollingBack",
         \A c \in Cells \ accepted :
            \/ targetState'[c] = targetState[c] /\ (Current(c) \in open => Current(c) \in left)
            \/ /\ targetState[c] = "Dispatched" /\ Current(c) \notin left
               /\ targetState'[c] \in {"Pending", "Cancelled", "Exhausted"}
  PROVE  Effect
<1> DEFINE new == {[gen |-> generation, cell |-> c, epoch |-> attemptsMade[c] + 1] : c \in accepted}
<1>1. /\ issued' = issued \cup new
      /\ \A c \in accepted : attemptsMade'[c] = attemptsMade[c] + 1
      /\ \A c \in Cells \ accepted : attemptsMade'[c] = attemptsMade[c]
  BY DEF Dispatch
<1> HIDE DEF new
<1>2. \A c \in accepted : Current(c)' \in new
  BY <1>1 DEF new, Current
<1>3. new \subseteq {Current(c)' : c \in accepted}
  BY <1>1 DEF new, Current
<1>4. open' = left \cup (new \ issued)
  BY <1>1
<1>5. \A c \in Cells : Current(c) \notin new
  <2> TAKE c \in Cells
  <2>1. attemptsMade[c] # attemptsMade[c] + 1 /\ Current(c).epoch = attemptsMade[c] /\ Current(c).cell = c
    BY ReadyIs, CellTypes, CurrentType
  <2>2. SUFFICES ASSUME NEW d \in accepted,
                        Current(c) = [gen |-> generation, cell |-> d, epoch |-> attemptsMade[d] + 1]
                 PROVE  FALSE
    BY DEF new
  <2>3. Current(c).cell = d /\ Current(c).epoch = attemptsMade[d] + 1
    BY <2>2
  <2> QED  BY <2>1, <2>3
<1>6. ASSUME NEW c \in Cells PROVE Shifts(c)
  <2>1. CASE c \in accepted
    <3>1. Current(c)' \in open' /\ Current(c) \notin open'
      BY <1>1, <1>2, <1>4, <1>5, <2>1, NextIsUnheardOf
    <3> QED  BY <1>1, <2>1, <3>1 DEF Shifts, IsSent
  <2>2. CASE c \notin accepted
    <3>1. Current(c) \in open' <=> Current(c) \in left
      BY <1>4, <1>5
    <3> QED  BY <1>1, <2>2, <3>1 DEF Shifts, Same, HasEnded
  <2> QED  BY <2>1, <2>2
<1>7. new \subseteq {Current(c)' : c \in Cells}
  BY <1>3
<1> QED  BY <1>1, <1>4, <1>6, <1>7 DEF Effect

LEMMA CommandShifts ==
  ASSUME Ready, Command, generation' = generation
  PROVE  Effect
<1> USE DEF targetVars, attemptVars, planeVars
<1>1. CASE Arm \/ Start \/ Pause \/ Resume \/ AbortInterrupted \/ Retire
  BY <1>1, StillCellsShift DEF Arm, Start, Pause, Resume, AbortInterrupted, Retire
<1>2. CASE ApproveGate
  BY <1>2, StillCellsShift
     DEF ApproveGate, ApproveEntry, ApproveCompletion, ApproveTooLate, Approving
<1>3. CASE Abort
  <2>1. /\ Unwind(targetState, [s \in Stages |-> AbortedStage(stageState[s])])
        /\ UNCHANGED <<attemptsMade, open, issued>>
    BY <1>3 DEF Abort
  <2>2. targetState \in [Cells -> TargetStates]
    BY ReadyIs DEF TypeOK
  <2> QED  BY <2>1, <2>2, UnwindShiftsCell DEF Effect
<1>4. CASE Regenerate
  <2>1. generation' = generation + 1 /\ generation \in Int
    BY <1>4, ReadyIs DEF Regenerate, TypeOK
  <2> QED  BY <2>1
<1> QED  BY <1>1, <1>2, <1>3, <1>4 DEF Command

LEMMA EvidenceShifts ==
  ASSUME Ready, DrainEvidence
  PROVE  Effect
<1>1. PICK r \in reports : ApplyStopped(r) \/ ApplyCompensation(r) \/ ApplyExecution(r)
  BY DEF DrainEvidence
<1> DEFINE a == r.attempt
           d == r.attempt.cell
<1>2. /\ a \in open /\ a.gen = generation /\ d \in Cells /\ open' = open \ {a}
      /\ UNCHANGED <<generation, attemptsMade, issued>>
      /\ r.outcome \in Outcomes
  BY <1>1, ReadyIs DEF ApplyStopped, ApplyCompensation, ApplyExecution, Apply, Admitted, Finish,
                       TypeOK, Reports, Attempts, rolloutVars, planeVars
<1>3. a = Current(d) /\ targetState[d] \in {"Dispatched", "Unknown", "RollingBack"}
  BY <1>2, ReadyIs DEF OpenIsLast
<1>t. targetState \in [Cells -> TargetStates]
  BY ReadyIs DEF TypeOK
<1>d. d = r.attempt.cell
  OBVIOUS
<1> HIDE DEF a, d
<1>4. ASSUME NEW c \in Cells, c # d PROVE Shifts(c)
  <2>1. targetState'[c] = targetState[c]
    BY <1>1, <1>4, <1>t, <1>d DEF ApplyStopped, ApplyCompensation, ApplyExecution, Settle
  <2>2. Current(c) # a
    BY <1>2, <1>3, <1>4, ReadyIs, CurrentType
  <2> QED  BY <1>2, <2>1, <2>2 DEF Shifts, Same
<1>5. HasEnded(d)
  <2>0. r.outcome = "completed" => [attempt |-> Current(d), outcome |-> "completed"] \in reports
    <3>1. r = [attempt |-> a, outcome |-> r.outcome]
      BY ReadyIs DEF TypeOK, Reports, a
    <3> QED  BY <1>3, <3>1
  <2>1. CASE ApplyStopped(r)
    <3>1. targetState'[d] = IF targetState[d] \in {"Dispatched", "Unknown"}
                            THEN "Cancelled" ELSE targetState[d]
      BY <1>2, <1>t, <1>d, <2>1 DEF ApplyStopped, Settle
    <3> QED  BY <1>2, <1>3, <3>1 DEF HasEnded, Undone
  <2>2. CASE ApplyCompensation(r)
    <3>1. /\ targetState[d] = "RollingBack"
          /\ targetState'[d] \in {"RolledBack", "RollingBack", "RollbackFailed"}
          /\ targetState'[d] = "RolledBack" => r.outcome = "completed"
      BY <1>2, <1>t, <1>d, <2>2 DEF ApplyCompensation, Settle
    <3> QED  BY <1>2, <1>3, <2>0, <3>1 DEF HasEnded, Undone
  <2>3. CASE ApplyExecution(r)
    <3>1. targetState'[d] = ExecutionSettles(r) /\ targetState[d] # "RollingBack"
      BY <1>2, <1>t, <1>d, <2>3 DEF ApplyExecution, Settle
    <3>2. /\ ExecutionSettles(r) \in {"Succeeded", "Cancelled", "Pending", "Exhausted"}
          /\ ExecutionSettles(r) = "Succeeded" => r.outcome = "completed"
      BY DEF ExecutionSettles, RetryOrExhaust
    <3> QED  BY <1>2, <1>3, <2>0, <3>1, <3>2 DEF HasEnded
  <2> QED  BY <1>1, <2>1, <2>2, <2>3
<1> QED  BY <1>2, <1>4, <1>5 DEF Effect, Shifts

LEMMA RunStageShifts ==
  ASSUME Ready, NEW s \in Stages, NEW held,
         FailRunningStage(s) \/ HoldStage(s, held) \/ StartSoak(s, held)
           \/ CompleteStage(s, held)
  PROVE  Effect
<1>1. /\ open' = open \ ExpiredAttempts(s)
      /\ UNCHANGED <<generation, attemptsMade, issued>>
  BY DEF FailRunningStage, HoldStage, StartSoak, CompleteStage, Finish, Proceeding,
         Advancing, Ticking
<1>2. FailStage(s, Swept(s)) \/ targetState' = Swept(s)
  BY DEF FailRunningStage, HoldStage, StartSoak, CompleteStage
<1>3. ASSUME NEW c \in Cells PROVE Shifts(c)
  <2>1. \/ /\ Swept(s)[c] = targetState[c]
           /\ Current(c) \in open => Current(c) \in open'
        \/ /\ targetState[c] = "Dispatched" /\ Current(c) \notin open'
           /\ Swept(s)[c] \in {"Pending", "Cancelled", "Exhausted"}
    BY <1>1, SweepShifts
  <2>2. CASE FailStage(s, Swept(s))
    <3>1. Swept(s) \in [Cells -> TargetStates]
      BY SweepType, ReadyIs
    <3> QED  BY <1>1, <2>1, <2>2, <3>1, UnwindShiftsCell DEF FailStage
  <2>3. CASE targetState' = Swept(s)
    BY <1>1, <2>1, <2>3 DEF Shifts, Same, HasEnded
  <2> QED  BY <1>2, <2>2, <2>3
<1> QED  BY <1>1, <1>3 DEF Effect

LEMMA DispatchBatchShifts ==
  ASSUME Ready, NEW s \in Stages, NEW held, DispatchBatch(s, held)
  PROVE  Effect
<1>1. PICK accepted \in SUBSET Cells :
        /\ accepted \subseteq {c \in StageCells(s) : Swept(s)[c] = "Pending"}
        /\ Dispatch(accepted)
        /\ targetState' = [c \in Cells |->
              IF c \in accepted THEN "Dispatched" ELSE Swept(s)[c]]
        /\ open' = (open \ ExpiredAttempts(s)) \cup (issued' \ issued)
  BY BatchAccepted
<1>2. generation' = generation
  BY DEF DispatchBatch, Proceeding, Advancing, Ticking
<1> DEFINE left == open \ ExpiredAttempts(s)
<1>3. ASSUME NEW c \in accepted
      PROVE  /\ Current(c) \notin left
             /\ targetState[c] \in {"Pending", "Dispatched"} /\ targetState'[c] = "Dispatched"
  <2>1. c \in Cells /\ Swept(s)[c] = "Pending" /\ targetState'[c] = "Dispatched"
    BY <1>1, <1>3
  <2>2. targetState[c] = "Pending" => Current(c) \notin open
    BY <2>1, ReadyIs
  <2> QED  BY <2>1, <2>2, SweepShifts
<1>4. ASSUME NEW c \in Cells \ accepted
      PROVE  \/ targetState'[c] = targetState[c] /\ (Current(c) \in open => Current(c) \in left)
             \/ /\ targetState[c] = "Dispatched" /\ Current(c) \notin left
                /\ targetState'[c] \in {"Pending", "Cancelled", "Exhausted"}
  BY <1>1, <1>4, SweepShifts
<1> QED  BY <1>1, <1>2, <1>3, <1>4, BatchShifts

LEMMA AdvanceRollbackShifts ==
  ASSUME Ready, AdvanceRollback
  PROVE  Effect
<1>1. PICK accepted \in SUBSET {c \in RollbackPending : Current(c) \notin open} :
        Dispatch(accepted) /\ open' = open \cup (issued' \ issued)
  BY DEF AdvanceRollback, Acceptable
<1>2. UNCHANGED <<targetState, generation>>
  BY DEF AdvanceRollback, Ticking
<1>3. accepted \in SUBSET Cells
      /\ \A c \in accepted : Current(c) \notin open /\ targetState[c] = "RollingBack"
  BY DEF RollbackPending
<1> QED  BY <1>1, <1>2, <1>3, BatchShifts

LEMMA AdvanceShifts ==
  ASSUME Ready, Advance
  PROVE  Effect
<1> USE DEF targetVars, attemptVars
<1>1. CASE AdvanceIdle \/ FinishRollback
  BY <1>1, StillCellsShift DEF AdvanceIdle, FinishRollback, Ticking
<1>2. CASE \E s \in Stages : BeginStage(s)
  BY <1>2, StillCellsShift DEF BeginStage, Advancing, Ticking
<1> QED  BY <1>1, <1>2, AdvanceRollbackShifts, DispatchBatchShifts, RunStageShifts
         DEF Advance, RunStage

LEMMA EnvironmentShifts ==
  ASSUME Environment
  PROVE  Effect
BY StillCellsShift DEF Environment, WorkerReports, DeadlinePasses, SoakElapses,
                       targetVars, attemptVars, planeVars, rolloutVars

(* The branches of a tick that only a restored rollout reaches.             *)
Resumes == ResumeArmed \/ ResumeAdvancing \/ ResumeSucceeded \/ ResumeFailed \/ ResumeGated

LEMMA ResumesShift ==
  ASSUME Ready, Resumes
  PROVE  Effect
<1> USE DEF targetVars, attemptVars, stageVars, rolloutVars
<1>1. CASE ResumeArmed \/ ResumeAdvancing \/ ResumeSucceeded \/ ResumeGated
  BY <1>1, StillCellsShift DEF ResumeArmed, ResumeAdvancing, ResumeSucceeded, ResumeGated,
                               Advancing, Ticking
<1>2. CASE ResumeFailed
  <2>1. /\ Unwind(targetState, stageState)
        /\ UNCHANGED <<generation, attemptsMade, open, issued>>
    BY <1>2 DEF ResumeFailed, Advancing, Ticking
  <2>2. targetState \in [Cells -> TargetStates]
    BY ReadyIs DEF TypeOK
  <2> QED  BY <2>1, <2>2, UnwindShiftsCell DEF Effect
<1> QED  BY <1>1, <1>2 DEF Resumes

(* What it reaches without moving a stage or a target.                      *)
Concludes == ResumeFinished \/ \E s \in Stages : ApproveUndone(s)

Concluded ==
  /\ UNCHANGED <<resumeState, cursor, generation, stageState, canaryCleared,
                 dispatchedTotal, soak, targetVars, attemptVars, planeVars, halted>>
  /\ draining' \in BOOLEAN /\ pendingGate' \in [Stages -> Gates]
  /\ \A s \in Stages : pendingGate'[s] = pendingGate[s] \/ stageState[s] \in TerminalStage
  /\ \/ /\ rolloutState' = "Completed" /\ pendingGate' = pendingGate
        /\ rolloutState \in {"Running", "Soaking", "Advancing"} /\ cursor = NumStages + 1
     \/ /\ rolloutState' = "Failed"
        /\ \E s \in Stages : stageState[s] = "RolledBack"

LEMMA ConcludesIs ==
  ASSUME TypeOK, Concludes
  PROVE  Concluded
<1>1. CASE ResumeFinished
  <2>1. cursor = NumStages + 1
    BY <1>1, Bounds DEF ResumeFinished, TypeOK
  <2> QED  BY <1>1, <2>1 DEF Concluded, ResumeFinished, Ticking, stageVars, attemptVars,
                             planeVars, TypeOK
<1>2. ASSUME NEW s \in Stages, ApproveUndone(s)
      PROVE  Concluded
  <2>1. PICK p \in Preds[s] : stageState[p] = "RolledBack"
    BY <1>2 DEF ApproveUndone, PredecessorUndone
  <2>2. p \in Stages
    BY PlanAssumption DEF PlanAssumption
  <2>3. /\ pendingGate' = [pendingGate EXCEPT ![s] = "none"]
        /\ pendingGate \in [Stages -> Gates] /\ "none" \in Gates
    BY <1>2 DEF ApproveUndone, Approving, TypeOK, Gates
  <2>4. /\ pendingGate' \in [Stages -> Gates]
        /\ \A r \in Stages : pendingGate'[r] = pendingGate[r] \/ stageState[r] \in TerminalStage
    BY <1>2, <2>3 DEF ApproveUndone
  <2> QED  BY <1>2, <2>1, <2>2, <2>4 DEF Concluded, ApproveUndone, Approving, attemptVars, TypeOK
<1> QED  BY <1>1, <1>2 DEF Concludes

LEMMA ReconcileShifts ==
  ASSUME Ready, Reconcile
  PROVE  Effect
<1>1. PICK a \in open : a.gen = generation /\ (ReleaseNotStarted(a) \/ MarkUnknown(a))
  BY DEF Reconcile
<1> DEFINE d == a.cell
<1>2. /\ a = Current(d) /\ d \in Cells
      /\ targetState[d] \in {"Dispatched", "Unknown", "RollingBack"}
      /\ targetState \in [Cells -> TargetStates]
  BY <1>1, ReadyIs DEF OpenIsLast, TypeOK, Attempts
<1>3. /\ UNCHANGED <<generation, attemptsMade>>
      /\ open' \subseteq open /\ open \ open' \subseteq {a} /\ issued' \subseteq issued
      /\ ReleaseNotStarted(a) => a \notin open'
      /\ MarkUnknown(a) => a \in open'
  BY <1>1 DEF Reconcile, ReleaseNotStarted, MarkUnknown, Finish, rolloutVars, attemptVars
<1>4. \A c \in Cells : c # d => targetState'[c] = targetState[c]
  BY <1>1, <1>2 DEF ReleaseNotStarted, MarkUnknown, Settle
<1>5. /\ ReleaseNotStarted(a) => targetState'[d] =
            IF targetState[d] \in {"Dispatched", "Unknown"} THEN "Pending" ELSE targetState[d]
      /\ MarkUnknown(a) => targetState[d] = "Dispatched" /\ targetState'[d] = "Unknown"
  BY <1>2 DEF ReleaseNotStarted, MarkUnknown, Settle
<1> HIDE DEF d
<1>6. ASSUME NEW c \in Cells, c # d PROVE Shifts(c)
  <2>1. Current(c) # a
    BY <1>2, <1>6, ReadyIs, CurrentType
  <2> QED  BY <1>3, <1>4, <1>6, <2>1 DEF Shifts, Same
<1>7. HasEnded(d) \/ IsLost(d)
  BY <1>1, <1>2, <1>3, <1>5 DEF HasEnded, IsLost, Undone
<1> QED  BY <1>3, <1>6, <1>7 DEF Effect, Shifts

-----------------------------------------------------------------------------
(* The ledger is kept by every step inside a generation, by regeneration,   *)
(* and by restore().                                                        *)

Handled ==
  \/ Command /\ generation' = generation
  \/ DrainEvidence \/ Advance \/ Environment \/ Resumes \/ Concludes \/ Reconcile

LEMMA ConcludesShift ==
  ASSUME Ready, Concludes
  PROVE  Effect
BY ReadyIs, ConcludesIs, StillCellsShift DEF Concluded, targetVars, attemptVars, planeVars

LEMMA HandledShifts ==
  ASSUME Ready, Handled
  PROVE  Effect
BY CommandShifts, EvidenceShifts, AdvanceShifts, EnvironmentShifts, ResumesShift,
   ConcludesShift, ReconcileShifts DEF Handled

LEMMA CommandCounts ==
  ASSUME Ready, Command, generation' = generation
  PROVE  OutstandingCounts'
<1>0. ~Regenerate
  <2>1. generation \in Nat
    BY ReadyIs DEF TypeOK
  <2> QED  BY <2>1 DEF Regenerate
<1>1. UNCHANGED <<outstanding, open>>
  BY <1>0 DEF Command, Arm, Start, Pause, Resume, Abort, AbortInterrupted, Retire,
              ApproveGate, ApproveEntry, ApproveCompletion, ApproveTooLate, Approving, attemptVars
<1> QED  BY <1>1, ReadyIs, UncountedStep

LEMMA EvidenceCounts ==
  ASSUME Ready, DrainEvidence
  PROVE  OutstandingCounts'
<1>1. PICK r \in reports : ApplyStopped(r) \/ ApplyCompensation(r) \/ ApplyExecution(r)
  BY DEF DrainEvidence
<1>2. /\ r.attempt \in open /\ r.attempt.gen = generation
      /\ Finish({r.attempt}) /\ generation' = generation
  BY <1>1 DEF ApplyStopped, ApplyCompensation, ApplyExecution, Apply, Admitted, rolloutVars
<1>3. {r.attempt} \in SUBSET OpenNow
  BY <1>2 DEF OpenNow
<1> QED  BY <1>2, <1>3, ReadyIs, FinishCounts

LEMMA ReconcileCounts ==
  ASSUME Ready, Reconcile
  PROVE  OutstandingCounts'
<1>1. PICK a \in open : a.gen = generation /\ (ReleaseNotStarted(a) \/ MarkUnknown(a))
  BY DEF Reconcile
<1>2. generation' = generation
  BY DEF Reconcile, rolloutVars
<1>3. CASE MarkUnknown(a)
  BY <1>2, <1>3, ReadyIs, UncountedStep DEF MarkUnknown, attemptVars
<1>4. CASE ReleaseNotStarted(a)
  <2>1. {a} \in SUBSET OpenNow /\ Finish({a})
    BY <1>1, <1>4 DEF OpenNow, ReleaseNotStarted
  <2> QED  BY <1>2, <2>1, ReadyIs, FinishCounts
<1> QED  BY <1>1, <1>3, <1>4

LEMMA DispatchBatchCounts ==
  ASSUME Ready, NEW s \in Stages, NEW held, DispatchBatch(s, held)
  PROVE  OutstandingCounts'
<1>1. PICK accepted \in SUBSET Cells :
        /\ Dispatch(accepted)
        /\ open' = (open \ ExpiredAttempts(s)) \cup (issued' \ issued)
        /\ outstanding' = OutstandingAfter(ExpiredAttempts(s)) + Cardinality(accepted)
  BY BatchAccepted
<1>2. generation' = generation
  BY DEF DispatchBatch, Proceeding, Advancing, Ticking
<1>3. ExpiredAttempts(s) \in SUBSET OpenNow
  BY ReadyIs, SweptWasOpen
<1>4. outstanding' = Cardinality(OpenNow \ ExpiredAttempts(s)) + Cardinality(accepted)
  BY <1>1, <1>3, ReadyIs, FinishedWasCounted
<1> QED  BY <1>1, <1>2, <1>3, <1>4, ReadyIs, DispatchCounts

LEMMA AdvanceRollbackCounts ==
  ASSUME Ready, AdvanceRollback
  PROVE  OutstandingCounts'
<1>1. PICK accepted \in SUBSET Cells :
        /\ Dispatch(accepted) /\ open' = open \cup (issued' \ issued)
        /\ outstanding' = outstanding + Cardinality(accepted)
  BY DEF AdvanceRollback, Acceptable, RollbackPending
<1>2. generation' = generation
  BY DEF AdvanceRollback, Ticking
<1>3. OpenNow \ {} = OpenNow /\ open \ {} = open /\ {} \in SUBSET OpenNow
  OBVIOUS
<1>4. outstanding' = Cardinality(OpenNow \ {}) + Cardinality(accepted)
  BY <1>1, <1>3, ReadyIs DEF OutstandingCounts
<1>5. open' = (open \ {}) \cup (issued' \ issued)
  BY <1>1, <1>3
<1> QED  BY <1>1, <1>2, <1>3, <1>4, <1>5, ReadyIs, DispatchCounts

LEMMA HandledCounts ==
  ASSUME Ready, Handled
  PROVE  OutstandingCounts'
<1> USE DEF Finish, attemptVars
<1>1. CASE Environment \/ AdvanceIdle \/ FinishRollback \/ \E s \in Stages : BeginStage(s)
  <2>1. UNCHANGED <<outstanding, open, generation>>
    BY <1>1 DEF Environment, WorkerReports, DeadlinePasses, SoakElapses, AdvanceIdle,
                FinishRollback, BeginStage, Advancing, Ticking, rolloutVars
  <2> QED  BY <2>1, ReadyIs, UncountedStep
<1>2. CASE Resumes
  <2>1. UNCHANGED <<outstanding, open, generation>>
    BY <1>2 DEF Resumes, ResumeArmed, ResumeAdvancing, ResumeSucceeded, ResumeFailed,
                ResumeGated, Advancing, Ticking, rolloutVars
  <2> QED  BY <2>1, ReadyIs, UncountedStep
<1>r. CASE Concludes
  <2>1. UNCHANGED <<outstanding, open, generation>>
    BY <1>r, ReadyIs, ConcludesIs DEF Concluded
  <2> QED  BY <2>1, ReadyIs, UncountedStep
<1>3. ASSUME NEW s \in Stages, NEW held,
             FailRunningStage(s) \/ HoldStage(s, held) \/ StartSoak(s, held)
               \/ CompleteStage(s, held)
      PROVE  OutstandingCounts'
  <2>1. Finish(ExpiredAttempts(s)) /\ generation' = generation
    BY <1>3 DEF FailRunningStage, HoldStage, StartSoak, CompleteStage, Proceeding,
                Advancing, Ticking
  <2>2. ExpiredAttempts(s) \in SUBSET OpenNow
    BY ReadyIs, SweptWasOpen
  <2> QED  BY <2>1, <2>2, ReadyIs, FinishCounts
<1>4. CASE Advance
  BY <1>1, <1>3, <1>4, DispatchBatchCounts, AdvanceRollbackCounts DEF Advance, RunStage
<1> QED  BY <1>1, <1>2, <1>r, <1>4, CommandCounts, EvidenceCounts, ReconcileCounts DEF Handled

(* The parts of the ledger that are about one attempt or one cell.          *)
LEMMA HandledTallies ==
  ASSUME Ready, TypeOK', Handled
  PROVE  Tallied'
<1>1. /\ generation' = generation
      /\ \A c \in Cells : Shifts(c)
      /\ open' \subseteq open \cup {Current(c)' : c \in Cells}
      /\ issued' \subseteq issued \cup {Current(c)' : c \in Cells}
  BY HandledShifts DEF Effect
<1>2. \A c \in Cells : Current(c)'.gen = generation /\ Current(c)'.cell = c
                       /\ Current(c)'.epoch = attemptsMade'[c]
  BY <1>1 DEF Current
<1>3. ASSUME NEW c \in Cells
      PROVE  /\ attemptsMade'[c] \in Nat /\ attemptsMade[c] \in Nat
             /\ attemptsMade'[c] >= attemptsMade[c]
             /\ attemptsMade'[c] = attemptsMade[c] => Current(c)' = Current(c)
             /\ Current(c) \in open' => attemptsMade'[c] = attemptsMade[c]
             /\ Current(c)' \in open' => CountsAsChanging(targetState'[c])
             /\ targetState'[c] \in {"Dispatched", "Unknown"} => Current(c)' \in open'
  <2>0. /\ Current(c) \in open => CountsAsChanging(targetState[c])
        /\ targetState[c] \in {"Dispatched", "Unknown"} => Current(c) \in open
    BY DEF Ready, Tallied
  <2>1. attemptsMade'[c] \in Nat /\ attemptsMade[c] \in Nat
    BY ReadyIs DEF TypeOK
  <2>2. attemptsMade'[c] = attemptsMade[c] => Current(c)' = Current(c)
    BY <1>1 DEF Current
  <2>3. CASE Same(c)
    BY <2>0, <2>1, <2>2, <2>3 DEF Same
  <2>4. CASE IsSent(c)
    BY <2>1, <2>4 DEF IsSent, CountsAsChanging
  <2>5. CASE HasEnded(c)
    BY <2>1, <2>2, <2>5 DEF HasEnded, Undone
  <2>6. CASE IsUndone(c) \/ IsLost(c)
    BY <2>1, <2>2, <2>6 DEF IsUndone, IsLost, CountsAsChanging
  <2> QED  BY <1>1, <2>1, <2>2, <2>3, <2>4, <2>5, <2>6 DEF Shifts
<1>4. OpenIsLast'
  <2> SUFFICES ASSUME NEW a \in open', a.gen = generation PROVE a = Current(a.cell)'
    BY <1>1 DEF OpenIsLast
  <2>1. CASE a \in open
    <3>1. a = Current(a.cell) /\ a.cell \in Cells
      BY <2>1, ReadyIs DEF OpenIsLast, TypeOK, Attempts
    <3> QED  BY <1>3, <3>1
  <2>2. CASE a \in {Current(c)' : c \in Cells}
    BY <1>2, <2>2
  <2> QED  BY <1>1, <2>1, <2>2
<1>5. IssuedSoFar'
  <2> SUFFICES ASSUME NEW a \in issued'
               PROVE  a.gen <= generation /\ (a.gen = generation => a.epoch <= attemptsMade'[a.cell])
    BY <1>1 DEF IssuedSoFar
  <2>1. CASE a \in issued
    <3>1. /\ a.gen <= generation
          /\ a.gen = generation => a.epoch <= attemptsMade[a.cell]
          /\ a.cell \in Cells /\ a.epoch \in Nat
      BY <2>1, ReadyIs DEF IssuedSoFar, TypeOK, Attempts
    <3>2. /\ attemptsMade[a.cell] \in Nat /\ attemptsMade'[a.cell] \in Nat
          /\ attemptsMade[a.cell] <= attemptsMade'[a.cell]
      BY <1>3, <3>1
    <3> QED  BY <3>1, <3>2
  <2>2. CASE a \in {Current(c)' : c \in Cells}
    <3>1. generation \in Nat
      BY ReadyIs DEF TypeOK
    <3>2. PICK c \in Cells : a = Current(c)'
      BY <2>2
    <3> QED  BY <1>2, <1>3, <3>1, <3>2
  <2> QED  BY <1>1, <2>1, <2>2
<1>6. \A a \in open' : a.gen <= generation'
  <2>1. generation \in Nat /\ \A a \in open : a.gen <= generation
    BY ReadyIs DEF TypeOK, Ready, Tallied
  <2> QED  BY <1>1, <1>2, <2>1
<1> QED  BY <1>3, <1>4, <1>5, <1>6, HandledCounts DEF Tallied

LEMMA RegenerateTallies ==
  ASSUME Ready, Regenerate
  PROVE  Tallied'
<1>1. /\ generation' = generation + 1 /\ outstanding' = 0 /\ UNCHANGED <<open, issued>>
      /\ \A c \in Cells : targetState'[c] = "Pending"
  BY DEF Regenerate, planeVars
<1>2. /\ generation \in Nat /\ \A a \in open : a.gen \in Nat /\ a.gen <= generation
      /\ \A a \in issued : a.gen \in Nat /\ a.gen <= generation
  BY ReadyIs DEF TypeOK, Ready, Tallied, IssuedSoFar, Attempts
<1>3. \A a \in open' : a.gen <= generation' /\ a.gen # generation'
  BY <1>1, <1>2
<1>4. OpenIsLast' /\ IssuedSoFar'
  BY <1>1, <1>2, <1>3 DEF OpenIsLast, IssuedSoFar
<1>5. \A c \in Cells : Current(c)' \notin open'
  <2>1. \A c \in Cells : Current(c)'.gen = generation'
    BY DEF Current
  <2> QED  BY <1>3, <2>1
<1>6. OpenNow' = {}
  BY <1>3 DEF OpenNow
<1> QED  BY <1>1, <1>3, <1>4, <1>5, <1>6, FS_EmptySet DEF Tallied, OutstandingCounts

-----------------------------------------------------------------------------
(* The cursor and the types.                                                *)

LEMMA ResumesKeepTypes ==
  ASSUME CursorInv, Resumes
  PROVE  TypeOK'
<1> USE DEF CursorInv, TypeOK, stageVars, targetVars, attemptVars
<1>1. /\ ~halted /\ cursor \in Stages
      /\ draining' = FALSE /\ UNCHANGED <<resumeState, generation, reports, cancelled, halted>>
      /\ UNCHANGED <<pendingGate, canaryCleared, dispatchedTotal, soak, attemptsMade,
                     attemptVars, issued>>
  <2>1. cursor <= NumStages => cursor \in Stages
    BY Bounds
  <2> QED  BY <2>1 DEF Resumes, ResumeArmed, ResumeAdvancing, ResumeSucceeded, ResumeFailed,
                   ResumeGated, Advancing, Ticking, rolloutVars
<1>2. CASE ResumeArmed \/ ResumeGated
  <2>1. /\ UNCHANGED <<rolloutState, cursor, targetVars>>
        /\ stageState' \in {stageState, [stageState EXCEPT ![cursor] = "Running"]}
    BY <1>2 DEF ResumeArmed, ResumeGated, rolloutVars
  <2>2. stageState' \in [Stages -> StageStates]
    BY <1>1, <2>1, StageStatesAre
  <2> QED  BY <1>1, <2>1, <2>2
<1>3. CASE ResumeAdvancing
  <2>1. SucceedStage(cursor) /\ UNCHANGED targetVars
    BY <1>3 DEF ResumeAdvancing
  <2>2. /\ stageState' \in [Stages -> StageStates] /\ cursor' \in 1..(NumStages + 1)
        /\ rolloutState' \in RolloutStates
    BY <1>1, <2>1, SucceedStageType
  <2> QED  BY <1>1, <2>1, <2>2
<1>4. CASE ResumeSucceeded
  <2>1. /\ cursor' = cursor + 1 /\ UNCHANGED <<stageState, targetVars>>
        /\ rolloutState' = Moved(IF cursor' > NumStages THEN "Completed" ELSE "Advancing")
    BY <1>4 DEF ResumeSucceeded
  <2>2. rolloutState' \in RolloutStates
    BY <2>1, MovedType, RolloutStatesAre
  <2>3. cursor' \in 1..(NumStages + 1)
    BY <1>1, <2>1, Bounds
  <2> QED  BY <1>1, <2>1, <2>2, <2>3
<1>5. CASE ResumeFailed
  <2>1. Unwind(targetState, stageState) /\ cursor' = cursor
    BY <1>5 DEF ResumeFailed
  <2>2. /\ rolloutState' \in {"RollingBack", "Failed"} /\ stageState' = stageState
        /\ targetState' \in [Cells -> TargetStates] /\ rollbackStep' \in [Cells -> Nat]
    BY <2>1, UnwindType
  <2> QED  BY <1>1, <2>1, <2>2, RolloutStatesAre
<1> QED  BY <1>2, <1>3, <1>4, <1>5 DEF Resumes

LEMMA ReconcileKeepsTypes ==
  ASSUME CursorInv, Reconcile
  PROVE  TypeOK'
<1> USE DEF CursorInv, TypeOK, targetVars, attemptVars
<1>1. PICK a \in open : ReleaseNotStarted(a) \/ MarkUnknown(a)
  BY DEF Reconcile
<1>2. UNCHANGED <<rolloutVars, stageVars, attemptsMade, rollbackStep, reports,
                  draining, halted>>
  BY DEF Reconcile
<1>3. \/ targetState' = [targetState EXCEPT ![a.cell] =
            IF @ \in {"Dispatched", "Unknown"} THEN "Pending" ELSE @]
      \/ targetState' = [targetState EXCEPT ![a.cell] = "Unknown"]
  BY <1>1 DEF ReleaseNotStarted, MarkUnknown, Settle
<1>4. targetState' \in [Cells -> TargetStates]
  BY <1>3, TargetStatesAre
<1>5. /\ outstanding' \in Nat /\ open' \subseteq Attempts /\ overdue' \subseteq Attempts
      /\ issued' \subseteq Attempts /\ cancelled' \subseteq Attempts
  <2>1. CASE ReleaseNotStarted(a)
    <3>1. IsFiniteSet({a})
      BY FS_Singleton
    <3> QED  BY <2>1, <3>1, FinishType DEF ReleaseNotStarted
  <2>2. CASE MarkUnknown(a)
    BY <2>2 DEF MarkUnknown
  <2> QED  BY <1>1, <2>1, <2>2
<1> QED  BY <1>2, <1>4, <1>5 DEF rolloutVars, stageVars

LEMMA ResumesKeepCursor ==
  ASSUME CursorInv, Resumes
  PROVE  StagesAroundCursor' /\ WorkUpToCursor'
<1>1. cursor \in Stages /\ attemptsMade' = attemptsMade
  <2>1. cursor \in Nat \ {0} /\ (cursor <= NumStages => cursor \in Stages)
    BY Bounds DEF CursorInv, TypeOK
  <2> QED  BY <2>1 DEF Resumes, ResumeArmed, ResumeAdvancing, ResumeSucceeded, ResumeFailed,
                   ResumeGated, Advancing, targetVars
<1>2. \A r \in Stages : r # cursor => stageState'[r] = stageState[r]
  BY DEF Resumes, ResumeArmed, ResumeAdvancing, ResumeSucceeded, ResumeFailed,
         ResumeGated, stageVars, SucceedStage, Unwind, CursorInv, TypeOK
<1>3. \/ cursor' = cursor
      \/ cursor' = cursor + 1 /\ stageState'[cursor] = "Succeeded"
  BY <1>1 DEF Resumes, ResumeArmed, ResumeAdvancing, ResumeSucceeded, ResumeFailed,
              ResumeGated, Advancing, rolloutVars, stageVars, SucceedStage, CursorInv, TypeOK
<1> QED  BY <1>1, <1>2, <1>3, CurrentStageMoves, UnchangedWorkStays

LEMMA StepKeepsCursorInv ==
  ASSUME CursorInv, Handled \/ Regenerate
  PROVE  CursorInv'
<1>1. CASE Command \/ DrainEvidence \/ Advance \/ Environment
  BY <1>1, NextKeepsCursorInv DEF Next
<1>2. CASE Resumes
  BY <1>2, ResumesKeepTypes, ResumesKeepCursor DEF CursorInv
<1>3. CASE Reconcile
  <2>1. UNCHANGED <<cursor, stageState, attemptsMade>>
    BY <1>3 DEF Reconcile, rolloutVars, stageVars
  <2> QED  BY <1>3, <2>1, ReconcileKeepsTypes
           DEF CursorInv, StagesAroundCursor, WorkUpToCursor
<1>4. CASE Concludes
  <2>1. Concluded
    BY <1>4, ConcludesIs DEF CursorInv
  <2>2. TypeOK'
    BY <2>1, RolloutStatesAre
       DEF CursorInv, TypeOK, Concluded, targetVars, attemptVars, planeVars
  <2>3. UNCHANGED <<cursor, stageState, attemptsMade>>
    BY <2>1 DEF Concluded, targetVars
  <2> QED  BY <2>2, <2>3 DEF CursorInv, StagesAroundCursor, WorkUpToCursor
<1> QED  BY <1>1, <1>2, <1>3, <1>4 DEF Handled, Command

-----------------------------------------------------------------------------
(* What the rollout's state says of its stages and targets.                 *)

PassedNow(s) ==
  \/ s < cursor
  \/ stageState[s] \in {"Advancing", "Succeeded"}
  \/ stageState[s] = "Gated" /\ pendingGate[s] \in {"evidence", "advance"}

SteadyNow ==
  /\ \A s \in Stages : stageState[s] # "RolledBack" /\ (PassedNow(s) => Settled(targetState, s))
  /\ \A c \in Cells : targetState[c] \notin Undone

SensibleNow ==
  /\ IF rolloutState \in Unwound THEN \A s \in Stages : stageState[s] # "Gated" ELSE SteadyNow
  /\ rolloutState = "Completed" => cursor = NumStages + 1
  /\ rolloutState = "Paused" => resumeState \in Pausable
  /\ \A c \in Cells : targetState[c] # "Failed"

LEMMA SensibleIs ==
  /\ Sensible(Snapshot) <=> SensibleNow
  /\ Sensible(Snapshot)' <=> SensibleNow'
BY DEF Sensible, SensibleNow, Steady, SteadyNow, Passed, PassedNow, Snapshot

(* A step that neither leaves a compensation, undoes a stage, nor passes a  *)
(* stage that is not settled.                                               *)
InCourse ==
  /\ rolloutState' \notin Unwound =>
       /\ rolloutState \notin Unwound
       /\ \A s \in Stages : /\ stageState'[s] = "RolledBack" => stageState[s] = "RolledBack"
                            /\ PassedNow(s)' => PassedNow(s) \/ Settled(targetState', s)
  /\ rolloutState' \in Unwound => \A s \in Stages : stageState'[s] # "Gated"
  /\ rolloutState' = "Completed" => cursor' = NumStages + 1
  /\ rolloutState' = "Paused" => resumeState' \in Pausable

LEMMA SettledStays ==
  ASSUME Ready, NEW s \in Stages, \A c \in Cells : Shifts(c),
         rolloutState \notin Unwound, rolloutState' \notin Unwound,
         Settled(targetState, s)
  PROVE  Settled(targetState', s)
<1>1. ASSUME NEW c \in Cells, c[1] = s PROVE targetState'[c] = targetState[c]
  <2>1. targetState[c] \in TerminalTarget \ (Undone \cup {"Failed"})
    BY <1>1, SensibleIs DEF Ready, SensibleNow, SteadyNow, Settled, AllTerminal, StageCells
  <2> QED  BY <2>1 DEF Shifts, Same, IsSent, HasEnded, IsUndone, IsLost, TerminalTarget,
                       Undone, Unwound
<1>2. Settled(targetState', s) = Settled(targetState, s)
  BY <1>1, SettledOfCells
<1> QED  BY <1>2

LEMMA CourseKeepsSense ==
  ASSUME Ready, \A c \in Cells : Shifts(c), InCourse
  PROVE  Sensible(Snapshot)'
<1>0. SensibleNow
  BY SensibleIs DEF Ready
<1>1. \A c \in Cells : targetState'[c] # "Failed"
  BY <1>0 DEF Shifts, Same, IsSent, HasEnded, IsUndone, IsLost, Undone, SensibleNow
<1>2. ASSUME rolloutState' \notin Unwound PROVE SteadyNow'
  <2>1. rolloutState \notin Unwound /\ SteadyNow
    BY <1>0, <1>2 DEF InCourse, SensibleNow
  <2>2. \A c \in Cells : targetState'[c] \notin Undone
    BY <1>2, <2>1 DEF Shifts, Same, IsSent, HasEnded, IsUndone, IsLost, Undone, SteadyNow, Unwound
  <2>3. ASSUME NEW s \in Stages
        PROVE  stageState'[s] # "RolledBack" /\ (PassedNow(s)' => Settled(targetState', s))
    <3>1. PassedNow(s) => Settled(targetState', s)
      BY <1>2, <2>1, SettledStays DEF SteadyNow
    <3> QED  BY <1>2, <2>1, <3>1 DEF InCourse, SteadyNow
  <2> QED  BY <2>2, <2>3 DEF SteadyNow
<1> QED  BY <1>1, <1>2, SensibleIs DEF InCourse, SensibleNow

LEMMA GatedIsHere ==
  ASSUME Ready, NEW s \in Stages, stageState[s] = "Gated"
  PROVE  s = cursor /\ rolloutState \notin Unwound \cup {"Completed"}
<1>1. s = cursor
  BY OnlyTheCurrentStageRuns DEF Ready
<1>2. s # NumStages + 1
  BY Bounds
<1> QED  BY <1>1, <1>2, SensibleIs DEF Ready, SensibleNow

(* A step that only moves the current stage.                                *)
LEMMA CurrentInCourse ==
  ASSUME Ready, NEW s \in Stages, s = cursor,
         \A r \in Stages : r # s => stageState'[r] = stageState[r] /\ pendingGate'[r] = pendingGate[r],
         rolloutState \notin Unwound, cursor' \in {cursor, cursor + 1},
         rolloutState' \notin Unwound => stageState'[s] # "RolledBack",
         rolloutState' \notin Unwound /\ PassedNow(s)' => PassedNow(s) \/ Settled(targetState', s),
         rolloutState' \in Unwound => stageState'[s] # "Gated",
         rolloutState' = "Completed" => cursor' = NumStages + 1,
         rolloutState' = "Paused" => resumeState' \in Pausable
  PROVE  InCourse
<1>1. \A r \in Stages : r < cursor' /\ r # s => r < cursor
  BY Bounds
<1>2. \A r \in Stages : r # s => (PassedNow(r)' => PassedNow(r))
  BY <1>1 DEF PassedNow
<1>3. \A r \in Stages : rolloutState' \in Unwound => stageState'[r] # "Gated"
  BY GatedIsHere
<1>4. \A r \in Stages : rolloutState' \notin Unwound =>
        (stageState'[r] = "RolledBack" => stageState[r] = "RolledBack")
  OBVIOUS
<1>5. \A r \in Stages : rolloutState' \notin Unwound =>
        (PassedNow(r)' => PassedNow(r) \/ Settled(targetState', r))
  BY <1>2
<1> QED  BY <1>3, <1>4, <1>5 DEF InCourse

(* A step that moves no stage.                                              *)
LEMMA StillInCourse ==
  ASSUME Ready, UNCHANGED <<cursor, stageState>>,
         \A s \in Stages : stageState[s] = "Gated" => pendingGate'[s] = pendingGate[s],
         rolloutState' \notin Unwound => rolloutState \notin Unwound,
         rolloutState' \in Unwound => rolloutState \in Unwound \cup {"Completed"},
         rolloutState' = "Completed" => rolloutState = "Completed",
         rolloutState' = "Paused" => resumeState' \in Pausable
  PROVE  InCourse
<1>1. SensibleNow
  BY SensibleIs DEF Ready
<1>2. \A s \in Stages : PassedNow(s)' => PassedNow(s)
  BY DEF PassedNow
<1>3. rolloutState' \in Unwound => \A s \in Stages : stageState'[s] # "Gated"
  BY GatedIsHere
<1> QED  BY <1>1, <1>2, <1>3 DEF InCourse, SensibleNow

LEMMA CommandInCourse ==
  ASSUME Ready, Command, generation' = generation
  PROVE  InCourse
<1>s. SensibleNow
  BY SensibleIs DEF Ready
<1> USE DEF stageVars, CommandNames
<1>1. CASE Arm \/ Start \/ Pause \/ Resume \/ Retire
  <2>1. /\ UNCHANGED <<cursor, stageState, pendingGate>>
        /\ rolloutState' = "Paused" => resumeState' \in Pausable
        /\ rolloutState' # "Completed"
        /\ rolloutState' \notin Unwound => rolloutState \notin Unwound
        /\ rolloutState' \in Unwound => rolloutState \in Unwound \cup {"Completed"}
    BY <1>1, <1>s DEF Arm, Start, Pause, Resume, Retire, Unwound, Pausable, SensibleNow
  <2> QED  BY <2>1, StillInCourse
<1>2. CASE Abort
  <2>1. rolloutState' \in {"RollingBack", "Failed"}
        /\ stageState' = [s \in Stages |-> AbortedStage(stageState[s])]
    BY <1>2 DEF Abort, Unwind, BeginRollback
  <2>2. \A s \in Stages : stageState'[s] # "Gated"
    BY <2>1 DEF AbortedStage, TerminalStage
  <2> QED  BY <2>1, <2>2 DEF InCourse, Unwound
<1>3. CASE AbortInterrupted
  <2>1. /\ rolloutState' = "Aborting" /\ UNCHANGED <<cursor, pendingGate>>
        /\ rolloutState \notin Unwound
        /\ \A s \in Stages : stageState'[s] \in {stageState[s], AbortedStage(stageState[s])}
    BY <1>3 DEF AbortInterrupted, Abortable, Unwound, TerminalRollout
  <2>2. \A s \in Stages : \/ stageState'[s] = stageState[s]
                          \/ stageState'[s] \in {"Skipped", "Aborted"}
    BY <2>1 DEF AbortedStage
  <2>3. \A s \in Stages : PassedNow(s)' => PassedNow(s)
    BY <2>1, <2>2 DEF PassedNow
  <2> QED  BY <2>1, <2>2, <2>3 DEF InCourse, Unwound
<1>4. ASSUME NEW s \in Stages, ApproveTooLate(s) PROVE InCourse
  <2>1. /\ UNCHANGED <<rolloutState, resumeState, cursor, stageState>>
        /\ pendingGate' = [pendingGate EXCEPT ![s] = "none"]
        /\ stageState[s] # "Gated"
    BY <1>4 DEF ApproveTooLate, Approving, TerminalStage
  <2>2. \A r \in Stages : stageState[r] = "Gated" => pendingGate'[r] = pendingGate[r]
    BY <2>1
  <2> QED  BY <1>s, <2>1, <2>2, StillInCourse DEF SensibleNow
<1>5. ASSUME NEW s \in Stages, ApproveEntry(s) \/ ApproveCompletion(s) PROVE InCourse
  <2>1. /\ stageState[s] = "Gated" /\ resumeState' = resumeState
        /\ pendingGate' = [pendingGate EXCEPT ![s] = "none"]
    BY <1>5 DEF ApproveEntry, ApproveCompletion, Approving
  <2>2. s = cursor /\ rolloutState \notin Unwound \cup {"Completed"}
    BY <2>1, GatedIsHere
  <2>t. stageState \in [Stages -> StageStates] /\ pendingGate \in [Stages -> Gates]
    BY ReadyIs DEF TypeOK
  <2>3. CASE ApproveEntry(s)
    <3>1. /\ stageState' = [stageState EXCEPT ![s] = "Running"] /\ cursor' = cursor
          /\ rolloutState' \in {"Running", rolloutState}
      BY <2>3 DEF ApproveEntry, Moved
    <3>2. ~PassedNow(s)'
      <4>1. ~(s < cursor) /\ cursor' = cursor /\ stageState'[s] = "Running"
        BY <2>2, <2>t, <3>1, Bounds
      <4> QED  BY <4>1 DEF PassedNow
    <3>3. \A r \in Stages : r # s => stageState'[r] = stageState[r] /\ pendingGate'[r] = pendingGate[r]
      BY <2>1, <2>t, <3>1
    <3>4. /\ stageState'[s] = "Running" /\ rolloutState' \notin Unwound \cup {"Completed"}
          /\ rolloutState' = "Paused" => resumeState' \in Pausable
      BY <1>s, <2>1, <2>2, <2>t, <3>1 DEF SensibleNow, Unwound
    <3> QED  BY <2>2, <3>1, <3>2, <3>3, <3>4, CurrentInCourse
  <2>4. CASE ApproveCompletion(s)
    <3>1. /\ stageState' = [stageState EXCEPT ![s] = "Succeeded"] /\ cursor' = cursor + 1
          /\ rolloutState' \in {IF cursor' > NumStages THEN "Completed" ELSE "Advancing", rolloutState}
          /\ PassedNow(s)
      BY <2>1, <2>4 DEF ApproveCompletion, SucceedStage, Moved, PassedNow
    <3>2. rolloutState' = "Completed" => cursor' = NumStages + 1
      BY <2>2, <3>1, Bounds
    <3>3. \A r \in Stages : r # s => stageState'[r] = stageState[r] /\ pendingGate'[r] = pendingGate[r]
      BY <2>1, <2>t, <3>1
    <3>4. /\ stageState'[s] = "Succeeded" /\ rolloutState' \notin Unwound
          /\ rolloutState' = "Paused" => resumeState' \in Pausable
      BY <1>s, <2>1, <2>2, <2>t, <3>1 DEF SensibleNow, Unwound
    <3> QED  BY <2>2, <3>1, <3>2, <3>3, <3>4, CurrentInCourse
  <2> QED  BY <1>5, <2>3, <2>4
<1>6. ~Regenerate
  <2>1. generation \in Nat
    BY ReadyIs DEF TypeOK
  <2> QED  BY <2>1 DEF Regenerate
<1> QED  BY <1>1, <1>2, <1>3, <1>4, <1>5, <1>6 DEF Command, ApproveGate

(* The tick's handlers that run the current stage; `Ticks` is what they     *)
(* all find and leave.                                                      *)
Ticks(s) ==
  /\ s = cursor /\ rolloutState \in {"Running", "Soaking", "Advancing"}
  /\ resumeState' = resumeState
  /\ \A r \in Stages : r # s => stageState'[r] = stageState[r] /\ pendingGate'[r] = pendingGate[r]

LEMMA FailingInCourse ==
  ASSUME Ready, NEW s \in Stages, NEW ts, Ticks(s), cursor' = cursor,
         \E ss : Unwind(ts, ss) /\ ss[s] = "Failed"
  PROVE  InCourse
<1>1. rolloutState' \in {"RollingBack", "Failed"} /\ stageState'[s] = "Failed"
  BY DEF Unwind, BeginRollback
<1> QED  BY <1>1, CurrentInCourse DEF Ticks, Unwound

LEMMA SucceedingInCourse ==
  ASSUME Ready, NEW s \in Stages, Ticks(s), cursor' = cursor + 1,
         stageState'[s] = "Succeeded",
         PassedNow(s) \/ Settled(targetState', s),
         rolloutState' = Moved(IF cursor' > NumStages THEN "Completed" ELSE "Advancing")
  PROVE  InCourse
<1>1. rolloutState' \in {IF cursor' > NumStages THEN "Completed" ELSE "Advancing", rolloutState}
  BY DEF Moved
<1>2. rolloutState' = "Completed" => cursor' = NumStages + 1
  BY <1>1, Bounds DEF Ticks
<1> QED  BY <1>1, <1>2, CurrentInCourse DEF Ticks, Unwound

LEMMA StayingInCourse ==
  ASSUME Ready, NEW s \in Stages, Ticks(s), cursor' = cursor,
         rolloutState' \in {"Running", "Soaking", "Advancing", "Gated"},
         \/ stageState'[s] \in {"Running", "Soaking", "Armed"}
         \/ stageState'[s] = "Gated" /\ pendingGate'[s] = "entry"
         \/ stageState'[s] = "Gated" /\ Settled(targetState', s)
  PROVE  InCourse
<1>1. PassedNow(s)' => Settled(targetState', s)
  <2>1. ~(s < cursor')
    BY Bounds DEF Ticks
  <2> QED  BY <2>1 DEF PassedNow
<1> QED  BY <1>1, CurrentInCourse DEF Ticks, Unwound

LEMMA BeginStageInCourse ==
  ASSUME Ready, NEW s \in Stages, BeginStage(s)
  PROVE  InCourse
<1>t. stageState \in [Stages -> StageStates] /\ pendingGate \in [Stages -> Gates]
  BY ReadyIs DEF TypeOK
<1>1. LegalStage("Armed", "Gated")
  BY DEF LegalStage, StageSuccessors
<1>2. /\ cursor' = cursor /\ Ticks(s)
      /\ rolloutState' \in {"Running", "Soaking", "Advancing", "Gated"}
      /\ stageState'[s] = "Running" \/ (stageState'[s] = "Gated" /\ pendingGate'[s] = "entry")
  BY <1>t, <1>1 DEF BeginStage, Ticks, OpenGate, Moved, Advancing, Ticking
<1> QED  BY <1>2, StayingInCourse

LEMMA CompleteStageInCourse ==
  ASSUME Ready, NEW s \in Stages, NEW held, CompleteStage(s, held)
  PROVE  InCourse
<1>t. stageState \in [Stages -> StageStates] /\ pendingGate \in [Stages -> Gates]
  BY ReadyIs DEF TypeOK
<1>0. /\ s = cursor /\ rolloutState \in {"Running", "Soaking", "Advancing"}
      /\ resumeState' = resumeState /\ stageState[s] \in {"Running", "Soaking"}
      /\ AllTerminal(Swept(s), s) /\ ~OverBudget(Swept(s), s)
  BY DEF CompleteStage, Proceeding, Advancing, Ticking
<1>1. CASE FailStage(s, Swept(s)) /\ UNCHANGED <<cursor, pendingGate>>
  <2> DEFINE ss == [stageState EXCEPT ![s] = "Failed"]
  <2>1. /\ Unwind(Swept(s), ss) /\ ss[s] = "Failed"
        /\ \A r \in Stages : r # s => ss[r] = stageState[r]
    BY <1>1, <1>t DEF FailStage
  <2>2. stageState' = ss
    BY <2>1 DEF Unwind
  <2> HIDE DEF ss
  <2>3. Ticks(s)
    BY <1>0, <1>1, <2>1, <2>2 DEF Ticks
  <2> QED  BY <1>1, <2>1, <2>3, FailingInCourse
<1>2. ASSUME NEW kind \in {"evidence", "advance"}, OpenGate(s, kind, stageState[s]),
             targetState' = Swept(s), cursor' = cursor
      PROVE  InCourse
  <2>1. Settled(targetState', s)
    BY <1>0, <1>2 DEF Settled
  <2>2. /\ Ticks(s) /\ rolloutState' \in {"Running", "Soaking", "Advancing", "Gated"}
        /\ stageState'[s] \in {"Running", "Soaking", "Gated"}
    BY <1>t, <1>0, <1>2 DEF OpenGate, Ticks, Moved
  <2> QED  BY <1>2, <2>1, <2>2, StayingInCourse
<1>3. CASE SucceedStage(s) /\ targetState' = Swept(s) /\ pendingGate' = pendingGate
  <2>1. Settled(targetState', s)
    BY <1>0, <1>3 DEF Settled
  <2>2. Ticks(s) /\ cursor' = cursor + 1 /\ stageState'[s] = "Succeeded"
    BY <1>t, <1>0, <1>3 DEF SucceedStage, Ticks
  <2> QED  BY <1>3, <2>1, <2>2, SucceedingInCourse DEF SucceedStage
<1>4. CASE UNCHANGED <<rolloutState, cursor, stageState, pendingGate>>
  <2>1. Ticks(s) /\ stageState'[s] \in {"Running", "Soaking"}
    BY <1>0, <1>4 DEF Ticks
  <2> QED  BY <1>0, <1>4, <2>1, StayingInCourse
<1> QED  BY <1>1, <1>2, <1>3, <1>4 DEF CompleteStage

LEMMA RunStageInCourse ==
  ASSUME Ready, NEW s \in Stages, NEW held,
         FailRunningStage(s) \/ DispatchBatch(s, held) \/ HoldStage(s, held) \/ StartSoak(s, held)
  PROVE  InCourse
<1>t. stageState \in [Stages -> StageStates] /\ pendingGate \in [Stages -> Gates]
  BY ReadyIs DEF TypeOK
<1>0. /\ s = cursor /\ rolloutState \in {"Running", "Soaking", "Advancing"}
      /\ resumeState' = resumeState /\ stageState[s] \in {"Running", "Soaking"}
      /\ UNCHANGED <<cursor, pendingGate>>
  BY DEF FailRunningStage, DispatchBatch, HoldStage, StartSoak, Proceeding, Advancing, Ticking
<1>1. CASE FailRunningStage(s)
  <2> DEFINE ss == [stageState EXCEPT ![s] = "Failed"]
  <2>1. /\ Unwind(Swept(s), ss) /\ ss[s] = "Failed"
        /\ \A r \in Stages : r # s => ss[r] = stageState[r]
    BY <1>1, <1>t DEF FailRunningStage, FailStage
  <2>2. stageState' = ss
    BY <2>1 DEF Unwind
  <2> HIDE DEF ss
  <2>3. Ticks(s)
    BY <1>0, <1>1, <2>1, <2>2 DEF Ticks
  <2> QED  BY <1>0, <2>1, <2>3, FailingInCourse
<1>2. CASE DispatchBatch(s, held) \/ HoldStage(s, held)
  <2>1. Ticks(s) /\ rolloutState' = rolloutState /\ stageState' = stageState
    BY <1>0, <1>2 DEF Ticks, DispatchBatch, HoldStage
  <2> QED  BY <1>0, <2>1, StayingInCourse
<1>3. CASE StartSoak(s, held)
  <2>1. /\ Ticks(s) /\ rolloutState' \in {"Soaking", rolloutState}
        /\ stageState'[s] = "Soaking"
    BY <1>0, <1>3, <1>t DEF Ticks, StartSoak, Moved
  <2> QED  BY <1>0, <2>1, StayingInCourse
<1> QED  BY <1>1, <1>2, <1>3

LEMMA AdvanceInCourse ==
  ASSUME Ready, Advance
  PROVE  InCourse
<1>s. SensibleNow
  BY SensibleIs DEF Ready
<1>1. CASE AdvanceIdle \/ AdvanceRollback
  <2>1. UNCHANGED <<rolloutState, resumeState, cursor, stageState, pendingGate>>
    BY <1>1 DEF AdvanceIdle, AdvanceRollback, Ticking, stageVars
  <2> QED  BY <1>s, <2>1, StillInCourse DEF SensibleNow
<1>2. CASE FinishRollback
  <2>1. /\ rolloutState' \in {"RollingBack", "Failed"} /\ rolloutState = "RollingBack"
        /\ \A s \in Stages : stageState'[s] \in {stageState[s], "RolledBack"}
    BY <1>2 DEF FinishRollback
  <2> QED  BY <1>s, <2>1 DEF InCourse, SensibleNow, Unwound
<1> QED  BY <1>1, <1>2, BeginStageInCourse, CompleteStageInCourse, RunStageInCourse
         DEF Advance, RunStage

LEMMA ResumesInCourse ==
  ASSUME Ready, Resumes
  PROVE  InCourse
<1>s. SensibleNow
  BY SensibleIs DEF Ready
<1>t. stageState \in [Stages -> StageStates] /\ pendingGate \in [Stages -> Gates]
  BY ReadyIs DEF TypeOK
<1>0. /\ cursor \in Stages /\ rolloutState \in {"Running", "Soaking", "Advancing"}
      /\ resumeState' = resumeState
  <2>1. cursor \in Nat \ {0} /\ (cursor <= NumStages => cursor \in Stages)
    BY ReadyIs, Bounds DEF TypeOK
  <2> QED  BY <2>1 DEF Resumes, ResumeArmed, ResumeAdvancing, ResumeSucceeded, ResumeFailed,
                   ResumeGated, Advancing, Ticking, rolloutVars
<1>1. CASE ResumeArmed
  <2>1. Ticks(cursor) /\ rolloutState' = rolloutState /\ cursor' = cursor
        /\ stageState'[cursor] = "Running"
    BY <1>t, <1>0, <1>1 DEF Ticks, ResumeArmed
  <2> QED  BY <1>0, <2>1, StayingInCourse
<1>2. CASE ResumeAdvancing \/ ResumeSucceeded
  <2>1. /\ Ticks(cursor) /\ PassedNow(cursor) /\ cursor' = cursor + 1
        /\ stageState'[cursor] = "Succeeded"
        /\ rolloutState' = Moved(IF cursor' > NumStages THEN "Completed" ELSE "Advancing")
    BY <1>t, <1>0, <1>2 DEF Ticks, PassedNow, ResumeAdvancing, ResumeSucceeded, SucceedStage,
                            Advancing, stageVars
  <2> QED  BY <1>0, <2>1, SucceedingInCourse
<1>3. CASE ResumeFailed
  <2>1. /\ Unwind(targetState, stageState) /\ stageState[cursor] = "Failed"
        /\ UNCHANGED <<cursor, pendingGate>>
    BY <1>3 DEF ResumeFailed, Advancing
  <2>2. Ticks(cursor)
    BY <1>0, <2>1 DEF Ticks, Unwind
  <2> QED  BY <1>0, <2>1, <2>2, FailingInCourse
<1>4. CASE ResumeGated
  <2>1. UNCHANGED <<rolloutState, resumeState, cursor, stageState, pendingGate>>
    BY <1>4 DEF ResumeGated, rolloutVars, stageVars
  <2> QED  BY <1>s, <2>1, StillInCourse DEF SensibleNow
<1> QED  BY <1>1, <1>2, <1>3, <1>4 DEF Resumes

LEMMA ConcludesInCourse ==
  ASSUME Ready, Concludes
  PROVE  InCourse
<1>s. SensibleNow
  BY SensibleIs DEF Ready
<1>1. Concluded
  BY ReadyIs, ConcludesIs
<1>2. \A s \in Stages : PassedNow(s)' => PassedNow(s)
  BY <1>1 DEF Concluded, PassedNow, TerminalStage
<1>3. CASE rolloutState' = "Completed"
  <2>1. rolloutState \notin Unwound /\ cursor' = NumStages + 1 /\ stageState' = stageState
    BY <1>1, <1>3 DEF Concluded, Unwound
  <2> QED  BY <1>2, <1>3, <2>1 DEF InCourse, Unwound
<1>4. CASE rolloutState' = "Failed"
  <2>1. \E s \in Stages : stageState[s] = "RolledBack"
    BY <1>1, <1>4 DEF Concluded
  <2>2. \A s \in Stages : stageState'[s] # "Gated"
    BY <1>s, <1>1, <2>1 DEF SensibleNow, SteadyNow, Concluded
  <2> QED  BY <1>4, <2>2 DEF InCourse, Unwound
<1> QED  BY <1>1, <1>3, <1>4 DEF Concluded

LEMMA HandledInCourse ==
  ASSUME Ready, Handled
  PROVE  InCourse
<1>s. SensibleNow
  BY SensibleIs DEF Ready
<1>1. CASE DrainEvidence \/ Environment \/ Reconcile
  <2>1. UNCHANGED <<rolloutState, resumeState, cursor, stageState, pendingGate>>
    BY <1>1 DEF DrainEvidence, ApplyStopped, ApplyCompensation, ApplyExecution, Apply,
                Environment, WorkerReports, DeadlinePasses, SoakElapses, Reconcile,
                rolloutVars, stageVars
  <2> QED  BY <1>s, <2>1, StillInCourse DEF SensibleNow
<1> QED  BY <1>1, CommandInCourse, AdvanceInCourse, ResumesInCourse, ConcludesInCourse
     DEF Handled

(* Every step of the rollout's handlers leaves a state a snapshot can hold. *)
LEMMA StepKeepsReady ==
  ASSUME Ready, Handled \/ Regenerate
  PROVE  Ready'
<1>1. CursorInv'
  BY StepKeepsCursorInv DEF Ready
<1>2. CASE Handled
  <2>1. Sensible(Snapshot)'
    BY <1>2, HandledShifts, HandledInCourse, CourseKeepsSense DEF Effect
  <2> QED  BY <1>1, <1>2, <2>1, HandledTallies DEF Ready, CursorInv
<1>3. CASE Regenerate
  <2>1. SensibleNow'
    <3>1. /\ rolloutState' = "Validated" /\ cursor' = 1
          /\ \A s \in Stages : stageState'[s] = "Pending"
          /\ \A c \in Cells : targetState'[c] = "Pending"
      BY <1>3 DEF Regenerate
    <3>2. \A s \in Stages : ~(s < 1)
      BY Bounds
    <3> QED  BY <3>1, <3>2 DEF SensibleNow, SteadyNow, PassedNow, Undone, Unwound
  <2> QED  BY <1>1, <1>3, <2>1, SensibleIs, RegenerateTallies DEF Ready
<1> QED  BY <1>2, <1>3

-----------------------------------------------------------------------------
(* What a handler writes.                                                   *)

LEMMA NamedIsOpenOrOver ==
  ASSUME Ready
  PROVE  /\ Named \subseteq Cells
         /\ \A c \in Named : CountsAsChanging(targetState[c]) /\ attemptsMade[c] > 0
         /\ \A c \in Cells : targetState[c] \in {"Dispatched", "Unknown"} => c \in Named
<1>1. ASSUME NEW c \in Named PROVE attemptsMade[c] > 0
  <2>1. Current(c) \in Attempts
    BY ReadyIs DEF Named, TypeOK
  <2>2. Current(c).epoch \in Nat \ {0} /\ Current(c).epoch = attemptsMade[c]
    BY <2>1 DEF Attempts, Current
  <2> QED  BY <2>2
<1> QED  BY <1>1, ReadyIs DEF Named, CountsAsChanging

LEMMA SnapshotType ==
  ASSUME TypeOK
  PROVE  Snapshot \in Records
BY DEF TypeOK, Records, Snapshot, Named

(* A finished handler writes a sound snapshot.                              *)
LEMMA ReadyIsSound == Ready => Sound(Snapshot)
<1> SUFFICES ASSUME Ready PROVE Sound(Snapshot)
  OBVIOUS
<1>1. Snapshot \in Records
  BY ReadyIs, SnapshotType
<1>2. Ordered(Snapshot)
  BY SnapshotIs DEF Ready, CursorInv, StagesAroundCursor, WorkUpToCursor, Ordered
<1>3. Names(Snapshot)
  BY NamedIsOpenOrOver, SnapshotIs DEF Names
<1> QED  BY <1>1, <1>2, <1>3 DEF Ready, Sound

LEMMA NextSnapshotIsSound == Ready' => Sound(Snapshot')
<1>1. (Ready => Sound(Snapshot))'
  BY ReadyIsSound, PTL
<1> QED  BY <1>1 DEF Sound, Ordered, Sensible, Steady, Passed, Names

(* The targets a handler that moves a stage and then the rollout has        *)
(* written before it marks what it compensates.                             *)
Before(c) == IF targetState'[c] = "RollingBack" THEN targetState[c] ELSE targetState'[c]

(* Everything the snapshots written on the way have in common.              *)
OnTheWay(m) ==
  /\ m.resumeState = resumeState' /\ m.generation = generation'
  /\ m.attemptsMade = attemptsMade' /\ m.named = Named'
  /\ m.targetState = [c \in Cells |-> Before(c)]

LEMMA UnmarkedIs ==
  ASSUME TypeOK, TypeOK'
  PROVE  /\ Unmarked \in Records /\ OnTheWay(Unmarked)
         /\ Unmarked.rolloutState = rolloutState' /\ Unmarked.cursor = cursor'
         /\ Unmarked.stageState = stageState' /\ Unmarked.pendingGate = pendingGate'
         /\ StageOnly \in Records /\ OnTheWay(StageOnly)
         /\ StageOnly.rolloutState = rolloutState /\ StageOnly.cursor = cursor
         /\ StageOnly.stageState = stageState' /\ StageOnly.pendingGate = pendingGate'
<1>1. /\ Snapshot'.resumeState = resumeState' /\ Snapshot'.generation = generation'
      /\ Snapshot'.attemptsMade = attemptsMade' /\ Snapshot'.named = Named'
      /\ Snapshot'.rolloutState = rolloutState' /\ Snapshot'.cursor = cursor'
      /\ Snapshot'.stageState = stageState' /\ Snapshot'.pendingGate = pendingGate'
  BY DEF Snapshot
<1>2. Snapshot' \in Records
  BY DEF TypeOK, Records, Snapshot, Named
<1> DEFINE ts == [c \in Cells |-> Before(c)]
<1>3. ts \in [Cells -> TargetStates] /\ rollbackStep \in [Cells -> Nat]
  BY DEF Before, TypeOK
<1>4. Unmarked = [Snapshot' EXCEPT !.rollbackStep = rollbackStep, !.targetState = ts]
  BY DEF Unmarked, Before
<1> HIDE DEF ts
<1>5. /\ Unmarked \in Records /\ Unmarked.targetState = ts
      /\ Unmarked.resumeState = resumeState' /\ Unmarked.generation = generation'
      /\ Unmarked.attemptsMade = attemptsMade' /\ Unmarked.named = Named'
      /\ Unmarked.rolloutState = rolloutState' /\ Unmarked.cursor = cursor'
      /\ Unmarked.stageState = stageState' /\ Unmarked.pendingGate = pendingGate'
  BY <1>1, <1>2, <1>3, <1>4 DEF Records
<1>6. rolloutState \in RolloutStates /\ cursor \in 1..(NumStages + 1)
  BY DEF TypeOK
<1>7. /\ StageOnly \in Records /\ StageOnly.targetState = ts
      /\ StageOnly.resumeState = resumeState' /\ StageOnly.generation = generation'
      /\ StageOnly.attemptsMade = attemptsMade' /\ StageOnly.named = Named'
      /\ StageOnly.rolloutState = rolloutState /\ StageOnly.cursor = cursor
      /\ StageOnly.stageState = stageState' /\ StageOnly.pendingGate = pendingGate'
  BY <1>5, <1>6 DEF Records, StageOnly
<1> QED  BY <1>5, <1>7 DEF OnTheWay, ts

(* What a step that dispatches nothing finds and leaves, outside of         *)
(* compensation.                                                            *)
Quiet ==
  /\ Handled /\ rolloutState \notin Unwound
  /\ UNCHANGED attemptsMade /\ open' \subseteq open

LEMMA BeforeIs ==
  ASSUME Ready, Quiet, NEW c \in Cells
  PROVE  /\ Before(c) \notin Undone \cup {"Failed"}
         /\ targetState[c] \in TerminalTarget => Before(c) = targetState[c]
         /\ Before(c) = targetState'[c] \/ (Before(c) = "Succeeded" /\ c \notin Named')
         /\ rolloutState' \notin Unwound => Before(c) = targetState'[c]
<1>1. Shifts(c) /\ SensibleNow /\ rolloutState \notin Unwound
  BY HandledShifts, SensibleIs DEF Effect, Quiet, Ready
<1>2. targetState[c] \notin Undone \cup {"Failed"}
  BY <1>1 DEF SensibleNow, SteadyNow
<1>3. attemptsMade'[c] = attemptsMade[c] /\ attemptsMade[c] # attemptsMade[c] + 1
  BY ReadyIs, CellTypes DEF Quiet
<1>4. ~IsSent(c)
  BY <1>3 DEF IsSent
<1>5. CASE targetState'[c] = "RollingBack"
  <2>1. IsUndone(c)
    BY <1>1, <1>2, <1>4, <1>5 DEF Shifts, Same, HasEnded, IsLost, Undone
  <2>2. Current(c)' = Current(c)
    BY <1>3, HandledShifts DEF Current, Effect, Quiet
  <2>3. c \notin Named'
    BY <2>1, <2>2 DEF IsUndone, Named
  <2> QED  BY <1>5, <2>1, <2>3 DEF IsUndone, Before, Undone, Unwound
<1>6. CASE targetState'[c] # "RollingBack"
  <2>1. Same(c) \/ HasEnded(c) \/ IsLost(c)
    BY <1>1, <1>4, <1>6 DEF Shifts, IsUndone
  <2> QED  BY <1>2, <1>6, <2>1 DEF Same, HasEnded, IsLost, Before, Undone, TerminalTarget
<1> QED  BY <1>5, <1>6

LEMMA OnTheWayNames ==
  ASSUME Ready, Ready', Quiet, NEW m, OnTheWay(m)
  PROVE  Names(m)
<1>1. (Ready =>
         /\ \A c \in Named : CountsAsChanging(targetState[c]) /\ attemptsMade[c] > 0
         /\ \A c \in Cells : targetState[c] \in {"Dispatched", "Unknown"} => c \in Named
         /\ Named \subseteq Cells)'
  BY NamedIsOpenOrOver, PTL
<1>2. ASSUME NEW c \in m.named PROVE CountsAsChanging(m.targetState[c]) /\ m.attemptsMade[c] > 0
  <2>1. c \in Named' /\ c \in Cells
    BY <1>1, <1>2 DEF OnTheWay
  <2>2. m.targetState[c] = targetState'[c] /\ m.attemptsMade[c] = attemptsMade'[c]
    BY <2>1, BeforeIs DEF OnTheWay
  <2> QED  BY <1>1, <2>1, <2>2
<1>3. ASSUME NEW c \in Cells, m.targetState[c] \in {"Dispatched", "Unknown"} PROVE c \in m.named
  <2>1. Before(c) \in {"Dispatched", "Unknown"} /\ m.named = Named'
    BY <1>3 DEF OnTheWay
  <2> QED  BY <1>1, <2>1, BeforeIs
<1> QED  BY <1>2, <1>3 DEF Names

LEMMA BeforeIsSettled ==
  ASSUME Ready, Quiet, NEW s \in Stages, Settled(targetState, s)
  PROVE  Settled([c \in Cells |-> Before(c)], s)
<1>1. ASSUME NEW c \in Cells, c[1] = s PROVE Before(c) = targetState[c]
  BY <1>1, BeforeIs DEF Settled, AllTerminal, StageCells
<1> DEFINE ts == [c \in Cells |-> Before(c)]
<1>2. \A c \in Cells : c[1] = s => ts[c] = targetState[c]
  BY <1>1
<1> HIDE DEF ts
<1>3. Settled(ts, s)
  BY <1>2, SettledOfCells
<1> QED  BY <1>3 DEF ts

LEMMA UnmarkedIsSound ==
  ASSUME Ready, Ready', Quiet
  PROVE  Sound(Unmarked)
<1>1. TypeOK /\ TypeOK'
  BY ReadyIs DEF Ready, CursorInv
<1> USE UnmarkedIs
<1>2. Ordered(Unmarked)
  BY <1>1 DEF Ready, CursorInv, StagesAroundCursor, WorkUpToCursor, Ordered, OnTheWay
<1>3. Names(Unmarked)
  BY <1>1, OnTheWayNames
<1>s. SensibleNow'
  BY SensibleIs DEF Ready
<1>4. \A c \in Cells : Unmarked.targetState[c] \notin Undone \cup {"Failed"}
  BY <1>1, BeforeIs DEF OnTheWay
<1>5. ASSUME rolloutState' \notin Unwound PROVE Steady(Unmarked)
  <2>1. Unmarked.targetState = targetState'
    BY <1>1, <1>5, BeforeIs DEF OnTheWay, TypeOK
  <2>2. \A s \in Stages : Passed(Unmarked, s) => PassedNow(s)'
    BY <1>1 DEF Passed, PassedNow
  <2> QED  BY <1>1, <1>s, <1>4, <1>5, <2>1, <2>2 DEF Steady, SensibleNow, SteadyNow
<1>6. Sensible(Unmarked)
  BY <1>1, <1>s, <1>4, <1>5 DEF Sensible, SensibleNow, OnTheWay
<1> QED  BY <1>1, <1>2, <1>3, <1>6 DEF Sound

(* A snapshot with the stage moved and the rollout not: what it says of the *)
(* current stage must be true of the targets it holds.                      *)
LEMMA HalvedIsSound ==
  ASSUME Ready, Ready', Quiet, NEW q \in Stages, q = cursor, rolloutState # "Completed",
         resumeState' = resumeState,
         NEW m \in Records, OnTheWay(m), m.rolloutState = rolloutState, m.cursor = cursor,
         \A r \in Stages : r # cursor => m.stageState[r] = stageState[r],
         m.stageState[cursor] # "RolledBack",
         Passed(m, q) => \/ PassedNow(q)
                         \/ rolloutState' \notin Unwound /\ PassedNow(q)'
  PROVE  Sound(m)
<1>s. SensibleNow /\ SensibleNow'
  BY SensibleIs DEF Ready
<1>t. TypeOK /\ TypeOK' /\ \A r \in Stages : r \in Int
  BY Bounds DEF Ready, CursorInv
<1>1. Ordered(m)
  BY <1>t, Bounds DEF Ready, CursorInv, StagesAroundCursor, WorkUpToCursor, Ordered, OnTheWay, Quiet
<1>2. Names(m)
  BY OnTheWayNames
<1>3. \A c \in Cells : m.targetState[c] \notin Undone \cup {"Failed"}
  BY BeforeIs DEF OnTheWay
<1>4. ASSUME NEW s \in Stages, PassedNow(s) PROVE Settled(m.targetState, s)
  <2>1. Settled(targetState, s)
    BY <1>s, <1>4 DEF SensibleNow, SteadyNow, Quiet
  <2> QED  BY <2>1, BeforeIsSettled DEF OnTheWay
<1>5. ASSUME rolloutState' \notin Unwound, PassedNow(q)' PROVE Settled(m.targetState, q)
  <2>1. m.targetState = targetState'
    BY <1>5, <1>t, BeforeIs DEF OnTheWay, TypeOK
  <2> QED  BY <1>5, <1>s, <2>1 DEF SensibleNow, SteadyNow
<1>6. ASSUME NEW s \in Stages, s # q, Passed(m, s) PROVE PassedNow(s)
  <2>1. stageState[s] # "Gated"
    BY <1>6, GatedIsHere
  <2> QED  BY <1>6, <2>1 DEF Passed, PassedNow
<1>7. \A s \in Stages : m.stageState[s] # "RolledBack"
  BY <1>s DEF SensibleNow, SteadyNow, Quiet
<1>8. Steady(m)
  BY <1>3, <1>4, <1>5, <1>6, <1>7 DEF Steady
<1>9. Sensible(m)
  BY <1>3, <1>8, <1>s DEF Sensible, SensibleNow, Quiet, OnTheWay
<1> QED  BY <1>1, <1>2, <1>9 DEF Sound

(* The handlers that write twice.                                           *)
MovesStage ==
  /\ Quiet /\ cursor \in Stages /\ rolloutState # "Completed" /\ resumeState' = resumeState
  /\ \A r \in Stages : r # cursor => stageState'[r] = stageState[r]
  /\ stageState'[cursor] # "RolledBack"
  /\ rolloutState' \in Unwound => stageState'[cursor] = "Failed"

LEMMA TwoWritesAreSound ==
  ASSUME Ready, Ready', MovesStage, NEW m \in {StageOnly, Unmarked} \cup Halfway
  PROVE  Sound(m) /\ OnTheWay(m) /\ m.cursor \in {cursor, cursor'}
<1>t. TypeOK /\ TypeOK' /\ ~(cursor < cursor)
  BY Bounds DEF Ready, CursorInv, MovesStage
<1> USE UnmarkedIs
<1>c. PICK q \in Stages : q = cursor
  BY DEF MovesStage
<1>p. stageState'[q] \in {"Advancing", "Succeeded"} =>
        rolloutState' \notin Unwound /\ PassedNow(q)'
  BY <1>c DEF MovesStage, PassedNow
<1>g. stageState'[q] = "Gated" => rolloutState' \notin Unwound
  BY <1>c DEF MovesStage
<1>1. CASE m = Unmarked
  BY <1>1, <1>t, UnmarkedIsSound DEF MovesStage
<1>2. CASE m = StageOnly
  <2>1. Passed(m, q) => rolloutState' \notin Unwound /\ PassedNow(q)'
    BY <1>2, <1>c, <1>t, <1>p, <1>g DEF Passed, PassedNow
  <2>2. \A r \in Stages : r # cursor => m.stageState[r] = stageState[r]
    BY <1>2, <1>t DEF MovesStage
  <2> QED  BY <1>2, <1>c, <1>t, <2>1, <2>2, HalvedIsSound DEF MovesStage
<1>3. ASSUME NEW s \in Stages, stageState[s] = "Pending", stageState'[s] # "Pending",
             m = [StageOnly EXCEPT !.stageState[s] = "Armed", !.pendingGate = pendingGate]
      PROVE  Sound(m) /\ OnTheWay(m) /\ m.cursor \in {cursor, cursor'}
  <2>1. s = cursor
    BY <1>3 DEF MovesStage
  <2> DEFINE ss == [stageState' EXCEPT ![s] = "Armed"]
  <2>2. /\ ss \in [Stages -> StageStates] /\ ss[cursor] = "Armed"
        /\ \A r \in Stages : r # cursor => ss[r] = stageState[r]
    BY <1>t, <2>1, StageStatesAre DEF TypeOK, MovesStage
  <2>3. m = [StageOnly EXCEPT !.stageState = ss, !.pendingGate = pendingGate]
    BY <1>3, <1>t
  <2> HIDE DEF ss
  <2>4. pendingGate \in [Stages -> Gates]
    BY <1>t DEF TypeOK
  <2>5. /\ m \in Records /\ OnTheWay(m) /\ m.rolloutState = rolloutState /\ m.cursor = cursor
        /\ m.stageState = ss
    BY <1>t, <2>2, <2>3, <2>4 DEF Records, OnTheWay
  <2>6. ~Passed(m, q)
    BY <1>c, <1>t, <2>2, <2>5 DEF Passed
  <2> QED  BY <1>c, <2>2, <2>5, <2>6, HalvedIsSound DEF MovesStage
<1>4. ASSUME NEW s \in Stages, stageState'[s] = "Succeeded", stageState[s] # "Succeeded",
             m = [StageOnly EXCEPT !.stageState[s] = "Advancing"]
      PROVE  Sound(m) /\ OnTheWay(m) /\ m.cursor \in {cursor, cursor'}
  <2>1. s = cursor
    BY <1>4 DEF MovesStage
  <2> DEFINE ss == [stageState' EXCEPT ![s] = "Advancing"]
  <2>2. /\ ss \in [Stages -> StageStates] /\ ss[cursor] = "Advancing"
        /\ \A r \in Stages : r # cursor => ss[r] = stageState[r]
    BY <1>t, <2>1, StageStatesAre DEF TypeOK, MovesStage
  <2>3. m = [StageOnly EXCEPT !.stageState = ss]
    BY <1>4, <1>t
  <2> HIDE DEF ss
  <2>5. /\ m \in Records /\ OnTheWay(m) /\ m.rolloutState = rolloutState /\ m.cursor = cursor
        /\ m.stageState = ss
    BY <1>t, <2>2, <2>3 DEF Records, OnTheWay
  <2> QED  BY <1>4, <1>c, <1>p, <2>1, <2>2, <2>5, HalvedIsSound DEF MovesStage
<1> QED  BY <1>1, <1>2, <1>3, <1>4 DEF Halfway

LEMMA ApprovalMovesStage ==
  ASSUME Ready, NEW s \in Stages, ApproveEntry(s) \/ ApproveCompletion(s)
  PROVE  MovesStage
<1>1. /\ stageState[s] = "Gated"
      /\ UNCHANGED <<resumeState, generation, attemptsMade, open>>
      /\ \E to \in {"Running", "Succeeded"} : stageState' = [stageState EXCEPT ![s] = to]
      /\ rolloutState' \in {rolloutState, "Running", "Completed", "Advancing"}
  BY DEF ApproveEntry, ApproveCompletion, Approving, SucceedStage, Moved, targetVars, attemptVars
<1>2. s = cursor /\ rolloutState \notin Unwound \cup {"Completed"}
  BY <1>1, GatedIsHere
<1>3. Command
  BY DEF Command, ApproveGate
<1>4. stageState \in [Stages -> StageStates]
  BY ReadyIs DEF TypeOK
<1>5. /\ stageState'[cursor] \in {"Running", "Succeeded"}
      /\ \A r \in Stages : r # cursor => stageState'[r] = stageState[r]
      /\ rolloutState' \notin Unwound
  BY <1>1, <1>2, <1>4 DEF Unwound
<1> QED  BY <1>1, <1>2, <1>3, <1>5 DEF MovesStage, Quiet, Handled

LEMMA ResumesMoveStage ==
  ASSUME Ready, ResumeAdvancing \/ ResumeFailed
  PROVE  MovesStage
<1>0. /\ cursor \in Stages /\ rolloutState \in {"Running", "Soaking", "Advancing"}
      /\ UNCHANGED <<resumeState, attemptsMade, open>>
  <2>1. cursor \in Nat \ {0} /\ (cursor <= NumStages => cursor \in Stages)
    BY ReadyIs, Bounds DEF TypeOK
  <2> QED  BY <2>1 DEF ResumeAdvancing, ResumeFailed, Advancing, Ticking, targetVars, attemptVars
<1>1. /\ \A r \in Stages : r # cursor => stageState'[r] = stageState[r]
      /\ \/ stageState'[cursor] = "Failed"
         \/ stageState'[cursor] = "Succeeded" /\ rolloutState' \notin Unwound
  <2>1. stageState \in [Stages -> StageStates]
    BY ReadyIs DEF TypeOK
  <2> QED  BY <1>0, <2>1 DEF ResumeAdvancing, ResumeFailed, SucceedStage, Unwind, Advancing,
                         Moved, Unwound
<1> QED  BY <1>0, <1>1 DEF MovesStage, Quiet, Handled, Resumes, Unwound

LEMMA TickMovesStage ==
  ASSUME Ready, NEW s \in Stages, NEW held \in HealthHolds(s),
         BeginStage(s) \/ FailRunningStage(s) \/ StartSoak(s, held) \/ CompleteStage(s, held)
  PROVE  MovesStage
<1>0. /\ s = cursor /\ rolloutState \in {"Running", "Soaking", "Advancing"}
      /\ UNCHANGED <<resumeState, attemptsMade>> /\ open' \subseteq open
      /\ stageState[s] \in {"Pending", "Running", "Soaking"}
  BY DEF BeginStage, FailRunningStage, StartSoak, CompleteStage, Proceeding, Advancing, Ticking,
         Finish, targetVars
<1>1. Handled
  BY DEF Handled, Advance, RunStage
<1>2. /\ \A r \in Stages : r # s => stageState'[r] = stageState[r]
      /\ \/ stageState'[s] = "Failed"
         \/ /\ stageState'[s] \in {"Pending", "Running", "Soaking", "Gated", "Succeeded"}
            /\ rolloutState' \notin Unwound
  <2>1. stageState \in [Stages -> StageStates]
    BY ReadyIs DEF TypeOK
  <2>2. ASSUME NEW ts, FailStage(s, ts)
        PROVE  stageState'[s] = "Failed" /\ \A r \in Stages : r # s => stageState'[r] = stageState[r]
    BY <2>1, <2>2 DEF FailStage, Unwind
  <2>3. ASSUME NEW kind, NEW from, OpenGate(s, kind, from)
        PROVE  /\ \A r \in Stages : r # s => stageState'[r] = stageState[r]
               /\ stageState'[s] \in {stageState[s], "Gated"} /\ rolloutState' \notin Unwound
    BY <1>0, <2>1, <2>3 DEF OpenGate, Moved, Unwound
  <2>4. ASSUME SucceedStage(s)
        PROVE  /\ \A r \in Stages : r # s => stageState'[r] = stageState[r]
               /\ stageState'[s] = "Succeeded" /\ rolloutState' \notin Unwound
    BY <1>0, <2>1, <2>4 DEF SucceedStage, Moved, Unwound
  <2>5. CASE BeginStage(s)
    BY <1>0, <2>1, <2>3, <2>5 DEF BeginStage, Unwound
  <2>6. CASE FailRunningStage(s)
    BY <2>2, <2>6 DEF FailRunningStage
  <2>7. CASE StartSoak(s, held)
    BY <1>0, <2>1, <2>7 DEF StartSoak, Moved, Unwound
  <2>8. CASE CompleteStage(s, held)
    <3>1. \/ FailStage(s, Swept(s)) \/ SucceedStage(s)
          \/ OpenGate(s, "evidence", stageState[s]) \/ OpenGate(s, "advance", stageState[s])
          \/ UNCHANGED <<rolloutState, stageState>>
      BY <2>8 DEF CompleteStage
    <3> QED  BY <1>0, <2>2, <2>3, <2>4, <3>1 DEF Unwound
  <2> QED  BY <2>5, <2>6, <2>7, <2>8
<1> QED  BY <1>0, <1>1, <1>2 DEF MovesStage, Quiet, Unwound

(* An abort dies with some of its stages written, before or after the       *)
(* rollout's last state.                                                    *)
LEMMA AbortWritesAreSound ==
  ASSUME Ready, Ready', Abort, NEW s \in 1..(NumStages + 1)
  PROVE  LET m == [Snapshot EXCEPT !.rolloutState = "Aborting",
                     !.stageState = [r \in Stages |->
                        IF r < s THEN AbortedStage(stageState[r]) ELSE stageState[r]]]
         IN  Sound(m) /\ UNCHANGED attemptsMade /\ m.generation = generation
             /\ m.cursor = cursor /\ m.attemptsMade = attemptsMade /\ m.targetState = targetState
<1> DEFINE ss == [r \in Stages |->
                    IF r < s THEN AbortedStage(stageState[r]) ELSE stageState[r]]
           m == [Snapshot EXCEPT !.rolloutState = "Aborting", !.stageState = ss]
<1>t. TypeOK /\ rolloutState \notin Unwound /\ attemptsMade' = attemptsMade
  BY ReadyIs DEF Abort, Abortable, Unwound, TerminalRollout
<1>1. Snapshot \in Records /\ Sound(Snapshot)
  BY <1>t, SnapshotType, ReadyIsSound
<1>2. /\ \A r \in Stages : ss[r] \in {stageState[r], AbortedStage(stageState[r])}
      /\ ss \in [Stages -> StageStates]
  BY <1>t, StageStatesAre DEF AbortedStage, TypeOK
<1> HIDE DEF ss
<1>3. /\ m \in Records /\ m.rolloutState = "Aborting" /\ m.stageState = ss
      /\ m.cursor = cursor /\ m.attemptsMade = attemptsMade /\ m.named = Named
      /\ m.targetState = targetState /\ m.pendingGate = pendingGate /\ m.generation = generation
  BY <1>1, <1>2, SnapshotIs, RolloutStatesAre DEF Records
<1> HIDE DEF m
<1>s. SensibleNow
  BY SensibleIs DEF Ready
<1>4. \A r \in Stages : \/ ss[r] = stageState[r]
                        \/ ss[r] = "Skipped" /\ stageState[r] \in {"Pending", "Blocked"}
                        \/ ss[r] = "Aborted" /\ stageState[r] \notin {"Pending", "Blocked"} \cup TerminalStage
  BY <1>2 DEF AbortedStage
<1>5. Ordered(m)
  BY <1>3, <1>4 DEF Ready, CursorInv, StagesAroundCursor, WorkUpToCursor, Ordered, TerminalStage
<1>6. Names(m)
  BY <1>3, NamedIsOpenOrOver DEF Names
<1>7. Steady(m)
  <2>1. \A r \in Stages : Passed(m, r) => PassedNow(r)
    BY <1>3, <1>4 DEF Passed, PassedNow
  <2> QED  BY <1>t, <1>s, <1>3, <1>4, <2>1 DEF Steady, SensibleNow, SteadyNow
<1>8. Sensible(m)
  BY <1>3, <1>7, <1>s DEF Sensible, SensibleNow, Unwound
<1> QED  BY <1>t, <1>3, <1>5, <1>6, <1>8 DEF Sound, m, ss

LEMMA RollbackWritesAreSound ==
  ASSUME Ready, Ready', FinishRollback, NEW s \in 1..(NumStages + 1)
  PROVE  LET m == [Snapshot EXCEPT !.stageState = [r \in Stages |->
                     IF r < s THEN stageState'[r] ELSE stageState[r]]]
         IN  Sound(m) /\ UNCHANGED attemptsMade /\ m.generation = generation
             /\ m.cursor = cursor /\ m.attemptsMade = attemptsMade /\ m.targetState = targetState
<1> DEFINE ss == [r \in Stages |-> IF r < s THEN stageState'[r] ELSE stageState[r]]
           m == [Snapshot EXCEPT !.stageState = ss]
<1>t. /\ TypeOK /\ TypeOK' /\ rolloutState = "RollingBack"
      /\ UNCHANGED <<attemptsMade, cursor>>
      /\ \A r \in Stages : stageState'[r] \in {stageState[r], "RolledBack"}
  BY ReadyIs DEF FinishRollback, targetVars, Ready, CursorInv
<1>1. Snapshot \in Records /\ Sound(Snapshot)
  BY <1>t, SnapshotType, ReadyIsSound
<1>2. /\ \A r \in Stages : ss[r] \in {stageState[r], stageState'[r]}
      /\ ss \in [Stages -> StageStates]
  BY <1>t DEF TypeOK
<1> HIDE DEF ss
<1>3. /\ m \in Records /\ m.rolloutState = "RollingBack" /\ m.stageState = ss
      /\ m.cursor = cursor /\ m.attemptsMade = attemptsMade /\ m.named = Named
      /\ m.targetState = targetState /\ m.generation = generation
  BY <1>t, <1>1, <1>2, SnapshotIs DEF Records
<1> HIDE DEF m
<1>s. SensibleNow
  BY SensibleIs DEF Ready
<1>4. Ordered(m)
  BY <1>t, <1>2, <1>3 DEF Ready, CursorInv, StagesAroundCursor, WorkUpToCursor, Ordered
<1>5. Names(m)
  BY <1>3, NamedIsOpenOrOver DEF Names
<1>6. Sensible(m)
  BY <1>t, <1>2, <1>3, <1>s DEF Sensible, SensibleNow, Unwound
<1> QED  BY <1>t, <1>3, <1>4, <1>5, <1>6 DEF Sound, m, ss

-----------------------------------------------------------------------------
(* The journal: what is written is sound, and its history runs forward.     *)

Forward ==
  saved'.generation = saved.generation =>
    /\ saved'.cursor >= saved.cursor
    /\ \A c \in Cells :
         /\ saved'.attemptsMade[c] >= saved.attemptsMade[c]
         /\ LegalTarget(saved.targetState[c], saved'.targetState[c])

Journalled == Sound(saved') /\ Written' /\ Forward

LEMMA ShiftsAreLegal ==
  ASSUME NEW c \in Cells, Shifts(c)
  PROVE  LegalTarget(targetState[c], targetState'[c])
BY DEF Shifts, Same, IsSent, HasEnded, IsUndone, IsLost, Undone, LegalTarget, TargetSuccessors

LEMMA CursorNeverReturns ==
  ASSUME Ready, Handled
  PROVE  cursor' \in {cursor, cursor + 1}
<1>1. CASE Command /\ generation' = generation
  <2>1. ~Regenerate
    <3>1. generation \in Nat
      BY ReadyIs DEF TypeOK
    <3> QED  BY <1>1, <3>1 DEF Regenerate
  <2> QED  BY <1>1, <2>1 DEF Command, Arm, Start, Pause, Resume, Abort, AbortInterrupted, Retire,
             ApproveGate, ApproveEntry, ApproveCompletion, ApproveTooLate, SucceedStage
<1>2. CASE DrainEvidence \/ Environment \/ Reconcile
  BY <1>2 DEF DrainEvidence, ApplyStopped, ApplyCompensation, ApplyExecution, Apply,
              Environment, WorkerReports, DeadlinePasses, SoakElapses, Reconcile, rolloutVars
<1>3. CASE Advance
  BY <1>3 DEF Advance, AdvanceIdle, AdvanceRollback, FinishRollback, BeginStage, RunStage,
              FailRunningStage, DispatchBatch, HoldStage, StartSoak, CompleteStage, SucceedStage
<1>4. CASE Resumes
  BY <1>4 DEF Resumes, ResumeArmed, ResumeAdvancing, ResumeSucceeded, ResumeFailed,
              ResumeGated, SucceedStage, rolloutVars
<1>5. CASE Concludes
  BY <1>5, ReadyIs, ConcludesIs DEF Concluded
<1> QED  BY <1>1, <1>2, <1>3, <1>4, <1>5 DEF Handled

(* Any snapshot between the states a step starts and ends in is newer than  *)
(* the one it finds.                                                        *)
LEMMA BetweenIsForward ==
  ASSUME Ready, Ready', Written, controller = "up", Handled, saved' \in Records,
         saved'.generation = generation,
         saved'.cursor \in {cursor, cursor'}, saved'.attemptsMade = attemptsMade',
         \A c \in Cells : saved'.targetState[c] \in {targetState[c], targetState'[c]}
  PROVE  Forward
<1>1. saved'.cursor >= saved.cursor
  <2>1. saved.cursor \in Int /\ saved.cursor <= cursor /\ cursor \in Int
    BY ReadyIs, Bounds DEF Written, TypeOK
  <2> QED  BY <2>1, CursorNeverReturns
<1>2. ASSUME NEW c \in Cells
      PROVE  /\ saved'.attemptsMade[c] >= saved.attemptsMade[c]
             /\ LegalTarget(saved.targetState[c], saved'.targetState[c])
  <2>1. Shifts(c)
    BY HandledShifts DEF Effect
  <2>2. attemptsMade'[c] >= attemptsMade[c]
    <3>1. attemptsMade[c] \in Nat
      BY ReadyIs DEF TypeOK
    <3> QED  BY <2>1, <3>1 DEF Shifts, Same, IsSent, HasEnded, IsUndone, IsLost
  <2>3. CASE saved.targetState[c] = targetState[c]
    <3>1. LegalTarget(targetState[c], targetState'[c]) /\ LegalTarget(targetState[c], targetState[c])
      BY <2>1, ShiftsAreLegal DEF LegalTarget
    <3> QED  BY <2>2, <2>3, <3>1 DEF Written
  <2>4. CASE saved.targetState[c] = "Dispatched" /\ targetState[c] \in {"Cancelled", "Exhausted"}
    <3>1. targetState'[c] = targetState[c]
      BY <2>1, <2>4 DEF Shifts, Same, IsSent, HasEnded, IsUndone, IsLost
    <3>2. LegalTarget("Dispatched", targetState[c])
      BY <2>4 DEF LegalTarget, TargetSuccessors
    <3> QED  BY <2>2, <2>4, <3>1, <3>2 DEF Written
  <2> QED  BY <2>3, <2>4 DEF Written
<1> QED  BY <1>1, <1>2 DEF Forward

LEMMA SavesAreJournalled ==
  ASSUME Ready, Written, controller = "up", Handled \/ Regenerate, Saves
  PROVE  Journalled
<1>1. Ready' /\ Sound(Snapshot')
  BY StepKeepsReady, NextSnapshotIsSound
<1>2. /\ saved' = Snapshot' /\ saved'.generation = generation' /\ saved'.cursor = cursor'
      /\ saved'.attemptsMade = attemptsMade' /\ saved'.targetState = targetState'
  BY DEF Saves, Snapshot
<1>3. Written'
  <2>1. cursor' \in 1..cursor'
    BY <1>1, Bounds DEF Ready, CursorInv, TypeOK
  <2> QED  BY <1>2, <2>1 DEF Written
<1>4. Forward
  <2>1. CASE Handled
    <3>1. generation' = generation
      BY <2>1, HandledShifts DEF Effect
    <3>2. saved' \in Records
      BY <1>1, <1>2 DEF Sound
    <3> QED  BY <1>1, <1>2, <2>1, <3>1, <3>2, BetweenIsForward
  <2>2. CASE Regenerate
    <3>1. saved'.generation = saved.generation + 1 /\ saved.generation \in Nat
      BY <1>2, <2>2, ReadyIs DEF Written, Regenerate, TypeOK
    <3> QED  BY <3>1 DEF Forward
  <2> QED  BY <2>1, <2>2
<1> QED  BY <1>1, <1>2, <1>3, <1>4 DEF Journalled

(* Dying between two writes.                                                *)
LEMMA DyingIsJournalled ==
  ASSUME Ready, Written, controller = "up", Handled, controller' = "down",
         Sound(saved'), saved'.generation = generation,
         saved'.cursor \in {cursor, cursor'}, saved'.attemptsMade = attemptsMade',
         \A c \in Cells : saved'.targetState[c] \in {targetState[c], targetState'[c]}
  PROVE  Journalled
<1>1. Ready'
  BY StepKeepsReady
<1>2. saved' \in Records
  BY DEF Sound
<1> QED  BY <1>1, <1>2, BetweenIsForward DEF Journalled, Written

LEMMA UnwrittenIsJournalled ==
  ASSUME Sound(saved), saved' = saved, Written'
  PROVE  Journalled
<1>1. Sound(saved')
  BY DEF Sound
<1>2. Forward
  BY DEF Forward, Sound, Records, LegalTarget
<1> QED  BY <1>1, <1>2 DEF Journalled

LEMMA SendsAreJournalled ==
  ASSUME Ready, Written, Sound(saved), controller = "up", Handled, Saves \/ DiesWith({saved})
  PROVE  Journalled
<1>1. CASE Saves
  BY <1>1, SavesAreJournalled
<1>2. CASE DiesWith({saved})
  BY <1>2, UnwrittenIsJournalled DEF DiesWith, Written
<1> QED  BY <1>1, <1>2

LEMMA TwoWritesAreJournalled ==
  ASSUME Ready, Written, controller = "up", MovesStage,
         WritesTwice
  PROVE  Journalled
<1>0. Handled /\ Ready' /\ generation' = generation
  BY StepKeepsReady, HandledShifts DEF MovesStage, Quiet, Effect
<1>1. CASE Saves
  BY <1>0, <1>1, SavesAreJournalled
<1>2. CASE DiesWith({StageOnly, Unmarked} \cup Halfway)
  <2>1. saved' \in {StageOnly, Unmarked} \cup Halfway /\ controller' = "down"
    BY <1>2 DEF DiesWith
  <2>2. Sound(saved') /\ OnTheWay(saved') /\ saved'.cursor \in {cursor, cursor'}
    BY <1>0, <2>1, TwoWritesAreSound
  <2>3. \A c \in Cells : saved'.targetState[c] \in {targetState[c], targetState'[c]}
    BY <2>2 DEF OnTheWay, Before
  <2> QED  BY <1>0, <2>1, <2>2, <2>3, DyingIsJournalled DEF OnTheWay
<1>3. CASE SavesStage /\ LeavesCursor
  <2>1. /\ saved' = StageOnly /\ Sound(saved') /\ OnTheWay(saved') /\ saved'.cursor = cursor
    BY <1>0, <1>3, TwoWritesAreSound, UnmarkedIs DEF SavesStage, Ready, CursorInv
  <2>2. /\ saved'.generation = generation' /\ saved'.attemptsMade = attemptsMade'
        /\ \A c \in Cells : saved'.targetState[c] = targetState'[c]
    BY <1>3, <2>1, BeforeIs DEF OnTheWay, LeavesCursor, MovesStage, Quiet
  <2>3. cursor \in 1..cursor'
    BY <1>0, ReadyIs, Bounds, CursorNeverReturns DEF TypeOK
  <2>4. Written'
    BY <2>1, <2>2, <2>3 DEF Written
  <2>5. Forward
    BY <1>0, <2>1, <2>2, BetweenIsForward DEF Sound
  <2> QED  BY <2>1, <2>4, <2>5 DEF Journalled
<1>4. DiesWith({StageOnly} \cup Halfway) => DiesWith({StageOnly, Unmarked} \cup Halfway)
  BY DEF DiesWith
<1> QED  BY <1>1, <1>2, <1>3, <1>4 DEF WritesTwice

LEMMA AbortsAreJournalled ==
  ASSUME Ready, Written, controller = "up", Aborts
  PROVE  Journalled
<1>0. Abort /\ Handled
  BY DEF Aborts, Abort, rolloutVars, Handled, Command
<1>r. Ready' /\ generation' = generation
  BY <1>0, StepKeepsReady, HandledShifts DEF Effect
<1>1. CASE Saves
  BY <1>0, <1>1, SavesAreJournalled
<1>2. CASE controller' = "down" /\ saved' = Unmarked
  <2>1. Quiet
    BY <1>0 DEF Quiet, Abort, Abortable, TerminalRollout, Unwound
  <2>2. Sound(saved') /\ OnTheWay(saved') /\ saved'.cursor = cursor'
    BY <1>r, <1>2, <2>1, UnmarkedIsSound, UnmarkedIs DEF Ready, CursorInv
  <2>3. \A c \in Cells : saved'.targetState[c] \in {targetState[c], targetState'[c]}
    BY <2>2 DEF OnTheWay, Before
  <2> QED  BY <1>0, <1>r, <1>2, <2>2, <2>3, DyingIsJournalled DEF OnTheWay
<1>3. ASSUME NEW s \in 1..(NumStages + 1), controller' = "down",
             saved' = [Snapshot EXCEPT !.rolloutState = "Aborting",
                         !.stageState = [r \in Stages |->
                            IF r < s THEN AbortedStage(stageState[r]) ELSE stageState[r]]]
      PROVE  Journalled
  <2>1. /\ Sound(saved') /\ saved'.generation = generation /\ saved'.cursor = cursor
        /\ saved'.attemptsMade = attemptsMade' /\ saved'.targetState = targetState
    BY <1>0, <1>r, <1>3, AbortWritesAreSound
  <2> QED  BY <1>0, <1>3, <2>1, DyingIsJournalled
<1> QED  BY <1>1, <1>2, <1>3 DEF Aborts, DiesWith

LEMMA FinishesAreJournalled ==
  ASSUME Ready, Written, controller = "up", FinishesRollback
  PROVE  Journalled
<1>0. FinishRollback /\ Handled
  BY DEF FinishesRollback, Handled, Advance
<1>r. Ready' /\ generation' = generation
  BY <1>0, StepKeepsReady, HandledShifts DEF Effect
<1>1. CASE Saves
  BY <1>0, <1>1, SavesAreJournalled
<1>3. ASSUME NEW s \in 1..(NumStages + 1), controller' = "down",
             saved' = [Snapshot EXCEPT !.stageState = [r \in Stages |->
                         IF r < s THEN stageState'[r] ELSE stageState[r]]]
      PROVE  Journalled
  <2>1. /\ Sound(saved') /\ saved'.generation = generation /\ saved'.cursor = cursor
        /\ saved'.attemptsMade = attemptsMade' /\ saved'.targetState = targetState
    BY <1>0, <1>r, <1>3, RollbackWritesAreSound
  <2> QED  BY <1>0, <1>3, <2>1, DyingIsJournalled
<1> QED  BY <1>1, <1>3 DEF FinishesRollback, DiesWith

(* A step that changes nothing a snapshot names.                            *)
LEMMA SilentIsJournalled ==
  ASSUME Written, Sound(saved), controller = "up", saved' = saved,
         cursor \in Nat, cursor' \in {cursor, cursor + 1},
         UNCHANGED <<generation, attemptsMade, targetState>>
  PROVE  Journalled
<1>1. Written'
  BY DEF Written
<1> QED  BY <1>1, UnwrittenIsJournalled

(* The advance gate that holds a stage, and the one that halts in opening.  *)
LEMMA HeldCompletionIsJournalled ==
  ASSUME Ready, Written, Sound(saved), controller = "up", controller' = "up", saved' = saved,
         NEW s \in Stages, NEW held, CompleteStage(s, held), stageState' = stageState
  PROVE  Journalled
<1>t. stageState \in [Stages -> StageStates]
  BY ReadyIs DEF TypeOK
<1>1. /\ stageState[s] \in {"Running", "Soaking"} /\ s = cursor
      /\ AllTerminal(Swept(s), s) /\ UNCHANGED <<generation, attemptsMade>>
  BY DEF CompleteStage, Proceeding, Advancing, Ticking
<1>2. cursor' = cursor /\ targetState' = Swept(s)
  <2>1. stageState'[s] \in {"Running", "Soaking"}
    BY <1>1
  <2>2. ~FailStage(s, Swept(s)) /\ ~SucceedStage(s)
    BY <1>t, <2>1 DEF FailStage, Unwind, SucceedStage
  <2> QED  BY <2>2 DEF CompleteStage
<1>3. ASSUME NEW c \in Cells
      PROVE  \/ targetState'[c] = targetState[c]
             \/ targetState[c] = "Dispatched" /\ targetState'[c] \in {"Cancelled", "Exhausted"}
  <2>1. CASE c \in Expired(s)
    <3>1. Swept(s)[c] \in TerminalTarget
      BY <1>1, <2>1 DEF AllTerminal, Expired
    <3> QED  BY <1>2, <3>1, SweepShifts DEF TerminalTarget
  <2>2. CASE c \notin Expired(s)
    BY <1>2, <2>2 DEF Swept
  <2> QED  BY <2>1, <2>2
<1>4. Written'
  BY <1>1, <1>2, <1>3 DEF Written
<1> QED  BY <1>4, UnwrittenIsJournalled

LEMMA CommandIsJournalled ==
  ASSUME Ready, Written, Sound(saved), controller = "up", RecoveredCommand
  PROVE  Journalled /\ (Handled \/ Regenerate)
<1> USE DEF rolloutVars, stageVars, targetVars, attemptVars
<1>n. cursor \in Nat
  BY ReadyIs DEF TypeOK
<1>2. Arm \/ Start \/ Pause \/ Resume \/ AbortInterrupted \/ Retire => Handled
  BY DEF Handled, Command, Arm, Start, Pause, Resume, AbortInterrupted, Retire
<1>3. CASE Once(Arm) \/ Once(Start) \/ Once(Pause) \/ Once(Resume) \/ Once(AbortInterrupted)
           \/ Once(Retire) \/ Once(Regenerate)
  BY <1>2, <1>3, SavesAreJournalled DEF Once
<1>4. CASE Aborts
  BY <1>4, AbortsAreJournalled DEF Aborts, Abort, Handled, Command
<1>5. ASSUME NEW s \in Stages, Twice(ApproveEntry(s)) \/ Twice(ApproveCompletion(s))
      PROVE  Journalled /\ Handled
  <2>1. MovesStage /\ WritesTwice
    BY <1>5, ApprovalMovesStage DEF Twice
  <2> QED  BY <2>1, TwoWritesAreJournalled DEF MovesStage, Quiet
<1>6. ASSUME NEW s \in Stages, Unwritten(ApproveTooLate(s) /\ ~PredecessorUndone(s))
      PROVE  Journalled /\ Handled
  <2>1. Handled
    BY <1>6 DEF Unwritten, ApproveTooLate, Approving, Handled, Command, ApproveGate
  <2>2. saved' = saved /\ UNCHANGED <<generation, cursor, attemptsMade, targetState>>
    BY <1>6 DEF Unwritten, ApproveTooLate, Approving
  <2> QED  BY <1>n, <2>1, <2>2, SilentIsJournalled
<1>7. ASSUME NEW s \in Stages, Once(ApproveUndone(s))
      PROVE  Journalled /\ Handled
  <2>1. Handled /\ Saves
    BY <1>7 DEF Once, Handled, Concludes
  <2> QED  BY <2>1, SavesAreJournalled
<1> QED  BY <1>3, <1>4, <1>5, <1>6, <1>7 DEF RecoveredCommand

LEMMA AdvanceIsJournalled ==
  ASSUME Ready, Written, Sound(saved), controller = "up", RecoveredAdvance
  PROVE  Journalled /\ Handled
<1> USE DEF rolloutVars, stageVars, targetVars, attemptVars
<1>n. cursor \in Nat
  BY ReadyIs DEF TypeOK
<1>1. CASE Unwritten(AdvanceIdle) \/ Unwritten(ResumeGated)
           \/ Unwritten(ResumeSucceeded /\ LeavesCursor)
  <2>1. Handled
    BY <1>1 DEF Unwritten, Handled, Advance, Resumes
  <2>2. /\ saved' = saved /\ UNCHANGED <<generation, attemptsMade, targetState>>
        /\ cursor' \in {cursor, cursor + 1}
    BY <1>1 DEF Unwritten, AdvanceIdle, ResumeGated, ResumeSucceeded, Advancing, Ticking
  <2> QED  BY <1>n, <2>1, <2>2, SilentIsJournalled
<1>2. CASE Sends(AdvanceRollback)
  <2>1. Handled /\ (Saves \/ DiesWith({saved}))
    BY <1>2 DEF Sends, Handled, Advance
  <2> QED  BY <2>1, SendsAreJournalled
<1>3. CASE FinishesRollback
  BY <1>3, FinishesAreJournalled DEF FinishesRollback, Handled, Advance
<1>4. CASE Once(ResumeArmed) \/ Once(ResumeSucceeded /\ ~LeavesCursor) \/ Once(ResumeFinished)
  <2>1. Handled /\ Saves
    BY <1>4 DEF Once, Handled, Resumes, Concludes
  <2> QED  BY <2>1, SavesAreJournalled
<1>5. CASE Twice(ResumeAdvancing) \/ Twice(ResumeFailed)
  <2>1. MovesStage /\ WritesTwice
    BY <1>5, ResumesMoveStage DEF Twice
  <2> QED  BY <2>1, TwoWritesAreJournalled DEF MovesStage, Quiet
<1>6. ASSUME NEW s \in Stages, NEW held \in HealthHolds(s),
             Twice(BeginStage(s)) \/ Twice(FailRunningStage(s)) \/ Twice(StartSoak(s, held))
      PROVE  Journalled /\ Handled
  <2>1. MovesStage /\ WritesTwice
    BY <1>6, TickMovesStage DEF Twice
  <2> QED  BY <2>1, TwoWritesAreJournalled DEF MovesStage, Quiet
<1>7. ASSUME NEW s \in Stages, NEW held \in HealthHolds(s),
             Sends(DispatchBatch(s, held)) \/ Once(HoldStage(s, held))
      PROVE  Journalled /\ Handled
  <2>1. Handled /\ (Saves \/ DiesWith({saved}))
    BY <1>7 DEF Sends, Once, Handled, Advance, RunStage
  <2> QED  BY <2>1, SendsAreJournalled
<1>8. ASSUME NEW s \in Stages, NEW held \in HealthHolds(s), CompleteStage(s, held),
             IF stageState' = stageState
             THEN controller' = "up" /\ UNCHANGED <<saved, crashes>>
             ELSE WritesTwice
      PROVE  Journalled /\ Handled
  <2>1. MovesStage
    BY <1>8, TickMovesStage
  <2>2. CASE stageState' = stageState
    BY <1>8, <2>1, <2>2, HeldCompletionIsJournalled DEF MovesStage, Quiet
  <2>3. CASE stageState' # stageState
    BY <1>8, <2>1, <2>3, TwoWritesAreJournalled DEF MovesStage, Quiet
  <2> QED  BY <2>2, <2>3
<1>9. \A s \in Stages : HealthHolds(s) # {}
  BY DEF HealthHolds
<1> QED  BY <1>1, <1>2, <1>3, <1>4, <1>5, <1>6, <1>7, <1>8, <1>9 DEF RecoveredAdvance

-----------------------------------------------------------------------------
(* restore() of a sound snapshot.                                           *)

LEMMA RestoredIsReady ==
  ASSUME TypeOK, Sound(saved), Restart
  PROVE  /\ Ready' /\ Written'
         /\ inherited' \subseteq Attempts /\ told' \subseteq told \cup cancelled
<1> DEFINE attempt(c) == [gen |-> saved.generation, cell |-> c, epoch |-> saved.attemptsMade[c]]
           rebuilt == {attempt(c) : c \in saved.named}
           known == {a \in issued : \/ a.gen < saved.generation
                                    \/ a.gen = saved.generation /\ a.epoch <= saved.attemptsMade[a.cell]}
           made == [c \in saved.named |-> attempt(c)]
<1>1. /\ rolloutState' = saved.rolloutState /\ resumeState' = saved.resumeState
      /\ cursor' = saved.cursor /\ generation' = saved.generation
      /\ outstanding' = Cardinality(saved.named)
      /\ stageState' = saved.stageState /\ pendingGate' = saved.pendingGate
      /\ canaryCleared' = saved.canaryCleared
      /\ dispatchedTotal' = saved.dispatchedTotal /\ soak' = saved.soak
      /\ targetState' = saved.targetState /\ attemptsMade' = saved.attemptsMade
      /\ rollbackStep' = saved.rollbackStep
  BY DEF Restart, Rebuilt, Made
<1>2. /\ open' = rebuilt /\ inherited' = rebuilt
      /\ cancelled' = {} /\ told' = told \cup cancelled
      /\ overdue' = overdue \cap rebuilt
      /\ issued' = known /\ reports' = {r \in reports : r.attempt \in known}
      /\ draining' = FALSE /\ halted' = FALSE /\ saved' = saved /\ controller' = "up"
  BY DEF Restart, Made
<1>3. /\ saved.named \in SUBSET Cells /\ saved.generation \in 1..MaxGeneration
      /\ saved.targetState \in [Cells -> TargetStates]
      /\ \A c \in Cells : saved.attemptsMade[c] \in Nat
      /\ \A c \in saved.named : saved.attemptsMade[c] > 0
  BY DEF Sound, Records, Names
<1>4. \A c \in saved.named : /\ attempt(c).gen = saved.generation /\ attempt(c).cell = c
                             /\ attempt(c).epoch = saved.attemptsMade[c]
                             /\ attempt(c) \in Attempts
  BY <1>3 DEF Attempts
<1>5. \A c \in Cells : Current(c)' = attempt(c)
  BY <1>1 DEF Current
<1>6. IsFiniteSet(saved.named) /\ Cardinality(saved.named) \in Nat
  BY <1>3, PartOfCellsIsCounted
<1>7. Cardinality(rebuilt) = Cardinality(saved.named)
  <2>1. made \in [saved.named -> rebuilt]
    OBVIOUS
  <2>2. \A c, d \in saved.named : made[c] = made[d] => c = d
    <3> SUFFICES ASSUME NEW c \in saved.named, NEW d \in saved.named, attempt(c) = attempt(d)
                 PROVE  c = d
      OBVIOUS
    <3> QED  BY <1>4
  <2>3. made \in Surjection(saved.named, rebuilt)
    BY <2>1 DEF Surjection
  <2>4. ExistsBijection(saved.named, rebuilt)
    BY <2>1, <2>2, <2>3 DEF ExistsBijection, Bijection, Injection, IsInjective
  <2> QED  BY <1>6, <2>4, FS_Bijection
<1>8. \A a \in rebuilt : a \in Attempts /\ a.gen = saved.generation /\ a = attempt(a.cell)
                         /\ a.cell \in saved.named
  BY <1>4
<1>9. \A c \in Cells : attempt(c) \in rebuilt => c \in saved.named
  <2> SUFFICES ASSUME NEW c \in Cells, NEW d \in saved.named, attempt(c) = attempt(d)
               PROVE  c \in saved.named
    OBVIOUS
  <2>1. attempt(c).cell = c /\ attempt(d).cell = d
    OBVIOUS
  <2> QED  BY <2>1
<1>10. \A c \in saved.named : attempt(c) \in rebuilt
  OBVIOUS
<1>11. /\ known \subseteq issued
       /\ \A a \in known : \/ a.gen < saved.generation
                           \/ a.gen = saved.generation /\ a.epoch <= saved.attemptsMade[a.cell]
  OBVIOUS
<1> HIDE DEF attempt, rebuilt, known, made
<1>12. TypeOK'
  <2>1. /\ rebuilt \subseteq Attempts /\ known \subseteq Attempts
        /\ {r \in reports : r.attempt \in known} \subseteq Reports
    BY <1>8, <1>11 DEF TypeOK
  <2>2. /\ rolloutState' \in RolloutStates /\ resumeState' \in RolloutStates
        /\ cursor' \in 1..(NumStages + 1) /\ generation' \in 1..MaxGeneration
        /\ stageState' \in [Stages -> StageStates] /\ pendingGate' \in [Stages -> Gates]
        /\ canaryCleared' \in [Stages -> BOOLEAN] /\ dispatchedTotal' \in [Stages -> Nat]
        /\ soak' \in [Stages -> SoakStates] /\ targetState' \in [Cells -> TargetStates]
        /\ attemptsMade' \in [Cells -> Nat] /\ rollbackStep' \in [Cells -> Nat]
    BY <1>1 DEF Sound, Records
  <2> QED  BY <1>1, <1>2, <1>6, <2>1, <2>2 DEF TypeOK
<1>13. CursorInv'
  BY <1>1, <1>12 DEF CursorInv, StagesAroundCursor, WorkUpToCursor, Sound, Ordered
<1>14. Tallied'
  <2>1. OpenIsLast'
    BY <1>2, <1>3, <1>5, <1>8 DEF OpenIsLast
  <2>2. IssuedSoFar'
    <3>1. \A a \in known : a.gen \in Nat /\ (a.gen < saved.generation => a.gen # saved.generation)
      BY <1>3, <1>11 DEF TypeOK, Attempts
    <3>2. \A a \in known : /\ a.gen <= saved.generation
                           /\ a.gen = saved.generation => a.epoch <= saved.attemptsMade[a.cell]
      BY <1>3, <1>11, <3>1
    <3> QED  BY <1>1, <1>2, <3>2 DEF IssuedSoFar
  <2>3. \A a \in open' : a.gen <= generation' /\ a.gen = generation'
    BY <1>1, <1>2, <1>3, <1>8
  <2>4. \A c \in Cells : Current(c)' \in open' => CountsAsChanging(targetState'[c])
    BY <1>1, <1>2, <1>5, <1>9 DEF Sound, Names
  <2>5. \A c \in Cells : targetState'[c] \in {"Dispatched", "Unknown"} => Current(c)' \in open'
    BY <1>1, <1>2, <1>5, <1>10 DEF Sound, Names
  <2>6. OutstandingCounts'
    <3>1. OpenNow' = rebuilt
      BY <1>2, <2>3 DEF OpenNow
    <3> QED  BY <1>1, <1>7, <3>1 DEF OutstandingCounts
  <2> QED  BY <2>1, <2>2, <2>3, <2>4, <2>5, <2>6 DEF Tallied
<1>15. SensibleNow'
  <2>1. Sensible(saved)
    BY DEF Sound
  <2>2. \A s \in Stages : PassedNow(s)' <=> Passed(saved, s)
    BY <1>1 DEF Passed, PassedNow
  <2> QED  BY <1>1, <2>1, <2>2 DEF Sensible, SensibleNow, Steady, SteadyNow
<1>16. Written'
  <2>1. cursor' \in 1..cursor'
    BY <1>1, Bounds DEF Sound, Records
  <2> QED  BY <1>1, <1>2, <2>1 DEF Written
<1>17. inherited' \subseteq Attempts
  BY <1>2, <1>8
<1> QED  BY <1>2, <1>13, <1>14, <1>15, <1>16, <1>17, SensibleIs DEF Ready

-----------------------------------------------------------------------------
(* The theorems.                                                            *)

LEMMA InitRecoveryInv == RecoveryInit => RecoveryInv
<1> SUFFICES ASSUME RecoveryInit PROVE RecoveryInv
  OBVIOUS
<1> USE DEF RecoveryInit
<1>1. LedgerInv
  BY InitLedgerInv
<1>2. Tallied
  BY <1>1, LedgerCounts
     DEF LedgerInv, Tallied, Init
<1>3. SensibleNow
  <2>1. \A s \in Stages : ~(s < 1)
    BY Bounds
  <2> QED  BY <2>1 DEF SensibleNow, SteadyNow, PassedNow, Init, Undone, Unwound
<1>4. Ready
  BY <1>1, <1>2, <1>3, SensibleIs DEF Ready, LedgerInv
<1>5. Sound(saved)
  BY <1>4, ReadyIsSound
<1>6. Written
  <2>1. cursor = 1 /\ 1 \in 1..1
    BY DEF Init
  <2> QED  BY <2>1 DEF Written, Snapshot
<1>7. RecoveryTypeOK
  BY <1>4, <1>5, ReadyIs, RecoveryAssumption DEF RecoveryTypeOK, Sound, Records, RecoveryAssumption
<1> QED  BY <1>4, <1>5, <1>6, <1>7 DEF Ready, RecoveryInv

(* Every step of the recovering controller keeps the invariant, and its     *)
(* journal moves forward.                                                   *)
LEMMA StepKeepsRecovery ==
  ASSUME RecoveryInv, [RecoveryNext]_allVars
  PROVE  RecoveryInv' /\ Forward
<1>0. Ready /\ Sound(saved) /\ Written /\ RecoveryTypeOK
  BY DEF RecoveryInv, Ready
<1>c. crashes' \in {crashes, crashes + 1} /\ (crashes' = crashes + 1 => crashes < MaxCrashes)
      => crashes' \in 0..MaxCrashes
  BY <1>0, RecoveryAssumption DEF RecoveryTypeOK, RecoveryAssumption
<1>1. ASSUME Ready', Journalled, inherited' \subseteq Attempts, told' \subseteq Attempts,
             controller' \in {"up", "down", "without"},
             crashes' \in {crashes, crashes + 1}, crashes' = crashes + 1 => crashes < MaxCrashes
      PROVE  RecoveryInv' /\ Forward
  <2>1. TypeOK' /\ Sound(saved') /\ Written' /\ Forward
    BY <1>1 DEF Ready, CursorInv, Journalled
  <2>2. RecoveryTypeOK'
    BY <1>1, <1>c, <2>1 DEF RecoveryTypeOK, Sound, Records
  <2>3. Sound(saved)'
    BY <2>1 DEF Sound, Ordered, Sensible, Steady, Passed, Names
  <2> QED  BY <1>1, <2>1, <2>2, <2>3 DEF RecoveryInv, Ready
<1>2. ASSUME controller = "up", Handled \/ Regenerate, Journalled,
             UNCHANGED <<inherited, told>>, controller' \in {"up", "down"},
             crashes' \in {crashes, crashes + 1}, crashes' = crashes + 1 => crashes < MaxCrashes
      PROVE  RecoveryInv' /\ Forward
  BY <1>0, <1>1, <1>2, StepKeepsReady DEF RecoveryTypeOK
<1>3. ASSUME NEW M, Saves \/ DiesWith(M)
      PROVE  /\ controller' \in {"up", "down"} /\ crashes' \in {crashes, crashes + 1}
             /\ crashes' = crashes + 1 => crashes < MaxCrashes
  BY <1>0, <1>3 DEF Saves, DiesWith, RecoveryTypeOK
<1>u. ASSUME controller' = "up", crashes' = crashes
      PROVE  /\ controller' \in {"up", "down"} /\ crashes' \in {crashes, crashes + 1}
             /\ crashes' = crashes + 1 => crashes < MaxCrashes
  BY <1>0, <1>u DEF RecoveryTypeOK
<1>4. CASE Up(Drain)
  <2>1. DrainEvidence /\ Saves
    BY <1>4 DEF Up, Drain, Once, DrainEvidence
  <2> QED  BY <1>0, <1>2, <1>3, <1>4, <2>1, SavesAreJournalled DEF Up, Handled
<1>5. CASE Up(Once(Reconcile))
  <2>1. Reconcile /\ Saves
    BY <1>5 DEF Up, Once
  <2> QED  BY <1>0, <1>2, <1>3, <1>5, <2>1, SavesAreJournalled DEF Up, Handled
<1>6. CASE Up(RecoveredCommand)
  <2>1. \E M : Saves \/ DiesWith(M) \/ (controller' = "up" /\ crashes' = crashes)
    BY <1>6 DEF Up, RecoveredCommand, Once, Twice, WritesTwice, SavesStage, Aborts, Unwritten
  <2> QED  BY <1>0, <1>2, <1>3, <1>u, <1>6, <2>1, CommandIsJournalled DEF Up
<1>7. CASE Up(RecoveredAdvance)
  <2>1. \E M : Saves \/ DiesWith(M) \/ (controller' = "up" /\ crashes' = crashes)
    BY <1>7 DEF Up, RecoveredAdvance, Once, Twice, WritesTwice, SavesStage, Sends,
                FinishesRollback, Unwritten
  <2> QED  BY <1>0, <1>2, <1>3, <1>u, <1>7, <2>1, AdvanceIsJournalled DEF Up
<1>8. CASE Up(Unwritten(Environment))
  <2>1. UNCHANGED <<generation, cursor, attemptsMade, targetState>>
    BY <1>8 DEF Up, Unwritten, Environment, WorkerReports, DeadlinePasses, SoakElapses,
                rolloutVars, targetVars
  <2>n. cursor \in Nat
    BY <1>0, ReadyIs DEF TypeOK
  <2>2. Journalled
    BY <1>0, <1>8, <2>1, <2>n, SilentIsJournalled DEF Up, Unwritten
  <2> QED  BY <1>2, <1>u, <1>8, <2>2 DEF Up, Unwritten, Handled
<1>k. ASSUME UNCHANGED vars PROVE Ready'
  <2>1. /\ UNCHANGED <<rolloutVars, stageVars, targetVars, attemptVars, planeVars>>
        /\ UNCHANGED <<draining, halted>>
    BY <1>k DEF vars
  <2>2. CursorInv'
    BY <1>0, <1>k, NextKeepsCursorInv DEF Ready
  <2>3. Tallied'
    BY <1>0, <2>1 DEF Ready, Tallied, OpenIsLast, IssuedSoFar, OutstandingCounts, OpenNow,
                      Current, rolloutVars, targetVars, attemptVars, planeVars
  <2>4. SensibleNow'
    <3>1. SensibleNow
      BY <1>0, SensibleIs DEF Ready
    <3> QED  BY <2>1, <3>1 DEF SensibleNow, SteadyNow, PassedNow, rolloutVars, stageVars, targetVars
  <2> QED  BY <2>2, <2>3, <2>4, SensibleIs DEF Ready
<1>9. CASE Up(Crash) \/ RestartWithout
  <2>1. /\ UNCHANGED <<vars, saved, inherited, told>> /\ controller' \in {"down", "without"}
        /\ crashes' \in {crashes, crashes + 1} /\ (crashes' = crashes + 1 => crashes < MaxCrashes)
    BY <1>0, <1>9 DEF Up, Crash, RestartWithout, DiesWith, RecoveryTypeOK
  <2>2. Journalled
    BY <1>0, <2>1, UnwrittenIsJournalled DEF Written
  <2> QED  BY <1>0, <1>1, <1>k, <2>1, <2>2 DEF RecoveryTypeOK
<1>10. CASE Restart
  <2>1. /\ Ready' /\ Written' /\ inherited' \subseteq Attempts /\ told' \subseteq Attempts
    BY <1>0, <1>10, RestoredIsReady DEF RecoveryTypeOK, TypeOK
  <2>2. /\ saved' = saved /\ crashes' = crashes /\ controller' = "up"
    BY <1>10 DEF Restart
  <2> QED  BY <1>0, <1>1, <1>u, <2>1, <2>2, UnwrittenIsJournalled
<1>11. CASE UNCHANGED allVars
  <2>1. UNCHANGED <<vars, saved, inherited, told, controller, crashes>>
    BY <1>11 DEF allVars, recoveryVars
  <2>2. Ready' /\ Written'
    <3>1. UNCHANGED <<generation, cursor, attemptsMade, targetState>>
      BY <2>1 DEF vars, rolloutVars, targetVars
    <3> QED  BY <1>0, <1>k, <2>1, <3>1 DEF Written
  <2>3. crashes' \in {crashes, crashes + 1} /\ (crashes' = crashes + 1 => crashes < MaxCrashes)
    BY <1>0, <2>1 DEF RecoveryTypeOK
  <2> QED  BY <1>0, <1>1, <2>1, <2>2, <2>3, UnwrittenIsJournalled DEF RecoveryTypeOK
<1> QED  BY <1>4, <1>5, <1>6, <1>7, <1>8, <1>9, <1>10, <1>11 DEF RecoveryNext

(* Wherever a handler dies, the snapshot it leaves restores into a state    *)
(* the next incarnation can go on from.                                     *)
THEOREM RecoveryInvariant == RecoverySpec => []RecoveryInv
<1>1. RecoveryInv /\ [RecoveryNext]_allVars => RecoveryInv'
  BY StepKeepsRecovery
<1> QED  BY <1>1, InitRecoveryInv, PTL DEF RecoverySpec

(* A snapshot written half way through a handler never restores a state     *)
(* outside the types.                                                       *)
THEOREM RestoredTypesHold == RecoverySpec => []RecoveryTypeOK
<1>1. RecoveryInv => RecoveryTypeOK
  BY DEF RecoveryInv
<1> QED  BY <1>1, RecoveryInvariant, PTL

(* Newer snapshots never take the cursor or an epoch back and move targets  *)
(* along the closed table, though a handler may die after any of its writes.*)
THEOREM HistoryNeverReturns == RecoverySpec => HistoryRunsForward
<1>1. RecoveryInv /\ [RecoveryNext]_allVars => Forward
  BY StepKeepsRecovery
<1> QED  BY <1>1, RecoveryInvariant, PTL DEF RecoverySpec, HistoryRunsForward, Forward

-----------------------------------------------------------------------------
(* The plan across restarts: what the gates hold back, what the limits and  *)
(* the canary allow, and what successes rest on.  As before it is stated of *)
(* a snapshot, and holds of the one in memory and of the one in the journal.*)

\* a stage whose work may not have begun
Waiting(m, s) ==
  \/ m.stageState[s] \in {"Pending", "Armed"}
  \/ m.stageState[s] = "Gated" /\ m.pendingGate[s] = "entry"

Unstarted(m) ==
  /\ \A s \in Stages : m.stageState[s] = "Gated" => m.pendingGate[s] # "none"
  /\ \A c \in Cells : Waiting(m, c[1]) => m.attemptsMade[c] = 0

Tried(m) == \A c \in Cells : m.targetState[c] # "Pending" => m.attemptsMade[c] > 0

Attested(m, rs) ==
  \A c \in Cells : m.targetState[c] \in {"Succeeded", "RolledBack"} =>
    [attempt |-> [gen |-> m.generation, cell |-> c, epoch |-> m.attemptsMade[c]],
     outcome |-> "completed"] \in rs

Bounded(m) ==
  FitsLimits(InFlight(m.targetState)) /\ CanaryFits(m.attemptsMade, m.canaryCleared)

KeepsPlan(m, rs) == Unstarted(m) /\ Tried(m) /\ Attested(m, rs) /\ Bounded(m)

\* the plane reports on attempts it accepted
Reported == \A r \in reports : r.attempt \in issued

PlanInv == RecoveryInv /\ KeepsPlan(Snapshot, reports) /\ KeepsPlan(saved, reports) /\ Reported

(* The same of the variables.                                               *)
WaitingNow(s) ==
  \/ stageState[s] \in {"Pending", "Armed"}
  \/ stageState[s] = "Gated" /\ pendingGate[s] = "entry"

UnstartedNow ==
  /\ \A s \in Stages : stageState[s] = "Gated" => pendingGate[s] # "none"
  /\ \A c \in Cells : WaitingNow(c[1]) => attemptsMade[c] = 0

TriedNow == \A c \in Cells : targetState[c] # "Pending" => attemptsMade[c] > 0

AttestedNow ==
  \A c \in Cells : targetState[c] \in {"Succeeded", "RolledBack"} =>
    [attempt |-> Current(c), outcome |-> "completed"] \in reports

PlanNow == UnstartedNow /\ TriedNow /\ AttestedNow /\ LimitsHold /\ CanaryBound

LEMMA PlanNowIs == KeepsPlan(Snapshot, reports) <=> PlanNow
<1>1. Snapshot.canaryCleared = canaryCleared
  BY DEF Snapshot
<1>2. \A s : Waiting(Snapshot, s) <=> WaitingNow(s)
  BY SnapshotIs DEF Waiting, WaitingNow
<1>3. Unstarted(Snapshot) <=> UnstartedNow
  BY <1>2, SnapshotIs DEF Unstarted, UnstartedNow
<1>4. Tried(Snapshot) <=> TriedNow
  BY SnapshotIs DEF Tried, TriedNow
<1>5. Attested(Snapshot, reports) <=> AttestedNow
  BY SnapshotIs DEF Attested, AttestedNow, Current
<1>6. Bounded(Snapshot) <=> LimitsHold /\ CanaryBound
  BY <1>1, SnapshotIs DEF Bounded, LimitsHold, CanaryBound, CanaryFits
<1> QED  BY <1>3, <1>4, <1>5, <1>6 DEF KeepsPlan, PlanNow

LEMMA PlanNextIs == PlanNow' => KeepsPlan(Snapshot', reports')
<1>1. (PlanNow => KeepsPlan(Snapshot, reports))'
  BY PlanNowIs, PTL
<1> QED  BY <1>1 DEF KeepsPlan, Unstarted, Waiting, Tried, Attested, Bounded

(* How a step may move one stage.                                           *)
Turns(s) ==
  \/ stageState'[s] = stageState[s] /\ pendingGate'[s] = pendingGate[s]
  \/ stageState'[s] \notin {"Pending", "Armed", "Gated"}
  \/ stageState'[s] = "Gated" /\ pendingGate'[s] \in {"evidence", "advance"}
  \/ stageState[s] = "Pending" /\ stageState'[s] = "Gated" /\ pendingGate'[s] = "entry"

LEMMA StillStagesTurn ==
  ASSUME UNCHANGED <<stageState, pendingGate>>
  PROVE  \A s \in Stages : Turns(s)
  BY DEF Turns

(* A step that moves the current stage alone.                               *)
LEMMA OneStageTurns ==
  ASSUME TypeOK, NEW s \in Stages, Turns(s),
         \A r \in Stages : r # s => stageState'[r] = stageState[r] /\ pendingGate'[r] = pendingGate[r]
  PROVE  \A r \in Stages : Turns(r)
  BY DEF Turns

LEMMA OpenGateTurns ==
  ASSUME TypeOK, NEW s \in Stages, NEW kind, NEW from, OpenGate(s, kind, from),
         \/ kind = "entry" /\ from = "Armed" /\ stageState[s] = "Pending"
         \/ kind \in {"evidence", "advance"} /\ stageState[s] \in {"Running", "Soaking"}
  PROVE  \A r \in Stages : Turns(r)
<1>t. stageState \in [Stages -> StageStates] /\ pendingGate \in [Stages -> Gates]
  BY DEF TypeOK
<1>1. LegalStage("Armed", "Gated")
  BY DEF LegalStage, StageSuccessors
<1>2. \A r \in Stages : r # s => stageState'[r] = stageState[r] /\ pendingGate'[r] = pendingGate[r]
  BY <1>t DEF OpenGate
<1>3. /\ pendingGate'[s] = kind
      /\ IF LegalStage(from, "Gated") THEN stageState'[s] = "Gated" ELSE stageState'[s] = stageState[s]
  BY <1>t DEF OpenGate
<1>4. Turns(s)
  BY <1>1, <1>3 DEF Turns
<1> QED  BY <1>2, <1>4, OneStageTurns

LEMMA SetStageTurns ==
  ASSUME TypeOK, NEW s \in Stages, NEW to, to \notin {"Pending", "Armed", "Gated"},
         stageState' = [stageState EXCEPT ![s] = to],
         \A r \in Stages : r # s => pendingGate'[r] = pendingGate[r]
  PROVE  \A r \in Stages : Turns(r)
<1>t. stageState \in [Stages -> StageStates]
  BY DEF TypeOK
<1>1. stageState'[s] = to /\ \A r \in Stages : r # s => stageState'[r] = stageState[r]
  BY <1>t
<1> QED  BY <1>1 DEF Turns

LEMMA CommandTurns ==
  ASSUME Ready, Command, generation' = generation
  PROVE  \A s \in Stages : Turns(s)
<1>t. TypeOK /\ pendingGate \in [Stages -> Gates]
  BY ReadyIs DEF TypeOK
<1>1. CASE Arm \/ Start \/ Pause \/ Resume \/ Retire
  BY <1>1, StillStagesTurn DEF Arm, Start, Pause, Resume, Retire, stageVars
<1>2. CASE Abort \/ AbortInterrupted
  <2>1. /\ pendingGate' = pendingGate
        /\ \A s \in Stages : stageState'[s] \in {stageState[s], AbortedStage(stageState[s])}
    BY <1>2 DEF Abort, AbortInterrupted, Unwind
  <2>2. ASSUME NEW s \in Stages PROVE Turns(s)
    <3>1. AbortedStage(stageState[s]) \in {stageState[s], "Skipped", "Aborted"}
      BY DEF AbortedStage
    <3> QED  BY <2>1, <3>1 DEF Turns
  <2> QED  BY <2>2
<1>3. ASSUME NEW s \in Stages, ApproveEntry(s) \/ ApproveCompletion(s)
      PROVE  \A r \in Stages : Turns(r)
  <2>1. /\ pendingGate' = [pendingGate EXCEPT ![s] = "none"]
        /\ \E to \in {"Running", "Succeeded"} : stageState' = [stageState EXCEPT ![s] = to]
    BY <1>3 DEF ApproveEntry, ApproveCompletion, Approving, SucceedStage
  <2>2. \A r \in Stages : r # s => pendingGate'[r] = pendingGate[r]
    BY <1>t, <2>1
  <2> QED  BY <1>t, <2>1, <2>2, SetStageTurns
<1>4. ASSUME NEW s \in Stages, ApproveTooLate(s)
      PROVE  \A r \in Stages : Turns(r)
  <2>1. /\ pendingGate' = [pendingGate EXCEPT ![s] = "none"] /\ stageState' = stageState
        /\ stageState[s] \in TerminalStage
    BY <1>4 DEF ApproveTooLate, Approving
  <2>2. \A r \in Stages : r # s => pendingGate'[r] = pendingGate[r]
    BY <1>t, <2>1
  <2>3. Turns(s)
    BY <2>1 DEF Turns, TerminalStage
  <2> QED  BY <1>t, <2>1, <2>2, <2>3, OneStageTurns
<1>6. ~Regenerate
  <2>1. generation \in Nat
    BY ReadyIs DEF TypeOK
  <2> QED  BY <2>1 DEF Regenerate
<1> QED  BY <1>1, <1>2, <1>3, <1>4, <1>6 DEF Command, ApproveGate

LEMMA RunStageTurns ==
  ASSUME Ready, NEW s \in Stages, RunStage(s)
  PROVE  \A r \in Stages : Turns(r)
<1>t. TypeOK
  BY ReadyIs
<1>f. ASSUME NEW ts, FailStage(s, ts), pendingGate' = pendingGate
      PROVE  \A r \in Stages : Turns(r)
  BY <1>t, <1>f, SetStageTurns DEF FailStage, Unwind
<1>1. CASE FailRunningStage(s)
  BY <1>1, <1>f DEF FailRunningStage
<1>2. ASSUME NEW held, DispatchBatch(s, held) \/ HoldStage(s, held)
      PROVE  \A r \in Stages : Turns(r)
  BY <1>2, StillStagesTurn DEF DispatchBatch, HoldStage
<1>3. ASSUME NEW held, StartSoak(s, held)
      PROVE  \A r \in Stages : Turns(r)
  BY <1>t, <1>3, SetStageTurns DEF StartSoak
<1>4. ASSUME NEW held, CompleteStage(s, held)
      PROVE  \A r \in Stages : Turns(r)
  <2>1. stageState[s] \in {"Running", "Soaking"}
    BY <1>4 DEF CompleteStage, Proceeding, Advancing
  <2>2. \/ FailStage(s, Swept(s)) /\ pendingGate' = pendingGate
        \/ SucceedStage(s) /\ pendingGate' = pendingGate
        \/ \E kind \in {"evidence", "advance"} : OpenGate(s, kind, stageState[s])
        \/ UNCHANGED <<stageState, pendingGate>>
    BY <1>4 DEF CompleteStage
  <2>3. CASE SucceedStage(s) /\ pendingGate' = pendingGate
    BY <1>t, <2>3, SetStageTurns DEF SucceedStage
  <2> QED  BY <1>t, <1>f, <2>1, <2>2, <2>3, OpenGateTurns, StillStagesTurn
<1> QED  BY <1>1, <1>2, <1>3, <1>4 DEF RunStage

LEMMA ConcludedTurns ==
  ASSUME Concluded
  PROVE  \A s \in Stages : Turns(s)
BY DEF Concluded, Turns, TerminalStage

LEMMA HandledTurns ==
  ASSUME Ready, Handled
  PROVE  \A s \in Stages : Turns(s)
<1>t. TypeOK
  BY ReadyIs
<1>1. CASE DrainEvidence \/ Environment \/ Reconcile \/ AdvanceIdle \/ AdvanceRollback
  <2>1. UNCHANGED <<stageState, pendingGate>>
    BY <1>1 DEF DrainEvidence, ApplyStopped, ApplyCompensation, ApplyExecution, Apply,
                Environment, WorkerReports, DeadlinePasses, SoakElapses, Reconcile,
                AdvanceIdle, AdvanceRollback, stageVars
  <2> QED  BY <2>1, StillStagesTurn
<1>2. CASE FinishRollback
  <2>1. /\ pendingGate' = pendingGate
        /\ \A s \in Stages : stageState'[s] \in {stageState[s], "RolledBack"}
    BY <1>2 DEF FinishRollback
  <2> QED  BY <2>1 DEF Turns
<1>3. ASSUME NEW s \in Stages, BeginStage(s)
      PROVE  \A r \in Stages : Turns(r)
  <2>1. \/ OpenGate(s, "entry", "Armed") /\ stageState[s] = "Pending"
        \/ stageState' = [stageState EXCEPT ![s] = "Running"] /\ pendingGate' = pendingGate
    BY <1>3 DEF BeginStage, Advancing
  <2> QED  BY <1>t, <2>1, OpenGateTurns, SetStageTurns
<1>4. CASE Resumes
  <2>1. cursor \in Nat \ {0} /\ (cursor <= NumStages => cursor \in Stages)
    BY <1>t, Bounds DEF TypeOK
  <2>2. /\ cursor \in Stages /\ pendingGate' = pendingGate
        /\ \/ stageState' = stageState
           \/ \E to \in {"Running", "Succeeded"} : stageState' = [stageState EXCEPT ![cursor] = to]
    BY <1>4, <2>1 DEF Resumes, ResumeArmed, ResumeAdvancing, ResumeSucceeded, ResumeFailed,
                      ResumeGated, Advancing, SucceedStage, Unwind, stageVars
  <2> QED  BY <1>t, <2>2, SetStageTurns, StillStagesTurn
<1>5. CASE Concludes
  <2>1. Concluded
    BY <1>t, <1>5, ConcludesIs
  <2> QED  BY <2>1, ConcludedTurns
<1> QED  BY <1>1, <1>2, <1>3, <1>4, <1>5, CommandTurns, RunStageTurns DEF Handled, Advance

(* Only a batch or a compensation makes attempts, and a canary that has     *)
(* cleared stays so.                                                        *)
LEMMA WhoCounts ==
  ASSUME Ready, Handled
  PROVE  /\ \/ attemptsMade' = attemptsMade \/ AdvanceRollback
            \/ \E s \in Stages : \E held \in HealthHolds(s) : DispatchBatch(s, held)
         /\ \A s \in Stages : canaryCleared[s] => canaryCleared'[s]
<1>t. canaryCleared \in [Stages -> BOOLEAN] /\ generation \in Nat
  BY ReadyIs DEF TypeOK
<1>0. CASE Concludes
  BY <1>0, ReadyIs, ConcludesIs DEF Concluded, targetVars
<1>1. CASE Resumes \/ Reconcile
  BY <1>1 DEF Resumes, ResumeArmed, ResumeAdvancing, ResumeSucceeded, ResumeFailed,
              ResumeGated, Reconcile, stageVars, targetVars
<1>2. CASE ~(Resumes \/ Concludes \/ Reconcile)
  <2>1. Next /\ ~Regenerate
    <3>1. generation' = generation
      BY HandledShifts DEF Effect
    <3>2. ~Regenerate
      BY <1>t, <3>1 DEF Regenerate
    <3> QED  BY <1>2, <3>2 DEF Handled, Next
  <2>2. \/ canaryCleared' = canaryCleared
        \/ \E s \in Stages : \E held : Proceeding(s, held)
    BY <2>1, WhoCountsAndClears
  <2>3. \A s \in Stages : canaryCleared[s] => canaryCleared'[s]
    BY <1>t, <2>2 DEF Proceeding
  <2> QED  BY <2>1, <2>3, WhoCountsAndClears
<1> QED  BY <1>0, <1>1, <1>2

(* The plane's reports are never withdrawn, and are about attempts it was   *)
(* given: what a reconciliation releases was never reported.                *)
LEMMA HandledReports ==
  ASSUME Ready, Handled, Reported
  PROVE  reports \subseteq reports' /\ Reported'
<1>1. CASE Environment
  <2>1. issued' = issued
    BY <1>1 DEF Environment, WorkerReports, DeadlinePasses, SoakElapses, planeVars
  <2>2. reports' = reports \/ \E a \in issued : \E o : reports' = reports \cup {[attempt |-> a, outcome |-> o]}
    BY <1>1 DEF Environment, WorkerReports, DeadlinePasses, SoakElapses, planeVars
  <2> QED  BY <2>1, <2>2 DEF Reported
<1>2. CASE Reconcile
  <2>1. PICK a \in open : ReleaseNotStarted(a) \/ MarkUnknown(a)
    BY <1>2 DEF Reconcile
  <2>2. reports' = reports
    BY <1>2 DEF Reconcile
  <2>3. CASE ReleaseNotStarted(a)
    <3>1. issued' = issued \ {a} /\ \A r \in reports : r.attempt # a
      BY <2>3 DEF ReleaseNotStarted
    <3> QED  BY <2>2, <3>1 DEF Reported
  <2>4. CASE MarkUnknown(a)
    BY <2>2, <2>4 DEF MarkUnknown, Reported
  <2> QED  BY <2>1, <2>3, <2>4
<1>3. CASE DrainEvidence
  <2>1. UNCHANGED <<issued, reports>>
    BY <1>3 DEF DrainEvidence, ApplyStopped, ApplyCompensation, ApplyExecution, Apply, planeVars
  <2> QED  BY <2>1 DEF Reported
<1>4. CASE Command /\ generation' = generation
  <2>1. generation \in Nat
    BY ReadyIs DEF TypeOK
  <2>2. UNCHANGED <<issued, reports>>
    BY <1>4, <2>1 DEF Command, Arm, Start, Pause, Resume, Abort, AbortInterrupted, ApproveGate,
                 ApproveEntry, ApproveCompletion, ApproveTooLate, Approving, Retire, Regenerate,
                 planeVars
  <2> QED  BY <2>2 DEF Reported
<1>5. CASE Resumes
  <2>1. UNCHANGED <<issued, reports>>
    BY <1>5 DEF Resumes, ResumeArmed, ResumeAdvancing, ResumeSucceeded, ResumeFailed,
                ResumeGated, Advancing, Ticking
  <2> QED  BY <2>1 DEF Reported
<1>6. CASE Advance
  <2>1. reports' = reports
    BY <1>6 DEF Advance, AdvanceIdle, AdvanceRollback, FinishRollback, BeginStage, RunStage,
                FailRunningStage, DispatchBatch, HoldStage, StartSoak, CompleteStage,
                Proceeding, Advancing, Ticking
  <2>2. issued \subseteq issued'
    BY <1>6 DEF Advance, AdvanceIdle, AdvanceRollback, FinishRollback, BeginStage, RunStage,
                FailRunningStage, DispatchBatch, HoldStage, StartSoak, CompleteStage, Dispatch
  <2> QED  BY <2>1, <2>2 DEF Reported
<1>7. CASE Concludes
  <2>1. UNCHANGED <<issued, reports>>
    BY <1>7, ReadyIs, ConcludesIs DEF Concluded, planeVars
  <2> QED  BY <2>1 DEF Reported
<1> QED  BY <1>1, <1>2, <1>3, <1>4, <1>5, <1>6, <1>7 DEF Handled

(* A batch is of the cursor's stage, which is running.                      *)
LEMMA BatchIsOfStage ==
  ASSUME Ready, NEW s \in Stages, NEW held, DispatchBatch(s, held)
  PROVE  /\ s = cursor /\ rolloutState \notin Unwound
         /\ UNCHANGED <<stageState, pendingGate, cursor>> /\ stageState[s] \in {"Running", "Soaking"}
         /\ \A c \in Cells : c[1] # s => attemptsMade'[c] = attemptsMade[c]
<1>1. PICK accepted \in SUBSET Cells :
        accepted \subseteq {c \in StageCells(s) : Swept(s)[c] = "Pending"} /\ Dispatch(accepted)
  BY BatchAccepted
<1>2. \A c \in Cells : c[1] # s => attemptsMade'[c] = attemptsMade[c]
  BY <1>1 DEF Dispatch, StageCells
<1>3. /\ s = cursor /\ rolloutState \in {"Running", "Soaking", "Advancing"}
      /\ UNCHANGED <<stageState, pendingGate, cursor>> /\ stageState[s] \in {"Running", "Soaking"}
  BY DEF DispatchBatch, Proceeding, Advancing
<1> QED  BY <1>2, <1>3 DEF Unwound

LEMMA StepKeepsUnstarted ==
  ASSUME Ready, Handled, UnstartedNow, TriedNow
  PROVE  UnstartedNow'
<1>1. \A s \in Stages : Turns(s)
  BY HandledTurns
<1>2. ASSUME NEW s \in Stages
      PROVE  /\ stageState'[s] = "Gated" => pendingGate'[s] # "none"
             /\ WaitingNow(s)' => WaitingNow(s)
  BY <1>1 DEF Turns, UnstartedNow, WaitingNow
<1>3. ASSUME NEW c \in Cells, WaitingNow(c[1])' PROVE attemptsMade'[c] = 0
  <2>1. c[1] \in Stages /\ attemptsMade[c] = 0
    BY <1>2, <1>3, CellsFinite DEF UnstartedNow, StageCells
  <2>2. CASE attemptsMade' = attemptsMade
    BY <2>1, <2>2
  <2>3. CASE AdvanceRollback
    <3>1. PICK accepted \in SUBSET RollbackPending : Dispatch(accepted)
      BY <2>3 DEF AdvanceRollback, Acceptable
    <3>2. c \notin accepted
      BY <2>1, <3>1 DEF RollbackPending, TriedNow
    <3> QED  BY <2>1, <3>1, <3>2 DEF Dispatch
  <2>4. ASSUME NEW s \in Stages, NEW held, DispatchBatch(s, held) PROVE attemptsMade'[c] = 0
    <3>1. c[1] # s
      BY <1>3, <2>4, BatchIsOfStage DEF WaitingNow
    <3> QED  BY <2>1, <2>4, <3>1, BatchIsOfStage
  <2> QED  BY <2>2, <2>3, <2>4, WhoCounts
<1> QED  BY <1>2, <1>3 DEF UnstartedNow

LEMMA StepKeepsTried ==
  ASSUME Ready, Handled, TriedNow
  PROVE  TriedNow'
<1> SUFFICES ASSUME NEW c \in Cells, targetState'[c] # "Pending" PROVE attemptsMade'[c] > 0
  BY DEF TriedNow
<1>1. Shifts(c) /\ attemptsMade[c] \in Nat
  BY HandledShifts, ReadyIs DEF Effect, TypeOK
<1>2. targetState[c] # "Pending" => attemptsMade[c] > 0
  BY DEF TriedNow
<1>3. IsSent(c) => attemptsMade'[c] > 0
  BY <1>1 DEF IsSent
<1> QED  BY <1>1, <1>2, <1>3 DEF Shifts, Same, HasEnded, IsUndone, IsLost

LEMMA StepKeepsAttested ==
  ASSUME Ready, Handled, Reported, AttestedNow
  PROVE  AttestedNow'
<1> SUFFICES ASSUME NEW c \in Cells, targetState'[c] \in {"Succeeded", "RolledBack"}
             PROVE  [attempt |-> Current(c)', outcome |-> "completed"] \in reports'
  BY DEF AttestedNow
<1>1. Shifts(c) /\ reports \subseteq reports' /\ generation' = generation
  BY HandledShifts, HandledReports DEF Effect
<1>2. Same(c) \/ HasEnded(c)
  BY <1>1 DEF Shifts, IsSent, IsUndone, IsLost
<1>3. Current(c)' = Current(c)
  BY <1>1, <1>2 DEF Same, HasEnded, Current
<1>4. [attempt |-> Current(c), outcome |-> "completed"] \in reports
  BY <1>2 DEF Same, HasEnded, AttestedNow
<1> QED  BY <1>1, <1>3, <1>4

(* While the stages run, all work in flight is of the cursor's stage.       *)
LEMMA InFlightIsHere ==
  ASSUME Ready, TriedNow, rolloutState \notin Unwound, NEW c \in InFlight(targetState)
  PROVE  c \in Cells /\ c[1] = cursor
<1>1. c \in Cells /\ targetState[c] \in {"Dispatched", "Unknown"} /\ c[1] \in Stages /\ c \in StageCells(c[1])
  BY CellsFinite DEF InFlight, StageCells
<1>2. attemptsMade[c] > 0
  BY <1>1 DEF TriedNow
<1>3. c[1] <= cursor
  BY <1>1, <1>2 DEF Ready, CursorInv, WorkUpToCursor
<1>4. ~(c[1] < cursor)
  <2> SUFFICES ASSUME c[1] < cursor PROVE FALSE
    OBVIOUS
  <2>2. SteadyNow
    BY SensibleIs DEF Ready, SensibleNow
  <2>3. Settled(targetState, c[1])
    BY <1>1, <2>2 DEF SteadyNow, PassedNow
  <2>4. targetState[c] \in TerminalTarget
    BY <1>1, <2>3 DEF Settled, AllTerminal
  <2> QED  BY <1>1, <2>4 DEF TerminalTarget
<1>5. c[1] \in Int /\ cursor \in Int
  BY <1>1, Bounds, ReadyIs DEF TypeOK
<1> QED  BY <1>1, <1>3, <1>4, <1>5

LEMMA BatchKeepsLimits ==
  ASSUME Ready, TriedNow, LimitsHold, NEW s \in Stages, NEW held, DispatchBatch(s, held)
  PROVE  LimitsHold'
<1> DEFINE batch == PlanDispatch(Swept(s), attemptsMade, canaryCleared'[s], s)
           busy == InFlight(Swept(s))
<1>1. PICK accepted \in SUBSET batch :
        targetState' = [c \in Cells |-> IF c \in accepted THEN "Dispatched" ELSE Swept(s)[c]]
  BY DEF DispatchBatch, Acceptable
<1>2. batch \subseteq {c \in StageCells(s) : Swept(s)[c] = "Pending"}
  BY PlanStaysInStage
<1>3. s = cursor /\ rolloutState \notin Unwound
  BY BatchIsOfStage
<1> HIDE DEF batch
<1>4. SteadyNow
  BY <1>3, SensibleIs DEF Ready, SensibleNow
<1>5. ASSUME NEW c \in Cells
      PROVE  /\ Swept(s)[c] # "RollingBack"
             /\ Swept(s)[c] \in {"Dispatched", "Unknown"} =>
                  targetState[c] \in {"Dispatched", "Unknown"}
  <2>1. targetState[c] # "RollingBack"
    BY <1>4 DEF SteadyNow, Undone
  <2>2. Swept(s)[c] = targetState[c] \/ Swept(s)[c] \in {"Pending", "Cancelled", "Exhausted"}
    BY SweepShifts
  <2> QED  BY <2>1, <2>2
<1>6. busy \in SUBSET InFlight(targetState) /\ InFlight(targetState) \in SUBSET Cells
  BY <1>5 DEF InFlight
<1>7. Changing(Swept(s)) = busy
  BY <1>5 DEF Changing, CountsAsChanging, InFlight
<1>8. busy \subseteq StageCells(s)
  BY <1>3, <1>6, InFlightIsHere DEF StageCells
<1>9. InFlight(targetState') = busy \cup accepted
  BY <1>1, <1>2 DEF InFlight, StageCells
<1>10. FitsLimits(InFlight(targetState'))
  <2>1. CASE accepted = {}
    BY <1>6, <1>9, <2>1, FewerFitLimits DEF LimitsHold
  <2>2. CASE accepted # {}
    <3>1. FitsLimits(busy \cup accepted)
      BY <1>7, <1>8, <2>2, BatchFitsLimits DEF batch
    <3> QED  BY <1>9, <3>1
  <2> QED  BY <2>1, <2>2
<1> QED  BY <1>10 DEF LimitsHold

LEMMA StepKeepsLimits ==
  ASSUME Ready, Handled, TriedNow, LimitsHold
  PROVE  LimitsHold'
<1>1. ASSUME \A c \in Cells : targetState'[c] \in {"Dispatched", "Unknown"} =>
               targetState[c] \in {"Dispatched", "Unknown"}
      PROVE  LimitsHold'
  <2>1. /\ InFlight(targetState') \in SUBSET InFlight(targetState)
        /\ InFlight(targetState) \in SUBSET Cells
    BY <1>1 DEF InFlight
  <2>2. FitsLimits(InFlight(targetState'))
    BY <2>1, FewerFitLimits DEF LimitsHold
  <2> QED  BY <2>2 DEF LimitsHold
<1>2. CASE attemptsMade' = attemptsMade
  <2>1. ASSUME NEW c \in Cells
        PROVE  targetState'[c] \in {"Dispatched", "Unknown"} => targetState[c] \in {"Dispatched", "Unknown"}
    <3>1. Shifts(c)
      BY HandledShifts DEF Effect
    <3>2. ~IsSent(c)
      BY <1>2, ReadyIs, CellTypes DEF IsSent
    <3> QED  BY <3>1, <3>2 DEF Shifts, Same, HasEnded, IsUndone, IsLost, Undone
  <2> QED  BY <1>1, <2>1
<1>3. CASE AdvanceRollback
  <2>1. targetState' = targetState
    BY <1>3 DEF AdvanceRollback
  <2> QED  BY <1>1, <2>1
<1> QED  BY <1>2, <1>3, WhoCounts, BatchKeepsLimits

LEMMA StepKeepsCanary ==
  ASSUME Ready, Handled, TriedNow, CanaryBound
  PROVE  CanaryBound'
<1>1. ASSUME NEW s \in Stages, NEW held, DispatchBatch(s, held)
      PROVE  CanaryBound'
  BY <1>1, ReadyIs, BatchKeepsCanary
<1>2. ASSUME \A c \in Cells : attemptsMade'[c] > 0 => attemptsMade[c] > 0
      PROVE  CanaryBound'
  <2>1. CanaryFits(attemptsMade, canaryCleared)
    BY DEF CanaryBound, CanaryFits
  <2>2. CanaryFits(attemptsMade', canaryCleared')
    BY <1>2, <2>1, WhoCounts, FewerFitCanary
  <2> QED  BY <2>2 DEF CanaryBound, CanaryFits, Attempted
<1>3. CASE attemptsMade' = attemptsMade
  BY <1>2, <1>3
<1>4. CASE AdvanceRollback
  <2>1. PICK accepted \in SUBSET RollbackPending : Dispatch(accepted)
    BY <1>4 DEF AdvanceRollback, Acceptable
  <2>2. \A c \in Cells : attemptsMade'[c] > 0 => attemptsMade[c] > 0
    BY <2>1 DEF Dispatch, RollbackPending, TriedNow
  <2> QED  BY <1>2, <2>2
<1> QED  BY <1>1, <1>3, <1>4, WhoCounts

LEMMA HandledKeeps ==
  ASSUME Ready, Handled, Reported, PlanNow
  PROVE  PlanNow'
BY StepKeepsUnstarted, StepKeepsTried, StepKeepsAttested, StepKeepsLimits, StepKeepsCanary
   DEF PlanNow

(* A rollout none of whose cells was tried.                                 *)
LEMMA FreshIsKept ==
  ASSUME \A s \in Stages : stageState[s] = "Pending",
         \A c \in Cells : targetState[c] = "Pending" /\ attemptsMade[c] = 0
  PROVE  PlanNow
<1>1. UnstartedNow /\ TriedNow /\ AttestedNow
  BY DEF UnstartedNow, TriedNow, AttestedNow
<1>2. LimitsHold
  <2>1. InFlight(targetState) = {}
    BY DEF InFlight
  <2> QED  BY <2>1 DEF LimitsHold, FitsLimits
<1>3. CanaryBound
  <2>1. \A s \in Stages : Attempted(attemptsMade, s) = {}
    BY DEF Attempted, StageCells
  <2> QED  BY <2>1, FS_EmptySet, PolicyTypes DEF CanaryBound
<1> QED  BY <1>1, <1>2, <1>3 DEF PlanNow

LEMMA RegenerateKeeps ==
  ASSUME Reported, Regenerate
  PROVE  PlanNow' /\ reports \subseteq reports' /\ Reported'
<1>1. /\ \A s \in Stages : stageState'[s] = "Pending"
      /\ \A c \in Cells : targetState'[c] = "Pending" /\ attemptsMade'[c] = 0
      /\ UNCHANGED <<issued, reports>>
  BY DEF Regenerate, planeVars
<1>2. ((\A s \in Stages : stageState[s] = "Pending")
         /\ (\A c \in Cells : targetState[c] = "Pending" /\ attemptsMade[c] = 0) => PlanNow)'
  BY FreshIsKept, PTL
<1> QED  BY <1>1, <1>2 DEF Reported

LEMMA StepKeeps ==
  ASSUME Ready, Handled \/ Regenerate, Reported, PlanNow
  PROVE  PlanNow' /\ reports \subseteq reports' /\ Reported'
BY HandledKeeps, HandledReports, RegenerateKeeps

(* A snapshot written on the way of a step that dispatches nothing: each of *)
(* its targets is as the step finds or leaves it, and no stage has moved    *)
(* back in front of its entry gate.                                         *)
Partial(m) ==
  /\ m.generation = generation /\ m.attemptsMade = attemptsMade
  /\ \A s \in Stages : /\ canaryCleared[s] => m.canaryCleared[s]
                       /\ m.stageState[s] = "Gated" => m.pendingGate[s] # "none"
                       /\ Waiting(m, s) => WaitingNow(s)
  /\ \A c \in Cells : m.targetState[c] \in {targetState[c], targetState'[c]}

LEMMA PartialIsKept ==
  ASSUME Ready, Handled, Reported, PlanNow, attemptsMade' = attemptsMade, NEW m, Partial(m)
  PROVE  KeepsPlan(m, reports')
<1>s. PlanNow' /\ reports \subseteq reports' /\ generation' = generation
  BY HandledKeeps, HandledReports, HandledShifts DEF Effect
<1>1. Unstarted(m)
  <2>1. ASSUME NEW c \in Cells, Waiting(m, c[1]) PROVE m.attemptsMade[c] = 0
    <3>1. c[1] \in Stages
      BY CellsFinite
    <3>2. WaitingNow(c[1])
      BY <2>1, <3>1 DEF Partial
    <3> QED  BY <3>2 DEF Partial, PlanNow, UnstartedNow
  <2> QED  BY <2>1 DEF Partial, Unstarted
<1>2. Tried(m)
  <2> SUFFICES ASSUME NEW c \in Cells, m.targetState[c] # "Pending" PROVE attemptsMade[c] > 0
    BY DEF Tried, Partial
  <2>1. targetState[c] # "Pending" \/ targetState'[c] # "Pending"
    BY DEF Partial
  <2> QED  BY <1>s, <2>1 DEF PlanNow, TriedNow
<1>3. Attested(m, reports')
  <2> SUFFICES ASSUME NEW c \in Cells, m.targetState[c] \in {"Succeeded", "RolledBack"}
               PROVE  [attempt |-> Current(c), outcome |-> "completed"] \in reports'
    BY DEF Attested, Partial, Current
  <2>1. Current(c)' = Current(c)
    BY <1>s DEF Current
  <2>2. CASE m.targetState[c] = targetState[c]
    BY <1>s, <2>2 DEF PlanNow, AttestedNow
  <2>3. CASE m.targetState[c] = targetState'[c]
    BY <1>s, <2>1, <2>3 DEF PlanNow, AttestedNow
  <2> QED  BY <2>2, <2>3 DEF Partial
<1>4. FitsLimits(InFlight(m.targetState))
  <2>1. ASSUME NEW c \in Cells, targetState'[c] \in {"Dispatched", "Unknown"}
        PROVE  targetState[c] \in {"Dispatched", "Unknown"}
    <3>1. Shifts(c)
      BY HandledShifts DEF Effect
    <3>2. ~IsSent(c)
      BY ReadyIs, CellTypes DEF IsSent
    <3> QED  BY <2>1, <3>1, <3>2 DEF Shifts, Same, HasEnded, IsUndone, IsLost, Undone
  <2>2. /\ InFlight(m.targetState) \in SUBSET InFlight(targetState)
        /\ InFlight(targetState) \in SUBSET Cells
    BY <2>1 DEF InFlight, Partial
  <2> QED  BY <2>2, FewerFitLimits DEF PlanNow, LimitsHold
<1>5. CanaryFits(m.attemptsMade, m.canaryCleared)
  <2>1. CanaryFits(attemptsMade, canaryCleared)
    BY DEF PlanNow, CanaryBound, CanaryFits
  <2> QED  BY <2>1, FewerFitCanary DEF Partial
<1> QED  BY <1>1, <1>2, <1>3, <1>4, <1>5 DEF KeepsPlan, Bounded

LEMMA WaitingStages ==
  ASSUME Ready, Handled, NEW s \in Stages
  PROVE  WaitingNow(s)' => WaitingNow(s)
<1>1. Turns(s)
  BY HandledTurns
<1> QED  BY <1>1 DEF Turns, WaitingNow

LEMMA TwoWritesArePartial ==
  ASSUME Ready, Ready', MovesStage, UnstartedNow, UnstartedNow',
         NEW m \in {StageOnly, Unmarked} \cup Halfway
  PROVE  Partial(m)
<1>t. /\ TypeOK /\ TypeOK' /\ Handled /\ attemptsMade' = attemptsMade
      /\ stageState' \in [Stages -> StageStates] /\ generation' = generation
  BY HandledShifts DEF Ready, CursorInv, MovesStage, Quiet, Effect, TypeOK
<1>c. /\ \A s \in Stages : canaryCleared[s] => canaryCleared'[s]
      /\ Unmarked.canaryCleared = canaryCleared' /\ StageOnly.canaryCleared = canaryCleared'
  BY <1>t, WhoCounts DEF Unmarked, StageOnly, Snapshot
<1>w. OnTheWay(m)
  BY TwoWritesAreSound
<1>m. /\ m.generation = generation /\ m.attemptsMade = attemptsMade
      /\ \A c \in Cells : m.targetState[c] \in {targetState[c], targetState'[c]}
  BY <1>t, <1>w DEF OnTheWay, Before
<1>n. \A s \in Stages : /\ stageState'[s] = "Gated" => pendingGate'[s] # "none"
                        /\ WaitingNow(s)' => WaitingNow(s)
  BY <1>t, WaitingStages DEF UnstartedNow
<1>1. CASE m \in {StageOnly, Unmarked}
  <2>1. /\ m.stageState = stageState' /\ m.pendingGate = pendingGate'
        /\ m.canaryCleared = canaryCleared'
    BY <1>1, <1>t, <1>c, UnmarkedIs
  <2>2. \A s \in Stages : Waiting(m, s) => WaitingNow(s)'
    BY <2>1 DEF Waiting, WaitingNow
  <2> QED  BY <1>c, <1>m, <1>n, <2>1, <2>2 DEF Partial
<1>2. ASSUME NEW s \in Stages, stageState[s] = "Pending", stageState'[s] # "Pending",
             m = [StageOnly EXCEPT !.stageState[s] = "Armed", !.pendingGate = pendingGate]
      PROVE  Partial(m)
  <2> DEFINE ss == [stageState' EXCEPT ![s] = "Armed"]
  <2>0. m = [StageOnly EXCEPT !.stageState = ss, !.pendingGate = pendingGate]
    BY <1>2, <1>t, UnmarkedIs
  <2>1. /\ m.stageState = ss /\ m.pendingGate = pendingGate
        /\ m.canaryCleared = canaryCleared'
    <3> HIDE DEF ss
    <3> QED  BY <2>0 DEF StageOnly, Unmarked, Snapshot
  <2>2. \A r \in Stages : r # s => m.stageState[r] = stageState[r]
    BY <1>2, <1>t, <2>1 DEF MovesStage
  <2>3. m.stageState[s] = "Armed" /\ WaitingNow(s)
    BY <1>2, <1>t, <2>1 DEF WaitingNow
  <2>4. ASSUME NEW r \in Stages
        PROVE  /\ m.stageState[r] = "Gated" => m.pendingGate[r] # "none"
               /\ Waiting(m, r) => WaitingNow(r)
    BY <2>1, <2>2, <2>3 DEF Waiting, WaitingNow, UnstartedNow
  <2> QED  BY <1>c, <1>m, <2>1, <2>4 DEF Partial
<1>3. ASSUME NEW s \in Stages, m = [StageOnly EXCEPT !.stageState[s] = "Advancing"]
      PROVE  Partial(m)
  <2> DEFINE ss == [stageState' EXCEPT ![s] = "Advancing"]
  <2>0. m = [StageOnly EXCEPT !.stageState = ss]
    BY <1>3, <1>t, UnmarkedIs
  <2>1. /\ m.stageState = ss /\ m.pendingGate = pendingGate'
        /\ m.canaryCleared = canaryCleared'
    <3> HIDE DEF ss
    <3> QED  BY <2>0 DEF StageOnly, Unmarked, Snapshot
  <2>2. m.stageState[s] = "Advancing" /\ \A r \in Stages : r # s => m.stageState[r] = stageState'[r]
    BY <1>t, <2>1
  <2>3. ASSUME NEW r \in Stages
        PROVE  /\ m.stageState[r] = "Gated" => m.pendingGate[r] # "none"
               /\ Waiting(m, r) => WaitingNow(r)'
    BY <1>n, <2>1, <2>2 DEF Waiting, WaitingNow
  <2> QED  BY <1>c, <1>m, <1>n, <2>1, <2>3 DEF Partial
<1> QED  BY <1>1, <1>2, <1>3 DEF Halfway

LEMMA AbortWritesArePartial ==
  ASSUME Ready, UnstartedNow, NEW s \in 1..(NumStages + 1)
  PROVE  Partial([Snapshot EXCEPT !.rolloutState = "Aborting",
                    !.stageState = [r \in Stages |->
                       IF r < s THEN AbortedStage(stageState[r]) ELSE stageState[r]]])
<1> DEFINE ss == [r \in Stages |->
                    IF r < s THEN AbortedStage(stageState[r]) ELSE stageState[r]]
           m == [Snapshot EXCEPT !.rolloutState = "Aborting", !.stageState = ss]
<1>1. \A r \in Stages : ss[r] \in {stageState[r], "Skipped", "Aborted"}
  BY DEF AbortedStage
<1> HIDE DEF ss
<1>2. /\ m.stageState = ss /\ m.pendingGate = pendingGate /\ m.canaryCleared = canaryCleared
      /\ m.generation = generation /\ m.attemptsMade = attemptsMade /\ m.targetState = targetState
  BY DEF Snapshot
<1> HIDE DEF m
<1>3. Partial(m)
  BY <1>1, <1>2 DEF Partial, Waiting, WaitingNow, UnstartedNow
<1> QED  BY <1>3 DEF m, ss

LEMMA RollbackWritesArePartial ==
  ASSUME Ready, UnstartedNow, FinishRollback, NEW s \in 1..(NumStages + 1)
  PROVE  Partial([Snapshot EXCEPT !.stageState = [r \in Stages |->
                    IF r < s THEN stageState'[r] ELSE stageState[r]]])
<1> DEFINE ss == [r \in Stages |-> IF r < s THEN stageState'[r] ELSE stageState[r]]
           m == [Snapshot EXCEPT !.stageState = ss]
<1>1. \A r \in Stages : ss[r] \in {stageState[r], "RolledBack"}
  BY DEF FinishRollback
<1> HIDE DEF ss
<1>2. /\ m.stageState = ss /\ m.pendingGate = pendingGate /\ m.canaryCleared = canaryCleared
      /\ m.generation = generation /\ m.attemptsMade = attemptsMade /\ m.targetState = targetState
  BY DEF Snapshot
<1> HIDE DEF m
<1>3. Partial(m)
  BY <1>1, <1>2 DEF Partial, Waiting, WaitingNow, UnstartedNow
<1> QED  BY <1>3 DEF m, ss

(* What a step leaves in the journal.                                       *)
Leaves ==
  \/ saved' = saved \/ saved' = Snapshot'
  \/ Handled /\ attemptsMade' = attemptsMade /\ Partial(saved')

LEMMA TwoWritesLeave ==
  ASSUME Ready, PlanNow, Reported, MovesStage,
         WritesTwice
  PROVE  Leaves
<1>1. CASE Saves
  BY <1>1 DEF Saves, Leaves
<1>2. CASE ~Saves
  <2>1. Handled /\ attemptsMade' = attemptsMade /\ Ready' /\ PlanNow'
    BY StepKeepsReady, HandledKeeps DEF MovesStage, Quiet
  <2>2. saved' \in {StageOnly, Unmarked} \cup Halfway
    BY <1>2 DEF DiesWith, WritesTwice, SavesStage
  <2>3. Partial(saved')
    BY <2>1, <2>2, TwoWritesArePartial DEF PlanNow
  <2> QED  BY <2>1, <2>3 DEF Leaves
<1> QED  BY <1>1, <1>2

LEMMA AbortsLeave ==
  ASSUME Ready, PlanNow, Reported, Aborts
  PROVE  Leaves
<1>0. Abort /\ Handled
  BY DEF Aborts, Abort, rolloutVars, Handled, Command
<1>1. /\ Ready' /\ PlanNow' /\ generation' = generation /\ TypeOK /\ TypeOK'
      /\ attemptsMade' = attemptsMade /\ UNCHANGED <<canaryCleared, attemptsMade>>
  BY <1>0, StepKeepsReady, HandledKeeps, HandledShifts
     DEF Effect, Abort, Ready, CursorInv
<1>2. CASE Saves
  BY <1>2 DEF Saves, Leaves
<1>3. CASE saved' = Unmarked
  <2>1. OnTheWay(Unmarked) /\ Unmarked.stageState = stageState' /\ Unmarked.pendingGate = pendingGate'
    BY <1>1, UnmarkedIs
  <2>2. Unmarked.canaryCleared = canaryCleared
    BY <1>1 DEF Unmarked, Snapshot
  <2>3. /\ Unmarked.generation = generation /\ Unmarked.attemptsMade = attemptsMade
        /\ \A c \in Cells : Unmarked.targetState[c] \in {targetState[c], targetState'[c]}
    BY <1>1, <2>1 DEF OnTheWay, Before
  <2>4. \A s \in Stages : /\ stageState'[s] = "Gated" => pendingGate'[s] # "none"
                          /\ WaitingNow(s)' => WaitingNow(s)
    BY <1>0, <1>1, WaitingStages DEF PlanNow, UnstartedNow
  <2>5. Partial(Unmarked)
    BY <2>1, <2>2, <2>3, <2>4 DEF Partial, Waiting, WaitingNow
  <2> QED  BY <1>0, <1>1, <1>3, <2>5 DEF Leaves
<1>4. ASSUME NEW s \in 1..(NumStages + 1),
             saved' = [Snapshot EXCEPT !.rolloutState = "Aborting",
                         !.stageState = [r \in Stages |->
                            IF r < s THEN AbortedStage(stageState[r]) ELSE stageState[r]]]
      PROVE  Leaves
  BY <1>0, <1>1, <1>4, AbortWritesArePartial DEF Leaves, PlanNow
<1> QED  BY <1>2, <1>3, <1>4 DEF Aborts, DiesWith

LEMMA FinishesLeave ==
  ASSUME Ready, PlanNow, FinishesRollback
  PROVE  Leaves
<1>0. FinishRollback /\ Handled /\ attemptsMade' = attemptsMade
  BY DEF FinishesRollback, FinishRollback, targetVars, Handled, Advance
<1>1. CASE Saves
  BY <1>1 DEF Saves, Leaves
<1>2. ASSUME NEW s \in 1..(NumStages + 1),
             saved' = [Snapshot EXCEPT !.stageState = [r \in Stages |->
                         IF r < s THEN stageState'[r] ELSE stageState[r]]]
      PROVE  Leaves
  BY <1>0, <1>2, RollbackWritesArePartial DEF Leaves, PlanNow
<1> QED  BY <1>1, <1>2 DEF FinishesRollback, DiesWith

LEMMA CommandLeaves ==
  ASSUME Ready, PlanNow, Reported, RecoveredCommand
  PROVE  Leaves
<1>1. CASE Once(Arm) \/ Once(Start) \/ Once(Pause) \/ Once(Resume) \/ Once(AbortInterrupted)
           \/ Once(Retire) \/ Once(Regenerate)
  BY <1>1 DEF Once, Saves, Leaves
<1>2. CASE Aborts
  BY <1>2, AbortsLeave
<1>3. ASSUME NEW s \in Stages, Twice(ApproveEntry(s)) \/ Twice(ApproveCompletion(s))
      PROVE  Leaves
  BY <1>3, ApprovalMovesStage, TwoWritesLeave DEF Twice
<1>4. ASSUME NEW s \in Stages, \/ Unwritten(ApproveTooLate(s) /\ ~PredecessorUndone(s))
                                \/ Once(ApproveUndone(s))
      PROVE  Leaves
  BY <1>4 DEF Unwritten, Once, Saves, Leaves
<1> QED  BY <1>1, <1>2, <1>3, <1>4 DEF RecoveredCommand

LEMMA AdvanceLeaves ==
  ASSUME Ready, PlanNow, Reported, RecoveredAdvance
  PROVE  Leaves
<1>1. CASE Unwritten(AdvanceIdle) \/ Unwritten(ResumeGated) \/ Sends(AdvanceRollback)
           \/ Once(ResumeArmed) \/ Once(ResumeFinished)
           \/ Once(ResumeSucceeded /\ ~LeavesCursor) \/ Unwritten(ResumeSucceeded /\ LeavesCursor)
  BY <1>1 DEF Unwritten, Sends, DiesWith, Once, Saves, Leaves
<1>2. CASE FinishesRollback
  BY <1>2, FinishesLeave
<1>3. CASE Twice(ResumeAdvancing) \/ Twice(ResumeFailed)
  BY <1>3, ResumesMoveStage, TwoWritesLeave DEF Twice
<1>4. ASSUME NEW s \in Stages, NEW held \in HealthHolds(s),
             Twice(BeginStage(s)) \/ Twice(FailRunningStage(s)) \/ Twice(StartSoak(s, held))
      PROVE  Leaves
  BY <1>4, TickMovesStage, TwoWritesLeave DEF Twice
<1>5. ASSUME NEW s \in Stages, NEW held \in HealthHolds(s),
             Sends(DispatchBatch(s, held)) \/ Once(HoldStage(s, held))
      PROVE  Leaves
  BY <1>5 DEF Sends, DiesWith, Once, Saves, Leaves
<1>6. ASSUME NEW s \in Stages, NEW held \in HealthHolds(s), CompleteStage(s, held),
             IF stageState' = stageState
             THEN controller' = "up" /\ UNCHANGED <<saved, crashes>>
             ELSE WritesTwice
      PROVE  Leaves
  <2>1. MovesStage
    BY <1>6, TickMovesStage
  <2>2. CASE stageState' = stageState
    BY <1>6, <2>2 DEF Leaves
  <2>3. CASE stageState' # stageState
    BY <1>6, <2>1, <2>3, TwoWritesLeave
  <2> QED  BY <2>2, <2>3
<1>7. \A s \in Stages : HealthHolds(s) # {}
  BY DEF HealthHolds
<1> QED  BY <1>1, <1>2, <1>3, <1>4, <1>5, <1>6, <1>7 DEF RecoveredAdvance

LEMMA WhatIsLeftIsKept ==
  ASSUME Ready, Handled \/ Regenerate, Reported, PlanNow, KeepsPlan(saved, reports), Leaves
  PROVE  KeepsPlan(Snapshot', reports') /\ KeepsPlan(saved', reports') /\ Reported'
<1>1. PlanNow' /\ reports \subseteq reports' /\ Reported'
  BY StepKeeps
<1>2. KeepsPlan(Snapshot', reports')
  BY <1>1, PlanNextIs
<1>3. CASE saved' = saved
  <2>1. KeepsPlan(saved, reports')
    BY <1>1 DEF KeepsPlan, Attested
  <2> QED  BY <1>1, <1>2, <1>3, <2>1
<1>4. CASE saved' = Snapshot'
  BY <1>1, <1>2, <1>4
<1>5. CASE Handled /\ attemptsMade' = attemptsMade /\ Partial(saved')
  BY <1>1, <1>2, <1>5, PartialIsKept
<1> QED  BY <1>3, <1>4, <1>5 DEF Leaves

(* restore(): the rollout is as its snapshot has it, and what the plane     *)
(* still knows includes the reports on every attempt the snapshot counts.   *)
LEMMA RestoredIsKept ==
  ASSUME Ready, Sound(saved), KeepsPlan(saved, reports), Reported, Restart
  PROVE  KeepsPlan(Snapshot', reports') /\ KeepsPlan(saved', reports') /\ Reported'
<1>1. /\ saved' = saved /\ stageState' = saved.stageState /\ pendingGate' = saved.pendingGate
      /\ canaryCleared' = saved.canaryCleared /\ generation' = saved.generation
      /\ targetState' = saved.targetState /\ attemptsMade' = saved.attemptsMade
  BY DEF Restart, Made
<1>2. /\ reports' = {r \in reports : r.attempt \in issued'}
      /\ issued' = {a \in issued : \/ a.gen < saved.generation
                                   \/ a.gen = saved.generation /\ a.epoch <= saved.attemptsMade[a.cell]}
  BY DEF Restart, Made
<1>3. Attested(saved, reports')
  <2> SUFFICES ASSUME NEW c \in Cells, saved.targetState[c] \in {"Succeeded", "RolledBack"}
               PROVE  [attempt |-> [gen |-> saved.generation, cell |-> c,
                                    epoch |-> saved.attemptsMade[c]],
                       outcome |-> "completed"] \in reports'
    BY DEF Attested
  <2> DEFINE a == [gen |-> saved.generation, cell |-> c, epoch |-> saved.attemptsMade[c]]
             r == [attempt |-> a, outcome |-> "completed"]
  <2>1. r \in reports
    BY DEF KeepsPlan, Attested
  <2>2. r.attempt = a /\ a.gen = saved.generation /\ a.cell = c /\ a.epoch = saved.attemptsMade[c]
    OBVIOUS
  <2>3. saved.attemptsMade[c] \in Nat
    BY DEF Sound, Records
  <2> HIDE DEF r, a
  <2>4. a \in issued
    BY <2>1, <2>2 DEF Reported
  <2>5. a \in issued'
    BY <1>2, <2>2, <2>3, <2>4
  <2>6. r \in reports'
    BY <1>2, <2>1, <2>2, <2>5
  <2> QED  BY <2>6 DEF r, a
<1>4. KeepsPlan(saved', reports')
  BY <1>1, <1>3 DEF KeepsPlan
<1>5. PlanNow'
  <2>1. \A s \in Stages : WaitingNow(s)' <=> Waiting(saved, s)
    BY <1>1 DEF Waiting, WaitingNow
  <2>2. UnstartedNow'
    <3>1. \A c \in Cells : c[1] \in Stages
      BY CellsFinite
    <3> QED  BY <1>1, <2>1, <3>1 DEF KeepsPlan, Unstarted, UnstartedNow
  <2>3. TriedNow' /\ AttestedNow'
    BY <1>1, <1>3 DEF KeepsPlan, Tried, TriedNow, Attested, AttestedNow, Current
  <2>4. LimitsHold' /\ CanaryBound'
    BY <1>1 DEF KeepsPlan, Bounded, LimitsHold, CanaryFits, CanaryBound, Attempted
  <2> QED  BY <2>2, <2>3, <2>4 DEF PlanNow
<1>6. Reported'
  BY <1>2 DEF Reported
<1> QED  BY <1>4, <1>5, <1>6, PlanNextIs

LEMMA InitPlanInv == RecoveryInit => PlanInv
<1> SUFFICES ASSUME RecoveryInit PROVE PlanInv
  OBVIOUS
<1>1. PlanNow
  BY FreshIsKept DEF RecoveryInit, Init
<1>2. KeepsPlan(Snapshot, reports) /\ saved = Snapshot
  BY <1>1, PlanNowIs DEF RecoveryInit
<1>3. Reported
  BY DEF RecoveryInit, Init, Reported
<1> QED  BY <1>2, <1>3, InitRecoveryInv DEF PlanInv

LEMMA StepKeepsPlan ==
  ASSUME PlanInv, [RecoveryNext]_allVars
  PROVE  PlanInv'
<1>0. /\ Ready /\ Sound(saved) /\ Written /\ Reported
      /\ PlanNow /\ KeepsPlan(Snapshot, reports) /\ KeepsPlan(saved, reports)
  BY PlanNowIs DEF PlanInv, RecoveryInv, Ready
<1>r. RecoveryInv'
  BY StepKeepsRecovery DEF PlanInv
<1>1. ASSUME KeepsPlan(Snapshot', reports'), KeepsPlan(saved', reports'), Reported' PROVE PlanInv'
  <2>1. (KeepsPlan(Snapshot, reports) /\ KeepsPlan(saved, reports))'
    BY <1>1 DEF KeepsPlan, Unstarted, Waiting, Tried, Attested, Bounded
  <2> QED  BY <1>r, <1>1, <2>1 DEF PlanInv
<1>2. ASSUME Handled \/ Regenerate, Leaves PROVE PlanInv'
  BY <1>0, <1>1, <1>2, WhatIsLeftIsKept
<1>3. CASE Up(Drain) \/ Up(Once(Reconcile))
  BY <1>2, <1>3 DEF Up, Drain, Once, DrainEvidence, Saves, Handled, Leaves
<1>4. CASE Up(RecoveredCommand)
  BY <1>0, <1>2, <1>4, CommandIsJournalled, CommandLeaves DEF Up
<1>5. CASE Up(RecoveredAdvance)
  BY <1>0, <1>2, <1>5, AdvanceIsJournalled, AdvanceLeaves DEF Up
<1>6. CASE Up(Unwritten(Environment))
  BY <1>2, <1>6 DEF Up, Unwritten, Handled, Leaves
<1>7. CASE Up(Crash) \/ RestartWithout \/ UNCHANGED allVars
  <2>1. /\ UNCHANGED <<rolloutVars, stageVars, targetVars, attemptVars, planeVars>>
        /\ saved' = saved
    BY <1>7 DEF Up, Crash, DiesWith, RestartWithout, allVars, recoveryVars, vars
  <2>2. /\ UNCHANGED <<issued, reports>> /\ Snapshot' = Snapshot
    BY <2>1 DEF rolloutVars, stageVars, targetVars, attemptVars, planeVars, Snapshot, Named, Current
  <2> QED  BY <1>0, <1>1, <2>1, <2>2 DEF Reported
<1>8. CASE Restart
  BY <1>0, <1>1, <1>8, RestoredIsKept
<1> QED  BY <1>3, <1>4, <1>5, <1>6, <1>7, <1>8 DEF RecoveryNext

(* Wherever a handler dies, and whatever the plane does meanwhile, the      *)
(* snapshot it leaves keeps to the plan, and what is restored from it does. *)
THEOREM PlanInvariant == RecoverySpec => []PlanInv
<1>1. PlanInv /\ [RecoveryNext]_allVars => PlanInv'
  BY StepKeepsPlan
<1> QED  BY <1>1, InitPlanInv, PTL DEF RecoverySpec

(* After any restart outstanding_attempts counts the attempts restore()     *)
(* rebuilt, each its target's last, no target waits for one it did not, and *)
(* a target counted as done was reported so for its last attempt.           *)
THEOREM LedgerIsRestored == RecoverySpec => []RestoredLedger
<1>1. PlanInv => RestoredLedger
  <2> SUFFICES ASSUME PlanInv PROVE RestoredLedger
    OBVIOUS
  <2>1. \A a \in open : a.gen = generation => a = Current(a.cell) /\ a.cell \in Cells
    BY DEF PlanInv, RecoveryInv, Tallied, OpenIsLast, RecoveryTypeOK, TypeOK, Attempts
  <2>2. AttestedNow
    BY PlanNowIs DEF PlanInv, PlanNow
  <2> QED  BY <2>1, <2>2 DEF PlanInv, RecoveryInv, Tallied, OutstandingCounts, OpenNow,
                             RestoredLedger, CountsAsChanging, AttestedNow
<1> QED  BY <1>1, PlanInvariant, PTL

LEMMA CompletedHasNothingLeft ==
  ASSUME RecoveryInv
  PROVE  CompletedIsSettled
<1> SUFFICES ASSUME rolloutState = "Completed"
             PROVE  /\ \A s \in Stages : stageState[s] = "Succeeded"
                    /\ \A c \in Cells : targetState[c] \in {"Succeeded", "Cancelled", "Exhausted"}
                    /\ \A s \in Stages :
                         Cardinality({c \in StageCells(s) : targetState[c] = "Exhausted"})
                           <= Policy[s].failureBudget
                    /\ \A a \in open : a.gen # generation
  BY DEF CompletedIsSettled
<1>1. Ready /\ SensibleNow /\ SteadyNow /\ CursorInv /\ \A s \in Stages : s < cursor
  BY Bounds, SensibleIs DEF RecoveryInv, Ready, SensibleNow, Unwound
<1>2. \A s \in Stages : stageState[s] = "Succeeded" /\ Settled(targetState, s)
  BY <1>1 DEF SteadyNow, PassedNow, CursorInv, StagesAroundCursor
<1>3. \A c \in Cells : targetState[c] \in {"Succeeded", "Cancelled", "Exhausted"}
  <2> TAKE c \in Cells
  <2>1. c[1] \in Stages /\ c \in StageCells(c[1])
    BY CellsFinite DEF StageCells
  <2>2. targetState[c] \in TerminalTarget
    BY <1>2, <2>1 DEF Settled, AllTerminal
  <2> QED  BY <1>1, <2>2 DEF TerminalTarget, SteadyNow, SensibleNow, Undone
<1>4. \A a \in open : a.gen # generation
  <2> SUFFICES ASSUME NEW a \in open, a.gen = generation PROVE FALSE
    OBVIOUS
  <2>1. a = Current(a.cell) /\ a.cell \in Cells
    BY <1>1, ReadyIs DEF OpenIsLast, TypeOK, Attempts
  <2>2. targetState[a.cell] \in {"Dispatched", "Unknown", "RollingBack"}
    BY <1>1, <2>1, ReadyIs
  <2> QED  BY <1>3, <2>1, <2>2
<1> QED  BY <1>2, <1>3, <1>4, SettledIsInBudget

LEMMA GatesStillHold ==
  ASSUME PlanInv
  PROVE  GateHoldsWork
<1>0. Ready /\ UnstartedNow
  BY PlanNowIs DEF PlanInv, RecoveryInv, Ready, PlanNow
<1> SUFFICES ASSUME NEW s \in Stages, stageState[s] = "Gated"
             PROVE  /\ pendingGate[s] # "none" /\ Live(s) = {}
                    /\ \A c \in Cells : attemptsMade[c] > 0 =>
                          c[1] <= s /\ (c[1] = s => pendingGate[s] # "entry")
  BY DEF GateHoldsWork
<1>1. s = cursor /\ rolloutState \notin Unwound
  BY <1>0, GatedIsHere
<1>2. pendingGate[s] \in {"entry", "evidence", "advance"}
  BY <1>0, ReadyIs DEF UnstartedNow, TypeOK, Gates
<1>3. ASSUME NEW c \in Cells, attemptsMade[c] > 0
      PROVE  c[1] <= s /\ (c[1] = s => pendingGate[s] # "entry")
  <2>1. c[1] <= s
    BY <1>0, <1>1, <1>3 DEF Ready, CursorInv, WorkUpToCursor
  <2>2. c[1] = s => ~WaitingNow(s)
    <3>1. attemptsMade[c] # 0
      BY <1>3
    <3> QED  BY <1>0, <3>1 DEF UnstartedNow
  <2> QED  BY <2>1, <2>2 DEF WaitingNow
<1>4. Live(s) = {}
  <2> SUFFICES ASSUME NEW c \in Live(s) PROVE FALSE
    OBVIOUS
  <2>1. /\ c \in Cells /\ c \in StageCells(s) /\ c[1] = s
        /\ targetState[c] \in {"Dispatched", "Unknown", "RollingBack"}
    BY <1>0, ReadyIs DEF Live, StageCells
  <2>2. SteadyNow
    BY <1>0, <1>1, SensibleIs DEF Ready, SensibleNow
  <2>3. targetState[c] \in {"Dispatched", "Unknown"}
    BY <2>1, <2>2 DEF SteadyNow, Undone
  <2>4. pendingGate[s] # "entry"
    <3>1. PlanNow
      BY PlanNowIs DEF PlanInv
    <3>2. attemptsMade[c] > 0
      BY <2>1, <2>3, <3>1 DEF PlanNow, TriedNow
    <3> QED  BY <1>3, <2>1, <3>2
  <2>5. Settled(targetState, s)
    BY <1>2, <2>2, <2>4 DEF SteadyNow, PassedNow
  <2>6. targetState[c] \in TerminalTarget
    BY <2>1, <2>5 DEF Settled, AllTerminal
  <2> QED  BY <2>3, <2>6 DEF TerminalTarget
<1> QED  BY <1>2, <1>3, <1>4

(* The plan is followed across any death: stages in order, nothing behind a *)
(* gate, a completed rollout settled, and the limits and the canary kept by *)
(* what a new incarnation dispatches on top of what it inherits.            *)
THEOREM PlanIsKept == RecoverySpec => []PlanSurvives
<1>1. PlanInv => PlanSurvives
  <2> SUFFICES ASSUME PlanInv PROVE PlanSurvives
    OBVIOUS
  <2>1. StagesInOrder /\ CompletedIsSettled
    BY CursorKeepsOrder, CompletedHasNothingLeft DEF PlanInv, RecoveryInv
  <2>2. LimitsHold /\ CanaryBound
    BY PlanNowIs DEF PlanInv, PlanNow
  <2> QED  BY <2>1, <2>2, GatesStillHold DEF PlanSurvives
<1> QED  BY <1>1, PlanInvariant, PTL
=============================================================================
