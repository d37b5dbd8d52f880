--------------------------- MODULE RolloutSafety ---------------------------
(***************************************************************************)
(* What one rollout promises within a controller incarnation.  Each         *)
(* property is about several handlers at once: which of them could break    *)
(* it, and in which order, is what its comment says.                        *)
(***************************************************************************)
EXTENDS Rollout

(* The variables' types: in particular outstanding_attempts never wraps and *)
(* the cursor never runs more than one past the last stage.                 *)
TypeOK ==
  /\ rolloutState \in RolloutStates /\ resumeState \in RolloutStates
  /\ cursor \in 1..(NumStages + 1)
  /\ generation \in 1..MaxGeneration
  /\ outstanding \in Nat
  /\ stageState \in [Stages -> StageStates]
  /\ pendingGate \in [Stages -> Gates]
  /\ canaryCleared \in [Stages -> BOOLEAN]
  /\ dispatchedTotal \in [Stages -> Nat]
  /\ soak \in [Stages -> SoakStates]
  /\ targetState \in [Cells -> TargetStates]
  /\ attemptsMade \in [Cells -> Nat]
  /\ rollbackStep \in [Cells -> Nat]
  /\ open \subseteq Attempts /\ cancelled \subseteq Attempts
  /\ overdue \subseteq Attempts /\ issued \subseteq Attempts
  /\ reports \subseteq Reports
  /\ draining \in BOOLEAN /\ halted \in BOOLEAN

(* The bookkeeping of attempts agrees with the targets after any order of   *)
(* dispatches, refusals, late and repeated reports, deadlines, cancels and  *)
(* regenerations: an unfinished attempt of this generation is its target's  *)
(* last one and the target is changing; a dispatched target has a live      *)
(* attempt (or it would wait for ever); outstanding_attempts counts them.   *)
AttemptLedger ==
  /\ outstanding = Cardinality({a \in open : a.gen = generation})
  /\ \A a \in open : a.gen = generation =>
        a = Current(a.cell) /\ targetState[a.cell] \in {"Dispatched", "RollingBack"}
  /\ \A c \in Cells : targetState[c] = "Dispatched" => Current(c) \in open

(* "Dispatch is not completion" and "a cancelled attempt can never later    *)
(* publish a success" (README): a target counted as changed, or as restored,*)
(* was reported completed for its last attempt in this generation, and that *)
(* attempt was not cancelled.  A report for an earlier attempt, another     *)
(* generation or a cancelled attempt must not get through the fences.       *)
SuccessIsAttested ==
  \A c \in Cells : targetState[c] \in {"Succeeded", "RolledBack"} =>
    /\ [attempt |-> Current(c), outcome |-> "completed"] \in reports
    /\ Current(c) \notin cancelled

(* Within a generation every step moves a target along the closed target    *)
(* table: no report, sweep, abort or compensation resurrects a target that  *)
(* reached a terminal state, though several handlers assign target.state    *)
(* without consulting legal_transition.                                     *)
TargetTableHolds ==
  [][generation' = generation =>
       \A c \in Cells : LegalTarget(targetState[c], targetState'[c])]_vars

(* Every earlier stage has succeeded before any work is issued in a stage   *)
(* ("a later stage may not start before its predecessor's gate"), however   *)
(* pauses, approvals and aborts interleave with the cursor.                 *)
StagesInOrder ==
  \A c \in Cells : attemptsMade[c] > 0 =>
    \A s \in 1..(c[1] - 1) : stageState[s] \in {"Succeeded", "RolledBack"}

\* the work in flight keeps to the concurrency and the limits of its stages
FitsLimits(busy) ==
  \A s \in Stages :
    LET here == busy \cap StageCells(s)
    IN  here # {} =>
          /\ Cardinality(here) <= Policy[s].concurrency
          /\ Cardinality(here) <= Policy[s].stage
          /\ Cardinality(busy) <= Policy[s].global

(* Dispatched work never exceeds the stage's concurrency, the stage limit   *)
(* and the global limit, over any sequence of batches, refusals, retries    *)
(* and deadline sweeps that free and refill the slots.                      *)
ConcurrencyBound == FitsLimits({c \in Cells : targetState[c] = "Dispatched"})

(* Until the canary clears, no more targets than the canary's size are ever *)
(* tried, though retries of the batch keep being dispatched.                *)
CanaryBound ==
  \A s \in Stages : Policy[s].canary > 0 /\ ~canaryCleared[s] =>
    Cardinality(Attempted(attemptsMade, s)) <= Policy[s].canary

(* A completed rollout has nothing left to happen: every stage succeeded,   *)
(* every target ended with failures inside the budget, and no attempt *)
(* of this generation can still report.                                     *)
CompletedIsSettled ==
  rolloutState = "Completed" =>
    /\ \A s \in Stages : stageState[s] = "Succeeded"
    /\ \A c \in Cells : targetState[c] \in {"Succeeded", "Cancelled", "Exhausted"}
    /\ \A s \in Stages : Cardinality({c \in StageCells(s) : targetState[c] = "Exhausted"})
                           <= Policy[s].failureBudget
    /\ \A a \in open : a.gen # generation

(* "A rollout is never reported as finished while compensation is still     *)
(* outstanding" (README): outside RollingBack no target is being restored;  *)
(* a restored target ran every declared step, in a stage that declares any. *)
CompensationSettled ==
  /\ rolloutState # "RollingBack" => \A c \in Cells : targetState[c] # "RollingBack"
  /\ \A c \in Cells :
       LET steps == Policy[c[1]].compensation
       IN  /\ targetState[c] = "RolledBack" => steps > 0 /\ rollbackStep[c] = steps
           /\ targetState[c] \in {"RollingBack", "RollbackFailed"} => rollbackStep[c] < steps

(* The attempt budget: a pending target can still be dispatched (or the     *)
(* stage would never end), an exhausted one has spent its budget, and       *)
(* refusals cost nothing.                                                   *)
AttemptBudget ==
  \A c \in Cells :
    LET budget == Policy[c[1]].maxAttempts
    IN  /\ attemptsMade[c] <= budget + rollbackStep[c] + 1
        /\ targetState[c] = "Pending" => attemptsMade[c] < budget
        /\ targetState[c] = "Dispatched" => attemptsMade[c] <= budget
        /\ targetState[c] = "Exhausted" => attemptsMade[c] = budget

(* A stage stopped at a manual gate can be approved, has no work in flight, *)
(* and nothing behind the gate has been issued: no later stage, and not the *)
(* stage itself while its entry gate is pending.                            *)
GateHoldsWork ==
  \A s \in Stages : stageState[s] = "Gated" =>
    /\ pendingGate[s] # "none"
    /\ Live(s) = {}
    /\ \A c \in Cells : attemptsMade[c] > 0 =>
          c[1] <= s /\ (c[1] = s => pendingGate[s] # "entry")

(* With automatic gates and no operator, a started rollout ends whatever    *)
(* the workers do: deadlines, retries, the budget and the canary leave no   *)
(* state in which every tick holds, and no restart of the controller does.  *)
RunsToAnEnd ==
  rolloutState = "Running" ~> rolloutState \in {"Completed", "Failed"}

-----------------------------------------------------------------------------
(* What the code says of itself and does not do.                            *)

(* finish_rollback (orchestrator_advance.cpp:844): "A stage that never ran  *)
(* has nothing to undo and no legal transition to rolled_back; only stages  *)
(* that actually executed are marked compensated."  The `if` that should    *)
(* skip those stages has an empty body, the transition of a pending or      *)
(* skipped stage is an error, and the error stops the controller.           *)
CompensationNeverHalts == rolloutState = "RollingBack" => ~halted
=============================================================================
