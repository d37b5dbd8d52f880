------------------------------ MODULE Rollout ------------------------------
(***************************************************************************)
(* One rollout inside one controller incarnation: the operator's commands   *)
(* (orchestrator.cpp), the admission and application of execution evidence, *)
(* and the tick that advances the rollout (orchestrator_advance.cpp).       *)
(*                                                                          *)
(* The controller is one thread.  A command runs alone; a tick drains the   *)
(* evidence the adapter delivered and then advances the rollout, and no     *)
(* command runs in between: `draining` marks a tick that has applied        *)
(* evidence and not advanced yet.                                           *)
(*                                                                          *)
(* Data the properties do not tell apart is abstracted.  An attempt is      *)
(* [gen, cell, epoch]: the generation that made it, its stage and target,   *)
(* and its attempt epoch, which a target counts from 1 in each generation   *)
(* together with attempts_created.  The clock is two facts: which attempts  *)
(* are past their deadline and how far a soak is.  A health verdict is any  *)
(* verdict the stage's policy lets matter (HealthHolds, HealthyEnough).     *)
(* Not in this module: the journal, restarts, and evidence other than       *)
(* execution and cancellation evidence; plans require no verification.      *)
(***************************************************************************)
EXTENDS Planner

CONSTANTS
  MaxGeneration,     \* bound: regenerations are offered below it
  Commands,          \* the commands the operator may issue besides arm, start
  DispatchMayRefuse, \* may ExecutionAdapter::dispatch refuse a request?
  CancelMayFail      \* may ExecutionAdapter::cancel return an error?

CommandNames == {"pause", "abort", "approve", "retire", "regenerate"}

ASSUME EnvironmentAssumption ==
  /\ MaxGeneration \in Nat \ {0}
  /\ Commands \subseteq CommandNames
  /\ DispatchMayRefuse \in BOOLEAN
  /\ CancelMayFail \in BOOLEAN

VARIABLES
  rolloutState,  \* Rollout::state
  resumeState,   \* Rollout::resume_state
  cursor,        \* Rollout::cursor + 1: the current stage, or NumStages + 1
  generation,    \* Rollout::generation_counter
  outstanding,   \* Rollout::outstanding_attempts
  stageState,    \* StageRuntime::state
  pendingGate,   \* StageRuntime::pending_gate_kind, "none" when nil
  canaryCleared, \* StageRuntime::canary_cleared
  dispatchedTotal, \* StageRuntime::dispatched_total
  soak,          \* StageRuntime::soak_started_at against the clock
  targetState,   \* TargetRuntime::state of every cell
  attemptsMade,  \* TargetRuntime::attempts_created, which is also its epoch
  rollbackStep,  \* TargetRuntime::rollback_step
  open,          \* attempts that are not finished()
  cancelled,     \* attempts with a cancelled_epoch
  overdue,       \* open attempts whose deadline has passed
  issued,        \* attempts the execution plane accepted
  reports,       \* terminal reports the plane has produced, never withdrawn
  draining,      \* the running tick has applied evidence
  halted         \* storage_failed: the controller stops ticking and exits

rolloutVars == <<rolloutState, resumeState, cursor, generation>>
stageVars   == <<stageState, pendingGate, canaryCleared, dispatchedTotal, soak>>
targetVars  == <<targetState, attemptsMade, rollbackStep>>
attemptVars == <<outstanding, open, cancelled, overdue>>
planeVars   == <<issued, reports>>
vars == <<rolloutVars, stageVars, targetVars, attemptVars, planeVars,
          draining, halted>>

-----------------------------------------------------------------------------
Gates    == {"none", "entry", "evidence", "advance"}
SoakStates == {"none", "running", "elapsed"}
Outcomes == {"completed", "failed", "stopped"}
Attempts == [gen : 1..MaxGeneration, cell : Cells, epoch : Nat \ {0}]
Reports  == [attempt : Attempts, outcome : Outcomes]

\* The attempt made last for cell c in this generation: every dispatch stores
\* it in current_attempt, which is reset only once the attempt is finished.
Current(c) == [gen |-> generation, cell |-> c, epoch |-> attemptsMade[c]]
Live(s) == {c \in StageCells(s) : Current(c) \in open}

\* rollout_has_compensation
HasCompensation == \E s \in Stages : Policy[s].compensation > 0

\* StageRuntime counts over the target states ts
FailedCells(ts, s) ==
  {c \in StageCells(s) : ts[c] \in {"Failed", "Exhausted", "RollbackFailed"}}
\* faulty: the advance gate's test, which only looks for pending targets
NoneLeftPending(ts, s) == \A c \in StageCells(s) : ts[c] # "Pending"
AllTerminal(ts, s) == \A c \in StageCells(s) : ts[c] \in TerminalTarget
OverBudget(ts, s) == Cardinality(FailedCells(ts, s)) > Policy[s].failureBudget

\* create_rollout: it materialises the cohorts and leaves the plan validated.
Init ==
  /\ rolloutState = "Validated" /\ resumeState = "Created"
  /\ cursor = 1 /\ generation = 1 /\ outstanding = 0
  /\ stageState = [s \in Stages |-> "Pending"]
  /\ pendingGate = [s \in Stages |-> "none"]
  /\ canaryCleared = [s \in Stages |-> FALSE]
  /\ dispatchedTotal = [s \in Stages |-> 0]
  /\ soak = [s \in Stages |-> "none"]
  /\ targetState = [c \in Cells |-> "Pending"]
  /\ attemptsMade = [c \in Cells |-> 0]
  /\ rollbackStep = [c \in Cells |-> 0]
  /\ open = {} /\ cancelled = {} /\ overdue = {}
  /\ issued = {} /\ reports = {}
  /\ draining = FALSE /\ halted = FALSE

-----------------------------------------------------------------------------
(* Steps that several handlers share.                                       *)

(* transition: an illegal one is an error that leaves the state as it is,   *)
(* after whatever the handler has already written.                          *)
Moved(to) == IF LegalRollout(rolloutState, to) THEN to ELSE rolloutState

\* faulty: every terminal target is marked, not only a changed one
BeginRollbackOfAll(ts, ss) ==
  LET marked == {c \in Cells : /\ ss[c[1]] \notin {"Pending", "Skipped"}
                               /\ Policy[c[1]].compensation > 0
                               /\ ts[c] \in TerminalTarget}
  IN  /\ rolloutState' = "RollingBack"
      /\ targetState' = [c \in Cells |-> IF c \in marked THEN "RollingBack" ELSE ts[c]]
      /\ rollbackStep' = [c \in Cells |-> IF c \in marked THEN 0 ELSE rollbackStep[c]]

\* begin_rollback, over the target and stage states the handler has reached
BeginRollback(ts, ss) ==
  LET marked == {c \in Cells : /\ ss[c[1]] \notin {"Pending", "Skipped"}
                               /\ Policy[c[1]].compensation > 0
                               /\ ts[c] \in {"Succeeded", "Failed"}}
  IN  /\ rolloutState' = "RollingBack"
      /\ targetState' = [c \in Cells |-> IF c \in marked THEN "RollingBack" ELSE ts[c]]
      /\ rollbackStep' = [c \in Cells |-> IF c \in marked THEN 0 ELSE rollbackStep[c]]

\* what abort and fail_stage end with: compensate if the plan can, else fail
Unwind(ts, ss) ==
  /\ stageState' = ss
  /\ IF HasCompensation
     THEN BeginRollback(ts, ss)
     ELSE /\ rolloutState' = "Failed"
          /\ targetState' = ts
          /\ UNCHANGED rollbackStep

FailStage(s, ts) == Unwind(ts, [stageState EXCEPT ![s] = "Failed"])

\* open_gate: a soaking stage has no transition to gated, and the error halts
OpenGate(s, kind, from) ==
  /\ pendingGate' = [pendingGate EXCEPT ![s] = kind]
  /\ IF LegalStage(from, "Gated")
     THEN /\ stageState' = [stageState EXCEPT ![s] = "Gated"]
          /\ rolloutState' = Moved("Gated")
          /\ UNCHANGED halted
     ELSE /\ halted' = TRUE
          /\ UNCHANGED <<stageState, rolloutState>>

\* faulty: the cursor moves and the stage is never marked succeeded
AdvanceCursorOnly(s) ==
  /\ UNCHANGED stageState
  /\ cursor' = cursor + 1
  /\ rolloutState' = Moved(IF cursor' > NumStages THEN "Completed" ELSE "Advancing")

\* the end of complete_stage: through advancing to succeeded, and the cursor
SucceedStage(s) ==
  /\ stageState' = [stageState EXCEPT ![s] = "Succeeded"]
  /\ cursor' = cursor + 1
  /\ rolloutState' = Moved(IF cursor' > NumStages THEN "Completed" ELSE "Advancing")

\* create_and_dispatch for the cells the adapter accepts: a refused dispatch
\* puts the target back exactly as it was, so only the accepted ones count.
Dispatch(accepted) ==
  LET new == {[gen |-> generation, cell |-> c, epoch |-> attemptsMade[c] + 1] :
                c \in accepted}
  IN  /\ attemptsMade' = [c \in Cells |->
            IF c \in accepted THEN attemptsMade[c] + 1 ELSE attemptsMade[c]]
      /\ dispatchedTotal' = [s \in Stages |->
            dispatchedTotal[s] + Cardinality(accepted \cap StageCells(s))]
      /\ issued' = issued \cup new

\* the answers the adapter may give to a batch of dispatches
Acceptable(batch) == IF DispatchMayRefuse THEN SUBSET batch ELSE {batch}

(* cancel_in_flight marks a stage's live attempts in target order and stops *)
(* at the first one whose cancellation the adapter cannot deliver: every    *)
(* set of attempts it may have marked by the time it fails.                 *)
CancelInterruptions(s) ==
  IF CancelMayFail
  THEN {{Current(d) : d \in {e \in Live(s) : e[2] <= c[2]}} : c \in Live(s)}
  ELSE {}
CancelsAll(s) == {Current(c) : c \in Live(s)}

-----------------------------------------------------------------------------
(* Operator commands.  Each checks its precondition, and a refused command  *)
(* changes nothing.  Authority and revision fences only refuse more.        *)

Commanding(command) == ~halted /\ ~draining /\ command \in Commands

Arm ==
  /\ ~halted /\ ~draining
  /\ rolloutState \in {"Validated", "Created"} /\ LegalRollout(rolloutState, "Armed")
  /\ rolloutState' = "Armed"
  /\ UNCHANGED <<resumeState, cursor, generation, stageVars, targetVars,
                 attemptVars, planeVars, draining, halted>>

Start ==
  /\ ~halted /\ ~draining
  /\ rolloutState = "Armed" /\ cursor <= NumStages
  /\ rolloutState' = "Running"
  /\ UNCHANGED <<resumeState, cursor, generation, stageVars, targetVars,
                 attemptVars, planeVars, draining, halted>>

\* pause, then the current stage's in-flight policy; an error of the
\* cancellation is returned to the operator and the rollout stays paused.
Pause ==
  /\ Commanding("pause")
  /\ rolloutState \in Pausable
  /\ rolloutState' = "Paused"
  /\ resumeState' = rolloutState
  /\ IF cursor <= NumStages /\ Policy[cursor].pauseInFlight = "cancel"
     THEN \E told \in {CancelsAll(cursor)} \cup CancelInterruptions(cursor) :
            cancelled' = cancelled \cup told
     ELSE UNCHANGED cancelled
  /\ UNCHANGED <<cursor, generation, stageVars, targetVars, outstanding, open,
                 overdue, planeVars, draining, halted>>

Resume ==
  /\ Commanding("pause")
  /\ rolloutState = "Paused" /\ LegalRollout("Paused", resumeState)
  /\ rolloutState' = resumeState
  /\ UNCHANGED <<resumeState, cursor, generation, stageVars, targetVars,
                 attemptVars, planeVars, draining, halted>>

Abortable ==
  /\ Commanding("abort")
  /\ rolloutState \notin TerminalRollout \cup {"Aborting", "RollingBack"}
  /\ LegalRollout(rolloutState, "Aborting")

AbortedStage(state) ==
  IF state \in {"Pending", "Blocked"} THEN "Skipped"
  ELSE IF state \in TerminalStage THEN state ELSE "Aborted"

\* the stages whose in-flight work abort cancels
Abortees == {s \in Stages : stageState[s] \notin TerminalStage \cup {"Pending", "Blocked"}}

Abort ==
  /\ Abortable
  /\ cancelled' = cancelled \cup UNION {CancelsAll(s) : s \in Abortees}
  /\ Unwind(targetState, [s \in Stages |-> AbortedStage(stageState[s])])
  /\ UNCHANGED <<resumeState, cursor, generation, pendingGate, canaryCleared,
                 dispatchedTotal, soak, attemptsMade, outstanding, open, overdue,
                 planeVars, draining, halted>>

\* abort returns the adapter's error from the middle of its loop
AbortInterrupted ==
  /\ Abortable
  /\ \E s \in Abortees : \E told \in CancelInterruptions(s) :
       /\ cancelled' = cancelled \cup told
            \cup UNION {CancelsAll(r) : r \in {q \in Abortees : q < s}}
       /\ stageState' = [r \in Stages |->
            IF r < s THEN AbortedStage(stageState[r]) ELSE stageState[r]]
  /\ rolloutState' = "Aborting"
  /\ UNCHANGED <<resumeState, cursor, generation, pendingGate, canaryCleared,
                 dispatchedTotal, soak, targetVars, outstanding, open, overdue,
                 planeVars, draining, halted>>

(* approve_gate.  The approved gate is spent first; what it opens is then   *)
(* tried, and a stage that ended while its gate was pending refuses it.     *)
Approving(s) ==
  /\ Commanding("approve")
  /\ pendingGate[s] # "none"
  /\ pendingGate' = [pendingGate EXCEPT ![s] = "none"]
  /\ UNCHANGED <<resumeState, generation, canaryCleared, dispatchedTotal, soak,
                 targetVars, attemptVars, planeVars, draining, halted>>

ApproveEntry(s) ==
  /\ Approving(s)
  /\ pendingGate[s] = "entry" /\ stageState[s] = "Gated"
  /\ \A p \in Preds[s] : stageState[p] = "Succeeded"
  /\ stageState' = [stageState EXCEPT ![s] = "Running"]
  /\ rolloutState' = Moved("Running")
  /\ UNCHANGED cursor

ApproveCompletion(s) ==
  /\ Approving(s)
  /\ pendingGate[s] \in {"evidence", "advance"} /\ stageState[s] = "Gated"
  /\ SucceedStage(s)

ApproveTooLate(s) ==
  /\ Approving(s)
  /\ stageState[s] \in TerminalStage
  /\ UNCHANGED <<rolloutState, cursor, stageState>>

ApproveGate ==
  \E s \in Stages : ApproveEntry(s) \/ ApproveCompletion(s) \/ ApproveTooLate(s)

Retire ==
  /\ Commanding("retire")
  /\ rolloutState \in {"Failed", "Completed"}
  /\ rolloutState' = "Retired"
  /\ UNCHANGED <<resumeState, cursor, generation, stageVars, targetVars,
                 attemptVars, planeVars, draining, halted>>

\* regenerate: stages and targets start over; attempts of the old generation
\* stay in the attempt map, and on the workers, as they are.
Regenerate ==
  /\ Commanding("regenerate")
  /\ rolloutState \in {"Failed", "Completed"}
  /\ generation < MaxGeneration
  /\ generation' = generation + 1
  /\ rolloutState' = "Validated" /\ resumeState' = "Validated"
  /\ cursor' = 1 /\ outstanding' = 0
  /\ stageState' = [s \in Stages |-> "Pending"]
  /\ pendingGate' = [s \in Stages |-> "none"]
  /\ canaryCleared' = [s \in Stages |-> FALSE]
  /\ dispatchedTotal' = [s \in Stages |-> 0]
  /\ soak' = [s \in Stages |-> "none"]
  /\ targetState' = [c \in Cells |-> "Pending"]
  /\ attemptsMade' = [c \in Cells |-> 0]
  /\ rollbackStep' = [c \in Cells |-> 0]
  /\ UNCHANGED <<open, cancelled, overdue, planeVars, draining, halted>>

Command == Arm \/ Start \/ Pause \/ Resume \/ Abort \/ AbortInterrupted
           \/ ApproveGate \/ Retire \/ Regenerate

-----------------------------------------------------------------------------
(* The tick, first half: drain_pending admits and applies one report.       *)

\* faulty: a finished attempt may report again
AdmittedAgain(r) == r.attempt.gen = generation

\* admit: the generation, attempt, epoch and finished fences.  Sequence and
\* freshness checks only refuse more reports of an attempt that is open.
Admitted(r) ==
  /\ r.attempt.gen = generation
  /\ r.attempt \in open

\* faulty: the attempt and its outcome each take one off, and nothing stops at zero
OutstandingTwice(finished) == outstanding - 2 * Cardinality(finished)

\* outstanding_attempts once the attempts in `finished` are: never below zero
OutstandingAfter(finished) ==
  IF outstanding > Cardinality(finished)
  THEN outstanding - Cardinality(finished) ELSE 0

Finish(finished) ==
  /\ open' = open \ finished
  /\ overdue' = overdue \ finished
  /\ outstanding' = OutstandingAfter(finished)

\* faulty: off by one
RetryOnceMore(c) ==
  IF attemptsMade[c] <= Policy[c[1]].maxAttempts THEN "Pending" ELSE "Exhausted"

\* retry_or_exhaust
RetryOrExhaust(c) ==
  IF attemptsMade[c] < Policy[c[1]].maxAttempts THEN "Pending" ELSE "Exhausted"

Apply(r) ==
  /\ ~halted
  /\ r \in reports /\ Admitted(r)
  /\ draining' = TRUE
  /\ Finish({r.attempt})
  /\ UNCHANGED <<rolloutVars, stageVars, attemptsMade, cancelled, planeVars, halted>>

Settle(c, state) == targetState' = [targetState EXCEPT ![c] = state]

\* CancellationAcknowledged
ApplyStopped(r) ==
  /\ Apply(r)
  /\ r.outcome = "stopped"
  /\ LET c == r.attempt.cell
     IN  Settle(c, IF targetState[c] \in {"Dispatched", "Unknown"}
                   THEN "Cancelled" ELSE targetState[c])
  /\ UNCHANGED rollbackStep

\* apply_compensation: any terminal report of a target that is rolling back
ApplyCompensation(r) ==
  /\ Apply(r)
  /\ r.outcome # "stopped"
  /\ LET c == r.attempt.cell
     IN  /\ targetState[c] = "RollingBack"
         /\ \/ /\ r.outcome = "completed"
               /\ rollbackStep' = [rollbackStep EXCEPT ![c] = @ + 1]
               /\ Settle(c, IF rollbackStep[c] + 1 >= Policy[c[1]].compensation
                            THEN "RolledBack" ELSE "RollingBack")
            \/ /\ r.outcome = "failed"
               /\ Settle(c, "RollbackFailed")
               /\ UNCHANGED rollbackStep

\* faulty: the cancellation is forgotten once the executor reports
CountEvenCancelled(r) ==
  LET c == r.attempt.cell
  IN  IF r.outcome = "completed" THEN "Succeeded"
      ELSE RetryOrExhaust(c)

(* apply_terminal_execution.  A cancelled attempt is never counted.  What   *)
(* the code does with an attempt that is not its target's current one is    *)
(* left out: an admitted attempt always is (AttemptLedger).                 *)
ExecutionSettles(r) ==
  LET c == r.attempt.cell
  IN  IF r.attempt \in cancelled THEN "Cancelled"
      ELSE IF r.outcome = "completed" THEN "Succeeded"
      ELSE RetryOrExhaust(c)

ApplyExecution(r) ==
  /\ Apply(r)
  /\ r.outcome # "stopped"
  /\ targetState[r.attempt.cell] # "RollingBack"
  /\ Settle(r.attempt.cell, ExecutionSettles(r))
  /\ UNCHANGED rollbackStep

DrainEvidence ==
  \E r \in reports : ApplyStopped(r) \/ ApplyCompensation(r) \/ ApplyExecution(r)

-----------------------------------------------------------------------------
(* The tick, second half: advance.                                          *)

Ticking ==
  /\ ~halted
  /\ draining' = FALSE
  /\ UNCHANGED <<resumeState, generation, reports, cancelled>>

\* States a tick does not advance: they wait for a command or are final.
AdvanceIdle ==
  /\ Ticking
  /\ rolloutState \notin {"Running", "Soaking", "Advancing", "RollingBack"}
  /\ UNCHANGED <<rolloutState, cursor, stageVars, targetVars, attemptVars, issued,
                 halted>>

\* faulty: only the stage that failed is compensated
RollbackPendingHere ==
  {c \in StageCells(cursor) : targetState[c] = "RollingBack"}

\* run_rollback for every target whose last attempt is finished
RollbackPending ==
  {c \in Cells : /\ targetState[c] = "RollingBack"
                 /\ stageState[c[1]] \notin {"Pending", "Skipped"}}

AdvanceRollback ==
  /\ Ticking
  /\ rolloutState = "RollingBack"
  /\ RollbackPending # {}
  /\ \E accepted \in Acceptable({c \in RollbackPending : Current(c) \notin open}) :
       /\ Dispatch(accepted)
       /\ open' = open \cup (issued' \ issued)
       /\ outstanding' = outstanding + Cardinality(accepted)
  /\ UNCHANGED <<rolloutState, cursor, stageState, pendingGate, canaryCleared, soak,
                 targetState, rollbackStep, overdue, halted>>

(* finish_rollback: every stage goes to rolled_back in order, and the first *)
(* one that cannot is an error that halts the controller half way.          *)
FinishRollback ==
  /\ Ticking
  /\ rolloutState = "RollingBack"
  /\ RollbackPending = {}
  /\ LET stuck == {s \in Stages : ~LegalStage(stageState[s], "RolledBack")}
         done  == {s \in Stages : \A q \in stuck : s < q}
     IN  /\ stageState' = [s \in Stages |->
              IF s \in done THEN "RolledBack" ELSE stageState[s]]
         /\ halted' = (stuck # {})
         /\ rolloutState' = IF stuck = {} THEN "Failed" ELSE rolloutState
  /\ UNCHANGED <<cursor, pendingGate, canaryCleared, dispatchedTotal, soak,
                 targetVars, outstanding, open, overdue, issued>>

\* faulty: a gated rollout keeps running its stage
AdvancingPastGate(states) ==
  /\ Ticking
  /\ rolloutState \in {"Running", "Soaking", "Advancing", "Gated"}
  /\ cursor <= NumStages
  /\ stageState[cursor] \in states \cup {"Gated"}

Advancing(states) ==
  /\ Ticking
  /\ rolloutState \in {"Running", "Soaking", "Advancing"}
  /\ cursor <= NumStages
  /\ stageState[cursor] \in states

\* begin_stage: armed, then stopped at a manual entry gate or running
BeginStage(s) ==
  /\ Advancing({"Pending"}) /\ s = cursor
  /\ \A p \in Preds[s] : stageState[p] = "Succeeded"
  /\ IF Policy[s].entryGate = "manual"
     THEN OpenGate(s, "entry", "Armed")
     ELSE /\ stageState' = [stageState EXCEPT ![s] = "Running"]
          /\ rolloutState' = "Running"
          /\ UNCHANGED <<pendingGate, halted>>
  /\ UNCHANGED <<cursor, canaryCleared, dispatchedTotal, soak, targetVars,
                 outstanding, open, overdue, issued>>

(* run_stage.  First the deadlines: `Swept` is the target states after the  *)
(* sweep, and everything below reads them.                                  *)
Expired(s) ==
  {c \in StageCells(s) : targetState[c] = "Dispatched" /\ Current(c) \in overdue}
\* faulty: the sweep settles the target and leaves its attempt open
ForgottenAttempts(s) == {}
ExpiredAttempts(s) == {Current(c) : c \in Expired(s)}
Swept(s) ==
  [c \in Cells |->
     IF c \notin Expired(s) THEN targetState[c]
     ELSE IF Current(c) \in cancelled THEN "Cancelled" ELSE RetryOrExhaust(c)]

\* The canary batch has been dispatched in full and has not cleared.
CanaryDue(s) ==
  ~canaryCleared[s] /\ Policy[s].canary > 0 /\ dispatchedTotal[s] >= Policy[s].canary
\* faulty: an exhausted canary is waited for
CanaryWaits(s) == FALSE
CanaryFailed(s) ==
  CanaryDue(s) /\ \E c \in Attempted(attemptsMade, s) : Swept(s)[c] = "Exhausted"
CanaryClears(s, held) ==
  /\ CanaryDue(s)
  /\ \A c \in Attempted(attemptsMade, s) : Swept(s)[c] = "Succeeded"
  /\ ~(Policy[s].canaryHealth /\ held)

\* The verdicts of health_gate_holds and of the advance gate's healthy
\* fraction: observations of the fleet, free wherever the policy asks for them.
HealthHolds(s) == IF Policy[s].healthGate THEN BOOLEAN ELSE {FALSE}
HealthyEnough(s) == IF Policy[s].healthyFraction THEN BOOLEAN ELSE {TRUE}

FailRunningStage(s) ==
  /\ Advancing({"Running", "Soaking"}) /\ s = cursor
  /\ OverBudget(Swept(s), s) \/ CanaryFailed(s)
  /\ FailStage(s, Swept(s))
  /\ Finish(ExpiredAttempts(s))
  /\ UNCHANGED <<cursor, pendingGate, canaryCleared, dispatchedTotal, soak,
                 attemptsMade, issued, halted>>

\* neither the budget nor the canary failed the stage
Proceeding(s, held) ==
  /\ Advancing({"Running", "Soaking"}) /\ s = cursor
  /\ ~OverBudget(Swept(s), s) /\ ~CanaryFailed(s)
  /\ canaryCleared' =
       [canaryCleared EXCEPT ![s] = @ \/ CanaryClears(s, held)]

HoldsForHealth(s, held) ==
  held /\ \E c \in StageCells(s) : Swept(s)[c] = "Succeeded"

\* dispatch_stage
DispatchBatch(s, held) ==
  /\ Proceeding(s, held)
  /\ ~AllTerminal(Swept(s), s) /\ ~HoldsForHealth(s, held)
  /\ \E accepted \in
          Acceptable(PlanDispatch(Swept(s), attemptsMade, canaryCleared'[s], s)) :
       /\ Dispatch(accepted)
       /\ targetState' = [c \in Cells |->
            IF c \in accepted THEN "Dispatched" ELSE Swept(s)[c]]
       /\ open' = (open \ ExpiredAttempts(s)) \cup (issued' \ issued)
       /\ outstanding' = OutstandingAfter(ExpiredAttempts(s)) + Cardinality(accepted)
       /\ overdue' = overdue \ ExpiredAttempts(s)
  /\ UNCHANGED <<rolloutState, cursor, stageState, pendingGate, soak, rollbackStep,
                 halted>>

\* nothing to dispatch: an unhealthy cohort, or a soak that is not over
HoldStage(s, held) ==
  /\ Proceeding(s, held)
  /\ \/ ~AllTerminal(Swept(s), s) /\ HoldsForHealth(s, held)
     \/ AllTerminal(Swept(s), s) /\ Policy[s].soaks /\ soak[s] = "running"
  /\ targetState' = Swept(s)
  /\ Finish(ExpiredAttempts(s))
  /\ UNCHANGED <<rolloutState, cursor, stageState, pendingGate, dispatchedTotal,
                 soak, attemptsMade, rollbackStep, issued, halted>>

StartSoak(s, held) ==
  /\ Proceeding(s, held)
  /\ AllTerminal(Swept(s), s) /\ Policy[s].soaks /\ soak[s] = "none"
  /\ soak' = [soak EXCEPT ![s] = "running"]
  /\ stageState' = [stageState EXCEPT ![s] = "Soaking"]
  /\ rolloutState' = Moved("Soaking")
  /\ targetState' = Swept(s)
  /\ Finish(ExpiredAttempts(s))
  /\ UNCHANGED <<cursor, pendingGate, dispatchedTotal, attemptsMade, rollbackStep,
                 issued, halted>>

(* complete_stage, not yet approved: the evidence gate asks that no target  *)
(* failed, the advance gate for a healthy fraction.  An unsatisfied manual  *)
(* gate waits for the operator; an unsatisfied automatic one fails the      *)
(* stage (evidence) or holds it until the next tick (advance).              *)
EvidenceSatisfied(s) == FailedCells(Swept(s), s) = {}

CompleteStage(s, held) ==
  /\ Proceeding(s, held)
  /\ AllTerminal(Swept(s), s) /\ (Policy[s].soaks => soak[s] = "elapsed")
  /\ Finish(ExpiredAttempts(s))
  /\ UNCHANGED <<dispatchedTotal, soak, attemptsMade, issued>>
  /\ \/ /\ ~EvidenceSatisfied(s)
        /\ Policy[s].evidenceGate = "automatic"
        /\ FailStage(s, Swept(s))
        /\ UNCHANGED <<cursor, pendingGate, halted>>
     \/ /\ ~EvidenceSatisfied(s)
        /\ Policy[s].evidenceGate = "manual"
        /\ OpenGate(s, "evidence", stageState[s])
        /\ targetState' = Swept(s)
        /\ UNCHANGED <<cursor, rollbackStep>>
     \/ \E healthy \in HealthyEnough(s) :
        /\ EvidenceSatisfied(s)
        /\ targetState' = Swept(s)
        /\ UNCHANGED rollbackStep
        /\ \/ /\ healthy
              /\ SucceedStage(s)
              /\ UNCHANGED <<pendingGate, halted>>
           \/ /\ ~healthy /\ Policy[s].advanceGate = "manual"
              /\ OpenGate(s, "advance", stageState[s])
              /\ UNCHANGED cursor
           \/ /\ ~healthy /\ Policy[s].advanceGate = "automatic"
              /\ UNCHANGED <<rolloutState, cursor, stageState, pendingGate, halted>>

RunStage(s) ==
  \/ FailRunningStage(s)
  \/ \E held \in HealthHolds(s) :
       DispatchBatch(s, held) \/ HoldStage(s, held)
       \/ StartSoak(s, held) \/ CompleteStage(s, held)

Advance == AdvanceIdle \/ AdvanceRollback \/ FinishRollback
           \/ \E s \in Stages : BeginStage(s) \/ RunStage(s)

-----------------------------------------------------------------------------
(* The environment: workers and the clock.                                  *)

\* The plane reports what Contract allows it to: an outcome of an attempt it
\* was given, for good; a cancelled attempt is acknowledged as stopped even if
\* it had finished, and a reconciliation may call a stopped attempt failed.
WorkerReports(a) ==
  /\ a \in issued
  /\ \E outcome \in Outcomes :
       /\ CASE outcome = "completed"    -> \A r \in reports : r.attempt # a
            [] outcome = "failed"  -> [attempt |-> a, outcome |-> "completed"] \notin reports
            [] outcome = "stopped" -> a \in cancelled
       /\ reports' = reports \cup {[attempt |-> a, outcome |-> outcome]}
  /\ UNCHANGED <<rolloutVars, stageVars, targetVars, attemptVars, issued, draining,
                 halted>>

\* only the sweep of a dispatched target ever reads a deadline
DeadlinePasses(c) ==
  /\ targetState[c] = "Dispatched" /\ Current(c) \in open \ overdue
  /\ overdue' = overdue \cup {Current(c)}
  /\ UNCHANGED <<rolloutVars, stageVars, targetVars, outstanding, open, cancelled,
                 planeVars, draining, halted>>

SoakElapses(s) ==
  /\ soak[s] = "running"
  /\ soak' = [soak EXCEPT ![s] = "elapsed"]
  /\ UNCHANGED <<rolloutVars, stageState, pendingGate, canaryCleared,
                 dispatchedTotal, targetVars, attemptVars, planeVars, draining, halted>>

Environment ==
  \/ \E a \in issued : WorkerReports(a)
  \/ \E c \in Cells : DeadlinePasses(c)
  \/ \E s \in Stages : SoakElapses(s)

Next == Command \/ DrainEvidence \/ Advance \/ Environment
Spec == Init /\ [][Next]_vars
=============================================================================
