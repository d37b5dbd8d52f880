------------------------------ MODULE Recovery ------------------------------
(***************************************************************************)
(* A rollout across controller incarnations: what each handler of Rollout   *)
(* has written to the journal when the process dies, what restore() makes   *)
(* of it in the next incarnation (orchestrator_recovery.cpp), the branches  *)
(* of a tick only a restored rollout reaches, and the answers of            *)
(* reconcile_outstanding().                                                 *)
(*                                                                          *)
(* Every state change of a rollout or a stage writes a snapshot of the      *)
(* rollout (transition, stage_transition); a handler that makes several     *)
(* writes several, and dies between any two.  What the snapshot leaves out  *)
(* is the attempt map: cancellations, and attempts of older generations.    *)
(* An attempt the plane accepted and no snapshot names is unknown to the    *)
(* next incarnation, which refuses its reports and may use its epoch again  *)
(* for an attempt with another identifier: the plane forgets it.            *)
(***************************************************************************)
EXTENDS Rollout

CONSTANTS
  MaxCrashes, \* bound: how often the controller dies
  Reconciles  \* is reconcile_outstanding() called?  (the daemon never does)

ASSUME RecoveryAssumption ==
  /\ MaxCrashes \in Nat
  /\ Reconciles \in BOOLEAN

VARIABLES
  controller, \* "up", "down" (killed), or "without" this rollout
  saved,      \* the newest snapshot of the rollout in the journal
  inherited,  \* attempts whose fence names an earlier incarnation
  told,       \* attempts an earlier incarnation cancelled
  crashes

recoveryVars == <<controller, saved, inherited, told, crashes>>
allVars == <<vars, recoveryVars>>

\* The cells whose snapshot names an attempt that restore() rebuilds: it keeps
\* current_attempt only for a changing target, and a compensation step that is
\* over keeps it until the next step is dispatched.
Named ==
  {c \in Cells : /\ targetState[c] \in {"Dispatched", "Unknown", "RollingBack"}
                 /\ \/ Current(c) \in open
                    \/ rollbackStep[c] > 0 /\ Current(c) \in issued}

Snapshot ==
  [rolloutState |-> rolloutState, resumeState |-> resumeState, cursor |-> cursor,
   generation |-> generation, stageState |-> stageState, pendingGate |-> pendingGate,
   canaryCleared |-> canaryCleared, dispatchedTotal |-> dispatchedTotal,
   soak |-> soak, targetState |-> targetState, attemptsMade |-> attemptsMade,
   rollbackStep |-> rollbackStep, named |-> Named]

RecoveryInit ==
  /\ Init
  /\ controller = "up" /\ saved = Snapshot
  /\ inherited = {} /\ told = {} /\ crashes = 0

-----------------------------------------------------------------------------
(* The branches of advance() and of approve_gate() that only a restored     *)
(* rollout reaches.                                                         *)

\* a stage found armed runs; its entry gate is not looked at again
ResumeArmed ==
  /\ Advancing({"Armed"})
  /\ stageState' = [stageState EXCEPT ![cursor] = "Running"]
  /\ UNCHANGED <<rolloutState, cursor, pendingGate, canaryCleared, dispatchedTotal,
                 soak, targetVars, attemptVars, issued, halted>>

\* complete_stage, taken as approved, for a stage found advancing
ResumeAdvancing ==
  /\ Advancing({"Advancing"})
  /\ SucceedStage(cursor)
  /\ UNCHANGED <<pendingGate, canaryCleared, dispatchedTotal, soak, targetVars,
                 attemptVars, issued, halted>>

\* a stage found succeeded, with the cursor still on it
ResumeSucceeded ==
  /\ Advancing({"Succeeded"})
  /\ cursor' = cursor + 1
  /\ rolloutState' = Moved(IF cursor' > NumStages THEN "Completed" ELSE "Advancing")
  /\ UNCHANGED <<stageVars, targetVars, attemptVars, issued, halted>>

ResumeFailed ==
  /\ Advancing({"Failed"})
  /\ Unwind(targetState, stageState)
  /\ UNCHANGED <<cursor, pendingGate, canaryCleared, dispatchedTotal, soak,
                 attemptsMade, attemptVars, issued, halted>>

\* the last gate was approved in a pause, which has no way to completed
ResumeFinished ==
  /\ Ticking
  /\ rolloutState \in {"Running", "Soaking", "Advancing"} /\ cursor > NumStages
  /\ rolloutState' = "Completed"
  /\ UNCHANGED <<cursor, stageVars, targetVars, outstanding, open, overdue, issued,
                 halted>>

\* a gate whose stage was written and whose rollout was not: the tick waits
ResumeGated ==
  /\ Advancing({"Gated"})
  /\ UNCHANGED <<rolloutVars, stageVars, targetVars, attemptVars, issued, halted>>

(* begin_stage refuses an entry gate approved too late, and fails the       *)
(* rollout when a predecessor is rolled back: finish_rollback was cut short *)
(* between the two.                                                         *)
PredecessorUndone(s) ==
  /\ pendingGate[s] = "entry"
  /\ \E p \in Preds[s] : stageState[p] = "RolledBack"
  /\ rolloutState \notin TerminalRollout

ApproveUndone(s) ==
  /\ Approving(s)
  /\ stageState[s] \in TerminalStage /\ PredecessorUndone(s)
  /\ rolloutState' = "Failed"
  /\ UNCHANGED <<cursor, stageState>>

-----------------------------------------------------------------------------
(* What is written.  A step either ends with its last snapshot, or the      *)
(* process dies in it with one of the snapshots it had written by then.     *)
(* Dying before a step has written or sent anything is Crash.               *)

Saves == controller' = "up" /\ saved' = Snapshot' /\ UNCHANGED crashes
DiesWith(snapshots) ==
  /\ crashes < MaxCrashes /\ crashes' = crashes + 1
  /\ controller' = "down" /\ saved' \in snapshots

\* a handler that writes once, before it tells the plane anything
Once(Step) == Step /\ Saves

\* a dispatch is sent before the snapshot that names it is written
Sends(Step) == Step /\ (Saves \/ DiesWith({saved}))

(* The cursor moves in memory between the write of the stage and the        *)
(* rollout's transition, which writes nothing when the rollout is there     *)
(* already or may not go there.                                             *)
LeavesCursor == cursor' # cursor /\ rolloutState' = rolloutState

\* begin_rollback writes the rollout's state before it marks the targets
Unmarked ==
  [Snapshot' EXCEPT !.rollbackStep = rollbackStep,
     !.targetState = [c \in Cells |->
        IF targetState'[c] = "RollingBack" THEN targetState[c] ELSE targetState'[c]]]

\* the stage is written before the rollout's state and the cursor move
StageOnly == [Unmarked EXCEPT !.rolloutState = rolloutState, !.cursor = cursor]

\* faulty: the cursor is written with the stage's first transition
CursorFirst ==
  {[StageOnly EXCEPT !.stageState[s] = "Advancing", !.cursor = cursor'] :
     s \in {q \in Stages : stageState'[q] = "Succeeded" /\ stageState[q] # "Succeeded"}}
\* a stage passes through armed on its way to running, and through advancing
\* on its way to succeeded
Halfway ==
  {[StageOnly EXCEPT !.stageState[s] = "Armed", !.pendingGate = pendingGate] :
     s \in {q \in Stages : stageState[q] = "Pending" /\ stageState'[q] # "Pending"}}
  \cup {[StageOnly EXCEPT !.stageState[s] = "Advancing"] :
     s \in {q \in Stages : stageState'[q] = "Succeeded" /\ stageState[q] # "Succeeded"}}

\* a handler that moves a stage and then the rollout
SavesStage == controller' = "up" /\ saved' = StageOnly /\ UNCHANGED crashes
WritesTwice ==
  \/ ~LeavesCursor /\ (Saves \/ DiesWith({StageOnly, Unmarked} \cup Halfway))
  \/ LeavesCursor /\ (SavesStage \/ DiesWith({StageOnly} \cup Halfway))
Twice(Step) == Step /\ WritesTwice

\* abort: the rollout is aborting, then the stages one after the other, then
\* the rollout again
Aborts ==
  /\ Abort
  /\ \/ Saves
     \/ DiesWith({Unmarked} \cup
          {[Snapshot EXCEPT !.rolloutState = "Aborting",
              !.stageState = [r \in Stages |->
                 IF r < s THEN AbortedStage(stageState[r]) ELSE stageState[r]]] :
             s \in 1..(NumStages + 1)})

FinishesRollback ==
  /\ FinishRollback
  /\ \/ Saves
     \/ DiesWith({[Snapshot EXCEPT !.stageState = [r \in Stages |->
                     IF r < s THEN stageState'[r] ELSE stageState[r]]] :
                    s \in 1..(NumStages + 1)})

\* complete_stage without a transition records a decision and no snapshot, and
\* so does an approval that comes too late
Unwritten(Step) ==
  Step /\ controller' = "up" /\ UNCHANGED <<saved, crashes>>

\* admit: an earlier incarnation's cancellation says nothing about now
Hears(r) == r.outcome = "stopped" => r.attempt \notin inherited

Drain ==
  \E r \in reports :
    Hears(r) /\ Once(ApplyStopped(r) \/ ApplyCompensation(r) \/ ApplyExecution(r))

RecoveredCommand ==
  \/ Once(Arm) \/ Once(Start) \/ Once(Pause) \/ Once(Resume)
  \/ Aborts \/ Once(AbortInterrupted)
  \/ \E s \in Stages : \/ Twice(ApproveEntry(s)) \/ Twice(ApproveCompletion(s))
                       \/ Unwritten(ApproveTooLate(s) /\ ~PredecessorUndone(s))
                       \/ Once(ApproveUndone(s))
  \/ Once(Retire) \/ Once(Regenerate)

RecoveredAdvance ==
  \/ Unwritten(AdvanceIdle) \/ Sends(AdvanceRollback) \/ FinishesRollback
  \/ Once(ResumeArmed) \/ Twice(ResumeAdvancing) \/ Once(ResumeFinished)
  \/ Once(ResumeSucceeded /\ ~LeavesCursor) \/ Unwritten(ResumeSucceeded /\ LeavesCursor)
  \/ Twice(ResumeFailed) \/ Unwritten(ResumeGated)
  \/ \E s \in Stages :
       \/ Twice(BeginStage(s)) \/ Twice(FailRunningStage(s))
       \/ \E held \in HealthHolds(s) :
            \/ Sends(DispatchBatch(s, held)) \/ Once(HoldStage(s, held))
            \/ Twice(StartSoak(s, held))
            \/ /\ CompleteStage(s, held)
               /\ IF stageState' = stageState
                  THEN controller' = "up" /\ UNCHANGED <<saved, crashes>>
                  ELSE WritesTwice

-----------------------------------------------------------------------------
(* reconcile_outstanding.  Completed and failed answers are admitted and    *)
(* applied as Drain applies a report; an attempt in progress stays as it    *)
(* is.  It is called for what a restart inherited, when no attempt of an    *)
(* older generation is left in the attempt map.                             *)

\* the executor never began a: it never reported it and never will
ReleaseNotStarted(a) ==
  /\ \A r \in reports : r.attempt # a
  /\ targetState' = [targetState EXCEPT ![a.cell] =
        IF @ \in {"Dispatched", "Unknown"} THEN "Pending" ELSE @]
  /\ Finish({a})
  /\ issued' = issued \ {a}
  /\ UNCHANGED cancelled

MarkUnknown(a) ==
  /\ targetState[a.cell] = "Dispatched"
  /\ Settle(a.cell, "Unknown")
  /\ UNCHANGED <<attemptVars, issued>>

Reconcile ==
  /\ Reconciles /\ ~halted /\ ~draining
  /\ \E a \in open \cap inherited : a.gen = generation /\ (ReleaseNotStarted(a) \/ MarkUnknown(a))
  /\ UNCHANGED <<rolloutVars, stageVars, attemptsMade, rollbackStep, reports,
                 draining, halted>>

-----------------------------------------------------------------------------
(* Death and restart.                                                       *)

\* between two steps; a halted controller has left by itself
Crash ==
  /\ UNCHANGED vars
  /\ DiesWith({saved})

\* faulty: the count of outstanding attempts is left as the snapshot had it
Recount(m) == outstanding
\* restore() counts the attempts it rebuilds
Rebuilt(m) == Cardinality(m.named)

\* faulty: a target's attempts start over in every incarnation
Remade(m) == [c \in Cells |-> 0]
\* attempts_created, which is also the epoch
Made(m) == m.attemptsMade

\* restore() refuses a rollout that is not over and whose cohorts are not
\* frozen; arm freezes them, and they start unfrozen in every generation.
Restorable(m) == m.rolloutState # "Validated"

Restart ==
  /\ controller = "down" /\ Restorable(saved)
  /\ controller' = "up"
  /\ LET m == saved
         rebuilt == {[gen |-> m.generation, cell |-> c, epoch |-> Made(m)[c]] :
                       c \in m.named}
         known == {a \in issued : \/ a.gen < m.generation
                                  \/ a.gen = m.generation /\ a.epoch <= Made(m)[a.cell]}
     IN  /\ rolloutState' = m.rolloutState /\ resumeState' = m.resumeState
         /\ cursor' = m.cursor /\ generation' = m.generation
         /\ outstanding' = Rebuilt(m)
         /\ stageState' = m.stageState /\ pendingGate' = m.pendingGate
         /\ canaryCleared' = m.canaryCleared
         /\ dispatchedTotal' = m.dispatchedTotal /\ soak' = m.soak
         /\ targetState' = m.targetState /\ attemptsMade' = Made(m)
         /\ rollbackStep' = m.rollbackStep
         /\ open' = rebuilt /\ inherited' = rebuilt
         /\ cancelled' = {} /\ told' = told \cup cancelled
         /\ overdue' = overdue \cap rebuilt
         /\ issued' = known /\ reports' = {r \in reports : r.attempt \in known}
  /\ draining' = FALSE /\ halted' = FALSE
  /\ UNCHANGED <<saved, crashes>>

\* the controller opens without the rollout, which its journal still holds
RestartWithout ==
  /\ controller = "down" /\ ~Restorable(saved)
  /\ controller' = "without"
  /\ UNCHANGED <<vars, saved, inherited, told, crashes>>

Up(Step) == controller = "up" /\ Step /\ UNCHANGED <<inherited, told>>

RecoveryNext ==
  \/ Up(Drain) \/ Up(RecoveredCommand) \/ Up(RecoveredAdvance)
  \/ Up(Once(Reconcile)) \/ Up(Unwritten(Environment)) \/ Up(Crash)
  \/ Restart \/ RestartWithout
RecoverySpec == RecoveryInit /\ [][RecoveryNext]_allVars

(* The controller loop ticks for ever, the clock runs, and a dead           *)
(* controller is started again.                                             *)
RecoveryFairSpec ==
  /\ RecoverySpec
  /\ WF_allVars(Up(RecoveredAdvance /\ controller' = "up"))
  /\ \A c \in Cells : WF_allVars(Up(Unwritten(DeadlinePasses(c))))
  /\ \A s \in Stages : WF_allVars(Up(Unwritten(SoakElapses(s))))
  /\ WF_allVars(Restart \/ RestartWithout)
=============================================================================
