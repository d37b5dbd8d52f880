--------------------------- MODULE RecoverySafety ---------------------------
(***************************************************************************)
(* What a rollout promises across the death of its controller, whatever     *)
(* handler it dies in and whatever that handler has written by then.        *)
(***************************************************************************)
EXTENDS Recovery, RolloutSafety

(* The types of a restored rollout: a snapshot written half way through a   *)
(* handler never restores a state outside them.                             *)
RecoveryTypeOK ==
  /\ TypeOK
  /\ controller \in {"up", "down", "without"}
  /\ saved.cursor \in 1..(NumStages + 1) /\ saved.named \subseteq Cells
  /\ inherited \subseteq Attempts /\ told \subseteq Attempts
  /\ crashes \in 0..MaxCrashes

(* restore() rebuilds the attempt map from the targets: after any restart,  *)
(* and any answers of reconcile_outstanding(), outstanding_attempts counts  *)
(* the open attempts, each is its target's last and the target is changing, *)
(* a dispatched or unknown target has one, or it would wait for ever, and a *)
(* target counted as changed or as restored was reported completed for its  *)
(* last attempt: an epoch given out anew never takes over an older report.  *)
RestoredLedger ==
  controller = "up" =>
    /\ outstanding = Cardinality({a \in open : a.gen = generation})
    /\ \A a \in open : a.gen = generation =>
          /\ a = Current(a.cell)
          /\ targetState[a.cell] \in {"Dispatched", "Unknown", "RollingBack"}
    /\ \A c \in Cells :
          /\ targetState[c] \in {"Dispatched", "Unknown"} => Current(c) \in open
          /\ targetState[c] \in {"Succeeded", "RolledBack"} =>
               [attempt |-> Current(c), outcome |-> "completed"] \in reports

(* Work in flight, unknown to the controller or not, keeps to the limits.   *)
InFlight(ts) == {c \in Cells : ts[c] \in {"Dispatched", "Unknown"}}
LimitsHold == FitsLimits(InFlight(targetState))

(* The plan is followed across any death.  A stage found half way by a new  *)
(* incarnation is finished, not skipped: no work of a later stage exists    *)
(* before every earlier one succeeded, none of a stage behind its gate, and *)
(* a completed rollout has none left.  What a new incarnation dispatches on *)
(* top of what it inherits keeps to the limits and to the canary.           *)
PlanSurvives ==
  controller = "up" =>
    /\ StagesInOrder /\ CompletedIsSettled /\ GateHoldsWork
    /\ LimitsHold /\ CanaryBound

(* The journal's history of one generation runs forward: a newer snapshot   *)
(* never takes the cursor or an attempt epoch back (the epoch would be      *)
(* given out twice) and moves every target along the closed table.          *)
HistoryRunsForward ==
  [][saved'.generation = saved.generation =>
       /\ saved'.cursor >= saved.cursor
       /\ \A c \in Cells :
            /\ saved'.attemptsMade[c] >= saved.attemptsMade[c]
            /\ LegalTarget(saved.targetState[c], saved'.targetState[c])]_allVars
=============================================================================
