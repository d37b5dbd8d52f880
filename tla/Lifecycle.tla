----------------------------- MODULE Lifecycle -----------------------------
(***************************************************************************)
(* The three closed transition tables of Rollout Fabric (lifecycle.cpp):    *)
(* rollout, stage and target.  A state is named as in the source without    *)
(* its leading k.  Staying in a state is always accepted by the callers     *)
(* and writes nothing, so no table lists a state as its own successor.      *)
(***************************************************************************)

\* legal_transition(RolloutState, RolloutState)
RolloutSuccessors ==
  [Created     |-> {"Validated", "Retired"},
   Validated   |-> {"Armed", "Retired"},
   Armed       |-> {"Running", "Gated", "Paused", "Aborting", "Failed", "Retired"},
   Running     |-> {"Gated", "Soaking", "Advancing", "Paused", "Aborting",
                    "RollingBack", "Failed", "Completed"},
   Gated       |-> {"Running", "Advancing", "Paused", "Aborting", "RollingBack",
                    "Failed", "Completed"},
   Soaking     |-> {"Running", "Advancing", "Gated", "Paused", "Aborting",
                    "RollingBack", "Failed", "Completed"},
   Advancing   |-> {"Running", "Gated", "Paused", "Aborting", "RollingBack",
                    "Failed", "Completed"},
   Paused      |-> {"Armed", "Running", "Gated", "Soaking", "Advancing",
                    "Aborting", "RollingBack", "Failed", "Retired"},
   Aborting    |-> {"RollingBack", "Failed", "Completed", "Retired"},
   RollingBack |-> {"Failed", "Completed", "Retired"},
   Failed      |-> {"Retired"},
   Completed   |-> {"Retired"},
   Retired     |-> {}]

RolloutStates == DOMAIN RolloutSuccessors

\* legal_transition(StageState, StageState)
StageSuccessors ==
  [Pending    |-> {"Blocked", "Armed", "Gated", "Skipped"},
   Blocked    |-> {"Armed", "Aborted", "Skipped"},
   Armed      |-> {"Running", "Gated", "Aborted", "RolledBack", "Skipped"},
   Running    |-> {"Gated", "Soaking", "Advancing", "Succeeded", "Failed",
                   "Aborted", "RolledBack"},
   Gated      |-> {"Running", "Advancing", "Failed", "Aborted", "RolledBack"},
   Soaking    |-> {"Running", "Advancing", "Failed", "Aborted", "RolledBack"},
   Advancing  |-> {"Running", "Succeeded", "Failed", "Aborted", "RolledBack"},
   Succeeded  |-> {"RolledBack"},
   Failed     |-> {"RolledBack"},
   Aborted    |-> {"RolledBack"},
   RolledBack |-> {},
   Skipped    |-> {}]

StageStates == DOMAIN StageSuccessors

\* legal_transition(TargetState, TargetState)
TargetSuccessors ==
  [Pending        |-> {"Dispatched", "Cancelled", "Exhausted", "Unknown"},
   Dispatched     |-> {"Pending", "Succeeded", "Failed", "Cancelled", "Unknown",
                       "Exhausted"},
   Unknown        |-> {"Pending", "Dispatched", "Succeeded", "Failed",
                       "Cancelled", "Exhausted"},
   Succeeded      |-> {"RollingBack"},
   Failed         |-> {"RollingBack", "Exhausted"},
   Cancelled      |-> {"RollingBack", "Exhausted"},
   RollingBack    |-> {"RolledBack", "RollbackFailed"},
   RolledBack     |-> {},
   RollbackFailed |-> {},
   Exhausted      |-> {}]

TargetStates == DOMAIN TargetSuccessors

LegalRollout(from, to) == from = to \/ to \in RolloutSuccessors[from]
LegalStage(from, to)   == from = to \/ to \in StageSuccessors[from]
LegalTarget(from, to)  == from = to \/ to \in TargetSuccessors[from]

\* is_terminal
TerminalRollout == {"Failed", "Completed", "Retired"}
TerminalStage   == {"Succeeded", "Failed", "Aborted", "RolledBack", "Skipped"}
TerminalTarget  == {"Succeeded", "Failed", "Cancelled", "RolledBack",
                    "RollbackFailed", "Exhausted"}

\* can_pause
Pausable == {"Armed", "Running", "Gated", "Soaking", "Advancing"}
=============================================================================
