------------------------------ MODULE Planner ------------------------------
(***************************************************************************)
(* The dispatch planner (orchestrator_dispatch.cpp): which pending targets  *)
(* of a stage one tick may dispatch, given concurrency, blast radius and    *)
(* the canary.  The planner is pure: it reads the rollout as it stands      *)
(* before the batch, passed here as                                         *)
(*   ts      the state of every cell,                                       *)
(*   made    the number of attempts made for every cell,                    *)
(*   cleared whether the stage's canary has cleared.                        *)
(* A cell <<s, t>> is the TargetRuntime of target t in stage s: the same    *)
(* target may belong to several stages.                                     *)
(***************************************************************************)
EXTENDS Lifecycle, Integers, FiniteSets

CONSTANTS
  NumStages,        \* stages in execution order, 1..NumStages
  Targets,          \* integers: find_target keeps a stage's targets sorted
  Cohort,           \* Cohort[s] is the frozen membership of stage s
  Preds,            \* Preds[s] are the stages s names as predecessors
  Policy,           \* Policy[s] is the StagePolicy of stage s
  Placement,        \* Placement[t] is the inventory placement of target t
  MaxDispatchBatch  \* RuntimeLimits::max_dispatch_batch

Stages == 1..NumStages
Cells == {c \in Stages \X Targets : c[2] \in Cohort[c[1]]}
StageCells(s) == {c \in Cells : c[1] = s}

GateModes == {"automatic", "manual"}
Unplaced == "none"                       \* an empty rack, pod or site name
Dimensions == {"rack", "pod", "site"}

(* What StagePolicy::validate and the plan's validation accept.  Fractions  *)
(* are replaced by what they decide: failureBudget is failure_budget(stage) *)
(* and healthyFraction says whether a positive fraction must be healthy.    *)
PolicyRecords ==
  [concurrency : Nat \ {0}, maxAttempts : Nat \ {0}, failureBudget : Nat,
   canary : Nat, canaryHealth : BOOLEAN,
   healthGate : BOOLEAN, healthyFraction : BOOLEAN, soaks : BOOLEAN,
   entryGate : GateModes, evidenceGate : GateModes, advanceGate : GateModes,
   pauseInFlight : {"let_finish", "cancel"}, compensation : Nat,
   global : Nat \ {0}, stage : Nat \ {0}, domain : Nat \ {0},
   domains : Nat \ {0}, rack : Nat \ {0}, pod : Nat \ {0}, site : Nat \ {0}]

ASSUME PlanAssumption ==
  /\ NumStages \in Nat \ {0}
  /\ Targets \subseteq Int /\ IsFiniteSet(Targets)
  /\ Cohort \in [Stages -> SUBSET Targets]
  /\ \A s \in Stages : Cohort[s] # {}
  /\ Preds \in [Stages -> SUBSET Stages]
  /\ \A s \in Stages : \A p \in Preds[s] : p < s
  /\ Policy \in [Stages -> PolicyRecords]
  /\ \A s \in Stages : Policy[s].stage <= Policy[s].global
  /\ MaxDispatchBatch \in Nat \ {0}

-----------------------------------------------------------------------------
Least(a, b) == IF a <= b THEN a ELSE b

\* TargetRuntime::counts_as_changing, changing_count
CountsAsChanging(state) == state \in {"Dispatched", "Unknown", "RollingBack"}
Changing(ts) == {c \in Cells : CountsAsChanging(ts[c])}
ChangingIn(ts, s) == Changing(ts) \cap StageCells(s)

\* usage_around: the cells already changing that share a place with target t
Beside(ts, t, dim) ==
  {c \in Changing(ts) : Placement[c[2]][dim] = Placement[t][dim]}
ChangingDomains(ts) == {Placement[c[2]].domain : c \in Changing(ts)}

(* blast_radius_admits: the global and stage limits, then every dimension,  *)
(* against what was changing before this tick's batch.                      *)
BlastRadiusAdmits(ts, s, t) ==
  /\ Cardinality(Changing(ts)) < Policy[s].global
  /\ Cardinality(ChangingIn(ts, s)) < Policy[s].stage
  /\ Cardinality(Beside(ts, t, "domain")) < Policy[s].domain
  /\ \/ Placement[t].domain \in ChangingDomains(ts)
     \/ Cardinality(ChangingDomains(ts)) < Policy[s].domains
  /\ \A d \in Dimensions :
        \/ Placement[t][d] = Unplaced
        \/ Cardinality(Beside(ts, t, d)) < Policy[s][d]

\* faulty: the whole limit again, not what is left of it
FullCapacity(ts, s) ==
  LET room == Least(Policy[s].concurrency, MaxDispatchBatch)
  IN  Least(room, Least(Policy[s].stage, Policy[s].global))

(* How many dispatches one tick may make: what is left of the concurrency,  *)
(* of the batch limit, and of the stage and global blast radius.            *)
Capacity(ts, s) ==
  LET busy == Cardinality(ChangingIn(ts, s))
      room == Least(Policy[s].concurrency - busy, MaxDispatchBatch)
  IN  Least(room, Least(Policy[s].stage - busy,
                        Policy[s].global - Cardinality(Changing(ts))))

\* The cells of S (all of one stage) that have fewer than n of S before them.
FirstOf(n, S) == {c \in S : Cardinality({d \in S : d[2] < c[2]}) < n}

Attempted(made, s) == {c \in StageCells(s) : made[c] > 0}

\* faulty: targets admitted by earlier ticks are not counted
CanaryPerTick(S, s, made, cleared) ==
  IF cleared \/ Policy[s].canary = 0
  THEN S
  ELSE {c \in S : made[c] > 0}
         \cup FirstOf(Policy[s].canary, {c \in S : made[c] = 0})

(* While the canary is active a target never tried before is admitted only  *)
(* into the slots the batch has left; a retry is not a new admission.       *)
CanaryAdmits(S, s, made, cleared) ==
  IF cleared \/ Policy[s].canary = 0
  THEN S
  ELSE {c \in S : made[c] > 0}
         \cup FirstOf(Policy[s].canary - Cardinality(Attempted(made, s)),
                      {c \in S : made[c] = 0})

\* plan_dispatch: the batch, in target order, cut off at the capacity
PlanDispatch(ts, made, cleared, s) ==
  LET eligible == {c \in StageCells(s) : /\ ts[c] = "Pending"
                                         /\ BlastRadiusAdmits(ts, s, c[2])}
  IN  FirstOf(Capacity(ts, s), CanaryAdmits(eligible, s, made, cleared))
=============================================================================
