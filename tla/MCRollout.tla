----------------------------- MODULE MCRollout -----------------------------
(***************************************************************************)
(* Instances of one rollout for TLC.  Targets are 1..4; each plan below is  *)
(* small but lets the behaviours its run is about meet.                     *)
(***************************************************************************)
EXTENDS RolloutSafety

Lax ==
  [concurrency |-> 2, maxAttempts |-> 1, failureBudget |-> 0,
   canary |-> 0, canaryHealth |-> FALSE,
   healthGate |-> FALSE, healthyFraction |-> FALSE, soaks |-> FALSE,
   entryGate |-> "automatic", evidenceGate |-> "automatic",
   advanceGate |-> "automatic", pauseInFlight |-> "let_finish",
   compensation |-> 0,
   global |-> 3, stage |-> 3, domain |-> 3, domains |-> 3,
   rack |-> 3, pod |-> 3, site |-> 3]

\* every target alone in its failure domain; targets 1 and 2 share a rack
MCPlacement ==
  [t \in 1..4 |-> [domain |-> t, rack |-> <<"r1", "r1", "r2", "r3">>[t],
                   pod |-> Unplaced, site |-> "s1"]]
NoPreds1 == [s \in 1..1 |-> {}]
\* stages that name no predecessor still run in plan order
NoPreds2 == [s \in 1..2 |-> {}]
Chain2 == [s \in 1..2 |-> 1..(s - 1)]

One == 1..1
Two == 1..2
Four == 1..4
Cohort1 == [s \in 1..1 |-> {1}]
Cohort1234 == [s \in 1..1 |-> 1..4]
CohortTwoStages == [s \in 1..2 |-> IF s = 1 THEN {1} ELSE {1, 2}]

\* retries, a canary of one, a budget of one, a rack limit, a health gate
CohortPolicy ==
  [s \in 1..1 |-> [Lax EXCEPT !.maxAttempts = 2, !.failureBudget = 1,
                     !.canary = 1, !.canaryHealth = TRUE, !.healthGate = TRUE,
                     !.healthyFraction = TRUE, !.rack = 1]]

\* every kind of manual gate, a soak, and compensation in both stages: a
\* cancelling pause in the first, two compensation steps in the second
GatedPolicy ==
  [s \in 1..2 |->
     IF s = 1
     THEN [Lax EXCEPT !.evidenceGate = "manual", !.advanceGate = "manual",
                      !.failureBudget = 1, !.healthyFraction = TRUE,
                      !.pauseInFlight = "cancel", !.compensation = 1]
     ELSE [Lax EXCEPT !.entryGate = "manual", !.advanceGate = "manual",
                      !.healthyFraction = TRUE, !.soaks = TRUE,
                      !.compensation = 2]]

\* one target, retried, over two generations
RetriedPolicy ==
  [s \in 1..1 |-> [Lax EXCEPT !.maxAttempts = 2, !.compensation = 1,
                                      !.pauseInFlight = "cancel"]]

\* stages that declare one step of compensation
UndoablePolicy == [s \in Stages |-> [Lax EXCEPT !.compensation = 1]]

=============================================================================
