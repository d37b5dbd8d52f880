---------------------------- MODULE MCRecovery ----------------------------
(***************************************************************************)
(* Instances of a rollout whose controller dies and restarts.               *)
(***************************************************************************)
EXTENDS RecoverySafety, MCRollout

\* The first stage is tried one target at a time, behind a canary, is retried,
\* soaks and is cancelled by a pause; the second waits at its entry gate and, if
\* it is not healthy, at its advance gate, and is compensated in two steps.
RestartedPolicy ==
  [s \in 1..2 |->
     IF s = 1
     THEN [Lax EXCEPT !.maxAttempts = 2, !.canary = 1, !.failureBudget = 1,
                      !.concurrency = 1, !.soaks = TRUE, !.pauseInFlight = "cancel"]
     ELSE [Lax EXCEPT !.entryGate = "manual", !.advanceGate = "manual",
                      !.healthyFraction = TRUE, !.compensation = 2]]

CohortTwoThenOne == [s \in 1..2 |-> IF s = 1 THEN {1, 2} ELSE {1}]

\* Three stages with automatic gates: retries, canaries, budgets and a soak.
AutomaticPolicy ==
  [s \in 1..3 |->
     [Lax EXCEPT !.maxAttempts = 2, !.canary = 1, !.soaks = (s = 1),
                 !.failureBudget = IF s = 2 THEN 1 ELSE 0, !.concurrency = 1]]

CohortOneTwoOne == [s \in 1..3 |-> IF s = 2 THEN {1, 2} ELSE {1}]
Chain3 == [s \in 1..3 |-> 1..(s - 1)]
=============================================================================
