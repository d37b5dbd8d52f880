------------------------------- MODULE MCHealth -------------------------------
(* Two targets, one of which is always observed late, and two                 *)
(* workers, one of which has its clock further ahead than is tolerated.       *)
EXTENDS HealthSafety

CONSTANTS w1, w2, t1, t2

MCWorkers == {w1, w2}
MCTargets == {t1, t2}
MCScenarios == {{t1}, MCTargets}
MCLag == [t \in MCTargets |-> IF t = t1 THEN 0 ELSE 2]
MCAhead == [w \in MCWorkers |-> IF w = w1 THEN 0 ELSE 2]
=============================================================================
