----------------------------- MODULE HealthSafety -----------------------------
(***************************************************************************)
(* What the health gate is for, though samples are late, workers disagree,  *)
(* connections drop and the controller restarts with the health it stored.  *)
(***************************************************************************)
EXTENDS Health

\* The variables hold values of their types, and no more probes are open than
\* there may be.
TypeOK ==
  /\ changed \subseteq admitted /\ admitted \subseteq Targets /\ attached \subseteq Workers
  /\ health \in [Targets -> [observed : BOOLEAN, healthy : BOOLEAN,
                             streak : 0..MinConsecutive, age : -MaxSkew..Ancient]]
  /\ sinceProbe \in 0..(Interval + 1)
  /\ Cardinality(pending) <= MaxPending
  /\ opinion \in [Workers -> SUBSET Targets] /\ DOMAIN lastHealthy = Targets

\* the targets some worker observed healthy, by its clock, within the age the
\* policy allows
Recently == {t \in Targets : lastHealthy[t] <= MaxAge}

\* Once one target is changed, no further one is dispatched unless each changed
\* one was observed healthy recently, and MinHealthy of the cohort were: "A
\* sample older than this cannot satisfy the gate no matter what it says"
\* (policy.hpp:90, orchestrator_advance.cpp:1171).
DispatchRestsOnHealth ==
  [][admitted' # admitted /\ changed # {} =>
       changed \subseteq Recently /\ Cardinality(Recently) >= MinHealthy]_vars

\* A cohort that all its workers report healthy, with clocks that agree, is not
\* held: probes are sent often enough that no sample expires before the next one
\* is there (orchestrator_advance.cpp:411), as long as the table of unanswered
\* probes has room.
Steady ==
  /\ attached # {} /\ \A w \in attached : opinion[w] = Targets /\ Ahead[w] <= MaxSkew
  /\ Cardinality(pending) < MaxPending
HealthyCohortIsNotHeld == <>[]Steady => <>[](~Held)
=============================================================================
