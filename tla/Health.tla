-------------------------------- MODULE Health --------------------------------
(***************************************************************************)
(* The health of a running stage: the probes the orchestrator sends         *)
(* (probe_health), the workers that answer them, the samples that come back *)
(* over connections that drop, and the gate that holds further work         *)
(* (health_gate_holds).                                                     *)
(*                                                                          *)
(* Time is discrete and relative: a time stamp is its age on the            *)
(* controller's clock, which is negative when it lies in the future, and    *)
(* ages beyond every limit are one.  A worker that starts has an opinion of *)
(* each target (its scenario), and answers for all of them.                 *)
(***************************************************************************)
EXTENDS Integers, Sequences, FiniteSetsExt

CONSTANTS
  Workers, Targets,
  Scenarios,      \* the sets of targets a worker may report healthy
  Lag,            \* health_age: how old a worker's observation of a target is
  Ahead,          \* how far a worker's clock is ahead of the controller's
  MaxAge,         \* max_age of the gate
  DefaultAge,     \* default_evidence_max_age_millis
  MaxSkew,        \* max_future_skew_millis
  MinConsecutive, \* min_consecutive_healthy
  MinHealthy,     \* what min_healthy_fraction requires of the cohort
  MaxPending,     \* max_connections, the ceiling of unanswered probes
  MaxDelay,       \* bound: how long a frame is on its way
  MaxRestarts     \* bound: how often the controller is restarted

ASSUME HealthAssumption ==
  /\ IsFiniteSet(Workers) /\ IsFiniteSet(Targets)
  /\ Lag \in [Targets -> Nat] /\ Ahead \in [Workers -> Nat]
  /\ {MaxAge, DefaultAge, MaxSkew, MinConsecutive, MaxDelay, MaxRestarts} \subseteq Nat
  /\ Scenarios \subseteq SUBSET Targets
  /\ MaxPending \in Nat \ {0} /\ MinHealthy \in 0..Cardinality(Targets)

VARIABLES
  (* the orchestrator *)
  admitted,    \* the targets dispatched so far
  changed,     \* those whose change succeeded, succeeded_total
  health,      \* the health fields of TargetRuntime
  sinceProbe,  \* the age of last_probe_at
  restarts,
  (* the adapter *)
  attached,    \* the workers with a usable connection
  pending,     \* pending_health_, the identifiers of unanswered probes
  toWorker, toController,
  (* the workers *)
  opinion,     \* the targets a worker reports healthy
  lastHealthy  \* history: the age of the latest healthy observation

stageVars == <<admitted, changed>>
orchestratorVars == <<stageVars, health, sinceProbe, restarts>>
wireVars == <<toWorker, toController>>
vars == <<orchestratorVars, attached, pending, wireVars, opinion, lastHealthy>>

\* policy: half the age a sample may have
Interval == MaxAge \div 2

\* an age no limit admits
Ancient == Max({MaxAge, DefaultAge}) + 1
Older(age) == IF age < Ancient THEN age + 1 ELSE Ancient

Never == [observed |-> FALSE, healthy |-> FALSE, streak |-> 0, age |-> Ancient]

Init ==
  /\ admitted = {} /\ changed = {} /\ health = [t \in Targets |-> Never]
  /\ sinceProbe = Interval + 1 /\ restarts = 0
  /\ attached = {} /\ pending = {}
  /\ toWorker = [w \in Workers |-> <<>>] /\ toController = [w \in Workers |-> <<>>]
  /\ opinion = [w \in Workers |-> {}]
  /\ lastHealthy = [t \in Targets |-> Ancient]

-----------------------------------------------------------------------------
(* The gate.                                                                *)

\* evaluate_freshness
Fresh(age, limit) == age <= limit /\ -age <= MaxSkew

Observed == {t \in Targets : health[t].observed}
HealthyCount == Cardinality({t \in Targets : health[t].healthy})

\* faulty: a population is as fresh as its latest observation
Youngest == Min({health[t].age : t \in Observed})
\* snapshot_for: a population is only as fresh as its stalest member
Oldest == Max({health[t].age : t \in Observed})

\* evaluate_health_gate
GateSatisfied ==
  /\ Observed # {} /\ Fresh(Oldest, MaxAge)
  /\ HealthyCount >= MinHealthy
  /\ \A t \in changed : health[t].healthy /\ health[t].streak >= MinConsecutive

\* work is held once something has changed
Held == changed # {} /\ ~GateSatisfied

\* dispatch_stage
Dispatch(t) ==
  /\ t \notin admitted /\ ~Held
  /\ admitted' = admitted \cup {t}
  /\ UNCHANGED <<changed, health, sinceProbe, restarts, attached, pending, wireVars, opinion,
                 lastHealthy>>

\* what was dispatched is changed at some time, held or not
Succeed(t) ==
  /\ t \in admitted \ changed
  /\ changed' = changed \cup {t}
  /\ UNCHANGED <<admitted, health, sinceProbe, restarts, attached, pending, wireVars, opinion,
                 lastHealthy>>

-----------------------------------------------------------------------------
(* Probes.                                                                  *)

\* faulty: a probe is sent when the last sample is about to expire
ProbeLate == sinceProbe > MaxAge
ProbeDue == sinceProbe > Interval

\* an identifier no probe has that may still be answered
NewProbe ==
  LET onWire == UNION {{q[i].id : i \in DOMAIN q} :
                         q \in {toWorker[w] : w \in Workers} \cup {toController[w] : w \in Workers}}
  IN  CHOOSE n \in 1..(Cardinality(pending \cup onWire) + 1) : n \notin pending \cup onWire

\* faulty: the ceiling is off by one
MayProbeOnceMore == Cardinality(pending) <= MaxPending
MayProbe == Cardinality(pending) < MaxPending

\* request_probe: every usable connection is asked
RequestProbe ==
  IF attached = {} \/ ~MayProbe
  THEN UNCHANGED <<pending, toWorker>>
  ELSE /\ pending' = pending \cup {NewProbe}
       /\ toWorker' = [w \in Workers |->
            IF w \in attached THEN Append(toWorker[w], [id |-> NewProbe, waited |-> 0])
            ELSE toWorker[w]]

\* probe_health: the time is noted whether or not the probe could be sent
Probe ==
  /\ ProbeDue /\ sinceProbe' = 0
  /\ RequestProbe
  /\ UNCHANGED <<stageVars, health, restarts, attached, toController, opinion, lastHealthy>>

\* the worker's handle_health
Answer(w) ==
  /\ w \in attached /\ toWorker[w] # <<>>
  /\ toWorker' = [toWorker EXCEPT ![w] = Tail(@)]
  /\ toController' = [toController EXCEPT ![w] = Append(@,
       [id |-> Head(toWorker[w]).id, waited |-> 0,
        age |-> [t \in Targets |-> Lag[t] - Ahead[w]], healthy |-> opinion[w]])]
  /\ lastHealthy' = [t \in Targets |->
       IF t \in opinion[w] THEN Min({Lag[t] - Ahead[w], lastHealthy[t]}) ELSE lastHealthy[t]]
  /\ UNCHANGED <<orchestratorVars, attached, pending, opinion>>

\* apply_health; a streak beyond what the gate asks for is as good
Sampled(h, age, healthy) ==
  [observed |-> TRUE, healthy |-> healthy, age |-> age,
   streak |-> IF ~healthy THEN 0 ELSE IF h.streak < MinConsecutive THEN h.streak + 1 ELSE h.streak]

\* apply_telemetry: samples are not matched to a probe, and a stale one is
\* dropped; each is stored before the next is applied
ApplyTelemetry(m, targets) ==
  health' = [t \in Targets |->
    IF t \in targets /\ Fresh(m.age[t], DefaultAge)
    THEN Sampled(health[t], m.age[t], t \in m.healthy) ELSE health[t]]

\* handle_health_response: the first answer settles the probe
Receive(w) ==
  /\ w \in attached /\ toController[w] # <<>>
  /\ toController' = [toController EXCEPT ![w] = Tail(@)]
  /\ pending' = pending \ {Head(toController[w]).id}
  /\ ApplyTelemetry(Head(toController[w]), Targets)
  /\ UNCHANGED <<stageVars, sinceProbe, restarts, attached, toWorker, opinion, lastHealthy>>

-----------------------------------------------------------------------------
(* Connections, restarts and time.                                          *)

\* a worker process starts, with a scenario of its own, and is attached
Attach(w) ==
  /\ w \notin attached
  /\ attached' = attached \cup {w}
  /\ \E healthy \in Scenarios : opinion' = [opinion EXCEPT ![w] = healthy]
  /\ UNCHANGED <<orchestratorVars, pending, wireVars, lastHealthy>>

\* the probes a lost connection was asked stay in the table, whose pruning
\* waits for more than it ever holds
Drop(w) ==
  /\ w \in attached
  /\ attached' = attached \ {w} /\ opinion' = [opinion EXCEPT ![w] = {}]
  /\ toWorker' = [toWorker EXCEPT ![w] = <<>>]
  /\ toController' = [toController EXCEPT ![w] = <<>>]
  /\ UNCHANGED <<orchestratorVars, pending, lastHealthy>>

\* a crash between the samples of an answer
CutShort ==
  \E w \in attached : \E targets \in SUBSET Targets :
    toController[w] # <<>> /\ ApplyTelemetry(Head(toController[w]), targets)

\* the snapshot holds the health of the targets and the times of it
Restart ==
  /\ restarts < MaxRestarts /\ restarts' = restarts + 1
  /\ sinceProbe' = Interval + 1 /\ pending' = {} /\ attached' = {}
  /\ opinion' = [w \in Workers |-> {}]
  /\ toWorker' = [w \in Workers |-> <<>>] /\ toController' = [w \in Workers |-> <<>>]
  /\ UNCHANGED health \/ CutShort
  /\ UNCHANGED <<stageVars, lastHealthy>>

Waits(queue) == [i \in DOMAIN queue |-> [queue[i] EXCEPT !.waited = @ + 1]]
Aged(queue) ==
  [i \in DOMAIN queue |->
     [queue[i] EXCEPT !.waited = @ + 1,
                      !.age = [t \in Targets |-> Older(queue[i].age[t])]]]

\* a unit of time is longer than a turn of the controller's loop, and no frame
\* takes more than MaxDelay
TimePasses ==
  /\ ~ProbeDue
  /\ \A w \in Workers : \A q \in {toWorker[w], toController[w]} :
       \A i \in DOMAIN q : q[i].waited < MaxDelay
  /\ sinceProbe' = sinceProbe + 1
  /\ health' = [t \in Targets |->
       IF health[t].observed THEN [health[t] EXCEPT !.age = Older(@)] ELSE health[t]]
  /\ toWorker' = [w \in Workers |-> Waits(toWorker[w])]
  /\ toController' = [w \in Workers |-> Aged(toController[w])]
  /\ lastHealthy' = [t \in Targets |-> Older(lastHealthy[t])]
  /\ UNCHANGED <<stageVars, restarts, attached, pending, opinion>>

Next ==
  \/ \E t \in Targets : Dispatch(t) \/ Succeed(t)
  \/ Probe
  \/ \E w \in Workers : Answer(w) \/ Receive(w) \/ Attach(w) \/ Drop(w)
  \/ Restart \/ TimePasses
Spec == Init /\ [][Next]_vars

(* The controller's loop and the workers' reactors turn, and the clock runs. *)
FairSpec ==
  /\ Spec
  /\ WF_vars(Probe) /\ WF_vars(TimePasses)
  /\ \A w \in Workers : WF_vars(Answer(w)) /\ WF_vars(Receive(w))
=============================================================================
