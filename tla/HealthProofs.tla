----------------------------- MODULE HealthProofs -----------------------------
(***************************************************************************)
(* Theorems about the health gate: no further target is dispatched on       *)
(* samples that are too old, whatever becomes of the samples on their way.  *)
(***************************************************************************)
EXTENDS HealthSafety, FiniteSetTheorems, WellFoundedInduction, TLAPS

-----------------------------------------------------------------------------
(* The inductive invariant.                                                 *)

Probes == [id : Nat, waited : Nat]
Samples == [id : Nat, waited : Nat, age : [Targets -> Int], healthy : SUBSET Targets]

(* What TypeOK leaves open: probes and samples on their way.                *)
WellTyped ==
  /\ TypeOK
  /\ pending \in SUBSET Nat /\ IsFiniteSet(pending)
  /\ lastHealthy \in [Targets -> Int]
  /\ toWorker \in [Workers -> Seq(Probes)] /\ toController \in [Workers -> Seq(Samples)]

(* What the controller holds healthy was observed healthy no longer ago     *)
(* than it believes.                                                        *)
Attested ==
  \A t \in Targets : health[t].healthy =>
    health[t].observed /\ lastHealthy[t] <= health[t].age

(* So was what a sample on its way says: both grow old together.            *)
AttestedOnWire ==
  \A w \in Workers : \A i \in DOMAIN toController[w] :
    \A t \in toController[w][i].healthy : lastHealthy[t] <= toController[w][i].age[t]

HealthInv == WellTyped /\ Attested /\ AttestedOnWire

-----------------------------------------------------------------------------
(* Numbers: the least and the greatest of a set, the ages.                  *)

LEMMA LeastNatural ==
  ASSUME NEW S \in SUBSET Nat, S # {}
  PROVE  \E n \in S : \A m \in S : n <= m
<1> DEFINE R == OpToRel(<, Nat)
<1>1. IsWellFoundedOn(R, Nat)
  BY NatLessThanWellFounded
<1>2. PICK n \in S : \A m \in S : <<m, n>> \notin R
  BY <1>1, WFMin
<1>3. \A m \in S : ~(m < n)
  BY <1>2 DEF OpToRel
<1> QED  BY <1>3

(* A bounded set of integers has a greatest element, which Max chooses.     *)
LEMMA MaxOfBounded ==
  ASSUME NEW S \in SUBSET Int, S # {}, NEW top \in Int, \A x \in S : x <= top
  PROVE  Max(S) \in S /\ \A x \in S : x <= Max(S)
<1> DEFINE gaps == {n \in Nat : top - n \in S}
<1>1. PICK x \in S : TRUE
  OBVIOUS
<1>2. top - x \in gaps
  <2>1. top - x \in Nat /\ top - (top - x) = x
    OBVIOUS
  <2> QED  BY <2>1, <1>1
<1>3. PICK n \in gaps : \A m \in gaps : n <= m
  BY <1>2, LeastNatural
<1>4. top - n \in S /\ \A y \in S : top - n >= y
  <2>1. top - n \in S /\ n \in Nat
    BY <1>3
  <2>2. ASSUME NEW y \in S PROVE top - n >= y
    <3>1. top - y \in Nat /\ top - (top - y) = y
      OBVIOUS
    <3>2. top - y \in gaps
      BY <3>1
    <3>3. n <= top - y
      BY <1>3, <3>2
    <3> QED  BY <2>1, <3>3
  <2> QED  BY <2>1, <2>2
<1> QED  BY <1>4 DEF Max

LEMMA AncientIs == Ancient \in Nat /\ MaxAge < Ancient /\ DefaultAge < Ancient /\ Interval \in Nat
<1>1. MaxAge \in Nat /\ DefaultAge \in Nat
  BY HealthAssumption
<1>2. Max({MaxAge, DefaultAge}) \in {MaxAge, DefaultAge} /\ \A x \in {MaxAge, DefaultAge} : x <= Max({MaxAge, DefaultAge})
  <2>1. \A x \in {MaxAge, DefaultAge} : x <= MaxAge + DefaultAge
    BY <1>1
  <2>2. {MaxAge, DefaultAge} \in SUBSET Int /\ {MaxAge, DefaultAge} # {} /\ MaxAge + DefaultAge \in Int
    BY <1>1
  <2> HIDE <1>1
  <2> QED  BY <2>1, <2>2, MaxOfBounded
<1> QED  BY <1>1, <1>2 DEF Ancient, Interval

(* Growing old keeps the order of ages.                                     *)
LEMMA OlderKeepsOrder ==
  ASSUME NEW a \in Int, NEW b \in Int
  PROVE  /\ Older(a) \in Int /\ (a <= b => Older(a) <= Older(b))
         /\ a \in -MaxSkew..Ancient => Older(a) \in -MaxSkew..Ancient
BY AncientIs, HealthAssumption DEF Older

(* An age that apply_telemetry lets in.                                     *)
LEMMA FreshIsInRange ==
  ASSUME NEW a \in Int, Fresh(a, DefaultAge)
  PROVE  a \in -MaxSkew..Ancient
<1>1. MaxSkew \in Nat /\ DefaultAge \in Nat
  BY HealthAssumption
<1> QED  BY <1>1, AncientIs DEF Fresh

LEMMA AgesAreIntegers == \A a \in -MaxSkew..Ancient : a \in Int
<1>1. MaxSkew \in Nat /\ Ancient \in Nat
  BY AncientIs, HealthAssumption
<1> QED  BY <1>1

(* The health fields of a target, and what a sample makes of them.          *)
Fields == [observed : BOOLEAN, healthy : BOOLEAN, streak : 0..MinConsecutive,
           age : -MaxSkew..Ancient]

LEMMA SampledIs ==
  ASSUME NEW h \in Fields, NEW age \in -MaxSkew..Ancient, NEW healthy \in BOOLEAN
  PROVE  /\ Sampled(h, age, healthy) \in Fields
         /\ Sampled(h, age, healthy).observed /\ Sampled(h, age, healthy).healthy = healthy
         /\ Sampled(h, age, healthy).age = age
<1>1. MinConsecutive \in Nat
  BY HealthAssumption
<1> QED  BY <1>1 DEF Sampled, Fields

-----------------------------------------------------------------------------
(* Probes.                                                                  *)

(* The values of a function on a finite set are finitely many.              *)
LEMMA ImageIsFinite ==
  ASSUME NEW S, IsFiniteSet(S), NEW f, DOMAIN f = S
  PROVE  IsFiniteSet({f[x] : x \in S})
<1> DEFINE T == {f[x] : x \in S}
           g == [x \in S |-> f[x]]
<1>1. g \in Surjection(S, T)
  BY DEF Surjection
<1> QED  BY <1>1, FS_Surjection

(* request_probe always finds an identifier that nothing may answer yet.    *)
LEMMA NewProbeIsFree ==
  ASSUME WellTyped
  PROVE  NewProbe \in Nat /\ NewProbe \notin pending
<1> DEFINE queues == {toWorker[w] : w \in Workers} \cup {toController[w] : w \in Workers}
           ids == [q \in queues |-> {q[i].id : i \in DOMAIN q}]
           onWire == UNION {{q[i].id : i \in DOMAIN q} :
                       q \in {toWorker[w] : w \in Workers} \cup {toController[w] : w \in Workers}}
           taken == pending \cup onWire
           n == Cardinality(taken)
<1>1. IsFiniteSet(Workers) /\ DOMAIN toWorker = Workers /\ DOMAIN toController = Workers
  BY HealthAssumption DEF WellTyped
<1>2. IsFiniteSet(queues)
  <2>1. \A g : DOMAIN g = Workers => IsFiniteSet({g[w] : w \in Workers})
    BY <1>1, ImageIsFinite
  <2>2. IsFiniteSet({toWorker[w] : w \in Workers}) /\ IsFiniteSet({toController[w] : w \in Workers})
    BY <1>1, <2>1
  <2> QED  BY <2>2, FS_Union
<1>3. \A q \in queues : IsFiniteSet(ids[q])
  <2> TAKE q \in queues
  <2>1. q \in Seq(Probes) \/ q \in Seq(Samples)
    BY DEF WellTyped
  <2>2. DOMAIN q = 1..Len(q) /\ Len(q) \in Nat
    BY <2>1
  <2>3. IsFiniteSet(DOMAIN q)
    BY <2>2, FS_Interval
  <2> DEFINE f == [i \in DOMAIN q |-> q[i].id]
  <2>4. DOMAIN f = DOMAIN q /\ ids[q] = {f[i] : i \in DOMAIN q}
    OBVIOUS
  <2> HIDE DEF f, ids, queues, onWire, taken, n
  <2>5. \A g : DOMAIN g = DOMAIN q => IsFiniteSet({g[i] : i \in DOMAIN q})
    BY <2>3, ImageIsFinite
  <2> QED  BY <2>4, <2>5
<1>4. IsFiniteSet(onWire)
  <2>0. DOMAIN ids = queues
    OBVIOUS
  <2>1. IsFiniteSet({ids[q] : q \in queues})
    <3> HIDE DEF queues, ids
    <3> QED  BY <1>2, <2>0, ImageIsFinite
  <2>2. onWire = UNION {ids[q] : q \in queues}
    <3>1. \A q \in queues : ids[q] = {q[i].id : i \in DOMAIN q}
      OBVIOUS
    <3>2. onWire = UNION {{q[i].id : i \in DOMAIN q} : q \in queues}
      OBVIOUS
    <3> HIDE DEF ids, queues
    <3> QED  BY <3>1, <3>2
  <2>3. \A T \in {ids[q] : q \in queues} : IsFiniteSet(T)
    BY <1>3
  <2> HIDE DEF queues, ids, onWire
  <2> QED  BY <2>1, <2>2, <2>3, FS_UNION
<1>5. IsFiniteSet(taken) /\ n \in Nat
  <2> HIDE DEF onWire
  <2> QED  BY <1>4, FS_Union, FS_CardinalityType DEF WellTyped
<1>6. \E m \in 1..(n + 1) : m \notin taken
  <2> HIDE DEF taken
  <2> SUFFICES ASSUME 1..(n + 1) \subseteq taken PROVE FALSE
    OBVIOUS
  <2>1. Cardinality(1..(n + 1)) <= n
    BY <1>5, FS_Subset
  <2>2. Cardinality(1..(n + 1)) = n + 1
    BY <1>5, FS_Interval
  <2> QED  BY <1>5, <2>1, <2>2
<1>7. NewProbe \in 1..(n + 1) /\ NewProbe \notin taken
  BY <1>6 DEF NewProbe
<1> QED  BY <1>5, <1>7

-----------------------------------------------------------------------------
(* The steps.                                                               *)

LEMMA InitIsHealthy == Init => HealthInv
<1> SUFFICES ASSUME Init PROVE HealthInv
  OBVIOUS
<1>1. MaxSkew \in Nat /\ MinConsecutive \in Nat /\ MaxPending \in Nat
  BY HealthAssumption
<1>2. Never \in [observed : BOOLEAN, healthy : BOOLEAN, streak : 0..MinConsecutive,
                 age : -MaxSkew..Ancient]
  BY <1>1, AncientIs DEF Never
<1>3. pending \in SUBSET Nat /\ IsFiniteSet(pending) /\ Cardinality(pending) <= MaxPending
  BY <1>1, FS_EmptySet DEF Init
<1>4. TypeOK
  BY <1>2, <1>3, AncientIs DEF Init, TypeOK
<1>5. WellTyped
  BY <1>3, <1>4, AncientIs DEF Init, WellTyped
<1> QED  BY <1>5 DEF Init, HealthInv, Attested, AttestedOnWire, Never

LEMMA DispatchKeepsHealthInv ==
  ASSUME HealthInv, NEW t \in Targets, Dispatch(t) \/ Succeed(t)
  PROVE  HealthInv'
BY DEF HealthInv, WellTyped, TypeOK, Attested, AttestedOnWire, Dispatch, Succeed, wireVars

LEMMA ProbeKeepsHealthInv ==
  ASSUME HealthInv, Probe
  PROVE  HealthInv'
<1>1. UNCHANGED <<stageVars, health, restarts, attached, toController, opinion, lastHealthy>>
  BY DEF Probe
<1>2. /\ pending' \in SUBSET Nat /\ IsFiniteSet(pending') /\ Cardinality(pending') <= MaxPending
      /\ toWorker' \in [Workers -> Seq(Probes)]
  <2>1. CASE UNCHANGED <<pending, toWorker>>
    BY <2>1 DEF HealthInv, WellTyped, TypeOK
  <2>2. CASE ~UNCHANGED <<pending, toWorker>>
    <3>1. /\ MayProbe /\ pending' = pending \cup {NewProbe}
          /\ toWorker' = [w \in Workers |->
               IF w \in attached THEN Append(toWorker[w], [id |-> NewProbe, waited |-> 0])
               ELSE toWorker[w]]
      BY <2>2 DEF Probe, RequestProbe
    <3>2. NewProbe \in Nat /\ NewProbe \notin pending
      BY NewProbeIsFree DEF HealthInv
    <3>3. IsFiniteSet(pending) /\ Cardinality(pending) \in Nat /\ MaxPending \in Nat
      BY FS_CardinalityType, HealthAssumption DEF HealthInv, WellTyped
    <3>4. IsFiniteSet(pending') /\ Cardinality(pending') = Cardinality(pending) + 1
      BY <3>1, <3>2, <3>3, FS_AddElement
    <3>5. [id |-> NewProbe, waited |-> 0] \in Probes
      BY <3>2 DEF Probes
    <3>6. toWorker' \in [Workers -> Seq(Probes)]
      BY <3>1, <3>5 DEF HealthInv, WellTyped
    <3> QED  BY <3>1, <3>2, <3>3, <3>4, <3>6 DEF MayProbe, HealthInv, WellTyped
  <2> QED  BY <2>1, <2>2
<1>3. sinceProbe' \in 0..(Interval + 1)
  BY AncientIs DEF Probe
<1> QED  BY <1>1, <1>2, <1>3 DEF HealthInv, WellTyped, TypeOK, Attested, AttestedOnWire, stageVars

(* handle_health: what a worker observed healthy is noted, and said.        *)
LEMMA AnswerKeepsHealthInv ==
  ASSUME HealthInv, NEW w \in Workers, Answer(w)
  PROVE  HealthInv'
<1> DEFINE m == [id |-> Head(toWorker[w]).id, waited |-> 0,
                 age |-> [t \in Targets |-> Lag[t] - Ahead[w]], healthy |-> opinion[w]]
<1>1. toController' = [toController EXCEPT ![w] = Append(@, m)]
  BY DEF Answer
<1>2. /\ toWorker[w] \in Seq(Probes) /\ toWorker[w] # <<>>
      /\ toController \in [Workers -> Seq(Samples)] /\ opinion[w] \subseteq Targets
  BY DEF HealthInv, WellTyped, TypeOK, Answer
<1>3. \A t \in Targets : Lag[t] - Ahead[w] \in Int
  BY HealthAssumption
<1>4. m \in Samples
  <2>1. Head(toWorker[w]) \in Probes
    BY <1>2
  <2> QED  BY <1>2, <1>3, <2>1 DEF Probes, Samples
<1>5. \A t \in Targets :
        /\ lastHealthy'[t] \in Int /\ lastHealthy'[t] <= lastHealthy[t]
        /\ t \in opinion[w] => lastHealthy'[t] <= Lag[t] - Ahead[w]
  <2> TAKE t \in Targets
  <2>1. lastHealthy[t] \in Int /\ Lag[t] - Ahead[w] \in Int
    BY <1>3 DEF HealthInv, WellTyped
  <2>2. Min({Lag[t] - Ahead[w], lastHealthy[t]}) =
          IF Lag[t] - Ahead[w] <= lastHealthy[t] THEN Lag[t] - Ahead[w] ELSE lastHealthy[t]
    BY <2>1 DEF Min
  <2>3. lastHealthy'[t] = IF t \in opinion[w] THEN Min({Lag[t] - Ahead[w], lastHealthy[t]})
                          ELSE lastHealthy[t]
    BY DEF Answer
  <2> QED  BY <2>1, <2>2, <2>3
<1>6. DOMAIN lastHealthy' = Targets /\ lastHealthy' \in [Targets -> Int]
  BY <1>5 DEF Answer
<1>7. toController' \in [Workers -> Seq(Samples)] /\ toWorker' \in [Workers -> Seq(Probes)]
  BY <1>1, <1>2, <1>4 DEF Answer, HealthInv, WellTyped
<1>8. WellTyped'
  BY <1>6, <1>7 DEF HealthInv, WellTyped, TypeOK, Answer, orchestratorVars, stageVars
<1>9. Attested'
  <2> SUFFICES ASSUME NEW t \in Targets, health'[t].healthy
               PROVE  health'[t].observed /\ lastHealthy'[t] <= health'[t].age
    BY DEF Attested
  <2>1. health' = health
    BY DEF Answer, orchestratorVars
  <2>2. health[t].observed /\ lastHealthy[t] <= health[t].age
    BY <2>1 DEF HealthInv, Attested
  <2>3. health[t].age \in Int /\ lastHealthy[t] \in Int
    BY AncientIs, HealthAssumption DEF HealthInv, WellTyped, TypeOK
  <2> QED  BY <1>5, <2>1, <2>2, <2>3
<1>10. AttestedOnWire'
  <2> SUFFICES ASSUME NEW v \in Workers, NEW i \in DOMAIN toController'[v],
                      NEW t \in toController'[v][i].healthy
               PROVE  lastHealthy'[t] <= toController'[v][i].age[t]
    BY DEF AttestedOnWire
  <2>1. CASE v = w /\ i = Len(toController[w]) + 1
    <3>1. toController'[v][i] = m
      BY <1>1, <1>2, <1>4, <2>1
    <3> QED  BY <1>2, <1>5, <3>1
  <2>2. CASE ~(v = w /\ i = Len(toController[w]) + 1)
    <3>1. i \in DOMAIN toController[v] /\ toController'[v][i] = toController[v][i]
      BY <1>1, <1>2, <1>4, <2>2
    <3>2. toController[v][i] \in Samples
      BY <1>2, <3>1
    <3>3. /\ t \in Targets /\ lastHealthy[t] <= toController[v][i].age[t]
          /\ toController[v][i].age[t] \in Int /\ lastHealthy[t] \in Int
      BY <3>1, <3>2 DEF HealthInv, WellTyped, AttestedOnWire, Samples
    <3> QED  BY <1>5, <3>1, <3>3
  <2> QED  BY <2>1, <2>2
<1> QED  BY <1>8, <1>9, <1>10 DEF HealthInv

(* apply_telemetry: a sample is as old as it says when it is stored, and so  *)
(* is each of those a crash has left of an answer.                          *)
LEMMA TelemetryIsAttested ==
  ASSUME HealthInv, NEW w \in Workers, toController[w] # <<>>, NEW targets \in SUBSET Targets,
         ApplyTelemetry(Head(toController[w]), targets), UNCHANGED lastHealthy
  PROVE  /\ health' \in [Targets -> [observed : BOOLEAN, healthy : BOOLEAN,
                                     streak : 0..MinConsecutive, age : -MaxSkew..Ancient]]
         /\ Attested'
<1> DEFINE m == Head(toController[w])
<1>2. m \in Samples /\ 1 \in DOMAIN toController[w] /\ m = toController[w][1]
  BY DEF HealthInv, WellTyped
<1>3. \A t \in Targets :
        \/ health'[t] = health[t]
        \/ /\ m.age[t] \in -MaxSkew..Ancient
           /\ health'[t] = Sampled(health[t], m.age[t], t \in m.healthy)
  <2>1. \A t \in Targets : m.age[t] \in Int
    BY <1>2 DEF Samples
  <2> QED  BY <2>1, FreshIsInRange DEF ApplyTelemetry
<1>4. health' \in [Targets -> [observed : BOOLEAN, healthy : BOOLEAN,
                               streak : 0..MinConsecutive, age : -MaxSkew..Ancient]]
  <2>1. DOMAIN health' = Targets
    BY DEF ApplyTelemetry
  <2>2. \A t \in Targets : health'[t] \in [observed : BOOLEAN, healthy : BOOLEAN,
                                           streak : 0..MinConsecutive, age : -MaxSkew..Ancient]
    <3> TAKE t \in Targets
    <3>1. health[t] \in [observed : BOOLEAN, healthy : BOOLEAN,
                          streak : 0..MinConsecutive, age : -MaxSkew..Ancient]
      BY DEF HealthInv, WellTyped, TypeOK
    <3> DEFINE said == t \in m.healthy
    <3>2. said \in BOOLEAN
      OBVIOUS
    <3>3. \/ health'[t] = health[t]
          \/ m.age[t] \in -MaxSkew..Ancient /\ health'[t] = Sampled(health[t], m.age[t], said)
      BY <1>3
    <3> HIDE DEF m, said
    <3>4. m.age[t] \in -MaxSkew..Ancient => Sampled(health[t], m.age[t], said) \in Fields
      BY <3>1, <3>2, SampledIs DEF Fields
    <3> QED  BY <3>1, <3>3, <3>4 DEF Fields
  <2> QED  BY <2>1, <2>2, <1>3 DEF ApplyTelemetry
<1>7. Attested'
  <2> SUFFICES ASSUME NEW t \in Targets, health'[t].healthy
               PROVE  health'[t].observed /\ lastHealthy[t] <= health'[t].age
    BY DEF Attested
  <2>1. CASE health'[t] = health[t]
    BY <2>1 DEF HealthInv, Attested
  <2>2. CASE /\ m.age[t] \in -MaxSkew..Ancient
             /\ health'[t] = Sampled(health[t], m.age[t], t \in m.healthy)
    <3> DEFINE said == t \in m.healthy
    <3>0. health[t] \in Fields /\ said \in BOOLEAN
      BY DEF HealthInv, WellTyped, TypeOK, Fields
    <3>1. t \in m.healthy /\ health'[t].age = m.age[t] /\ health'[t].observed
      <4>1. health'[t] = Sampled(health[t], m.age[t], said)
        BY <2>2
      <4>2. health'[t].observed /\ health'[t].healthy = said /\ health'[t].age = m.age[t]
        <5> DEFINE age == m.age[t]
        <5>1. age \in -MaxSkew..Ancient /\ health'[t] = Sampled(health[t], age, said)
          BY <2>2, <4>1
        <5> HIDE DEF m, said, age
        <5>2. health[t] \in Fields /\ said \in BOOLEAN
          BY <3>0
        <5>3. /\ Sampled(health[t], age, said).observed
              /\ Sampled(health[t], age, said).healthy = said
              /\ Sampled(health[t], age, said).age = age
          BY <5>1, <5>2, SampledIs
        <5> QED  BY <5>1, <5>3, Zenon DEF age
      <4> QED  BY <4>2
    <3> QED  BY <1>2, <3>1 DEF HealthInv, AttestedOnWire
  <2> QED  BY <1>3, <2>1, <2>2
<1> QED  BY <1>4, <1>7

(* handle_health_response: the first answer settles its probe.              *)
LEMMA ReceiveKeepsHealthInv ==
  ASSUME HealthInv, NEW w \in Workers, Receive(w)
  PROVE  HealthInv'
<1> DEFINE m == Head(toController[w])
<1>1. /\ toController[w] \in Seq(Samples) /\ toController[w] # <<>>
      /\ toController' = [toController EXCEPT ![w] = Tail(@)]
      /\ toController \in [Workers -> Seq(Samples)]
  BY DEF HealthInv, WellTyped, Receive
<1>2. /\ m \in Samples /\ 1 \in DOMAIN toController[w] /\ m = toController[w][1]
      /\ Tail(toController[w]) \in Seq(Samples)
      /\ \A i \in DOMAIN Tail(toController[w]) :
           i + 1 \in DOMAIN toController[w] /\ Tail(toController[w])[i] = toController[w][i + 1]
  BY <1>1
<1>4. /\ health' \in [Targets -> [observed : BOOLEAN, healthy : BOOLEAN,
                                  streak : 0..MinConsecutive, age : -MaxSkew..Ancient]]
      /\ Attested'
  BY <1>1, TelemetryIsAttested DEF Receive
<1>5. /\ pending' \in SUBSET Nat /\ IsFiniteSet(pending') /\ Cardinality(pending') <= MaxPending
  <2>1. pending' \in SUBSET pending /\ IsFiniteSet(pending) /\ Cardinality(pending) <= MaxPending
    BY DEF Receive, HealthInv, WellTyped, TypeOK
  <2>2. IsFiniteSet(pending') /\ Cardinality(pending') <= Cardinality(pending)
    BY <2>1, FS_Subset
  <2>3. Cardinality(pending') \in Nat /\ Cardinality(pending) \in Nat /\ MaxPending \in Nat
    BY <2>1, <2>2, FS_CardinalityType, HealthAssumption
  <2> QED  BY <2>1, <2>2, <2>3 DEF HealthInv, WellTyped
<1>6. WellTyped'
  BY <1>1, <1>2, <1>4, <1>5 DEF HealthInv, WellTyped, TypeOK, Receive, stageVars
<1>8. AttestedOnWire'
  <2> SUFFICES ASSUME NEW v \in Workers, NEW i \in DOMAIN toController'[v],
                      NEW t \in toController'[v][i].healthy
               PROVE  lastHealthy[t] <= toController'[v][i].age[t]
    BY DEF AttestedOnWire, Receive
  <2>1. \E j \in DOMAIN toController[v] : toController'[v][i] = toController[v][j]
    BY <1>1, <1>2
  <2> QED  BY <2>1 DEF HealthInv, AttestedOnWire
<1> QED  BY <1>4, <1>6, <1>8 DEF HealthInv

(* Workers that come and go, and a controller that starts again with the    *)
(* health it stored.                                                        *)
LEMMA ConnectionsKeepHealthInv ==
  ASSUME HealthInv, (\E w \in Workers : Attach(w) \/ Drop(w)) \/ Restart
  PROVE  HealthInv'
<1>1. CASE \E w \in Workers : Attach(w)
  <2>1. PICK w \in Workers : Attach(w)
    BY <1>1
  <2>2. opinion' \in [Workers -> SUBSET Targets]
    BY <2>1, HealthAssumption DEF Attach, HealthInv, WellTyped, TypeOK
  <2> QED  BY <2>1, <2>2 DEF Attach, HealthInv, WellTyped, TypeOK, Attested, AttestedOnWire,
                             orchestratorVars, stageVars, wireVars
<1>2. CASE \E w \in Workers : Drop(w)
  <2>1. PICK w \in Workers : Drop(w)
    BY <1>2
  <2>2. /\ opinion' \in [Workers -> SUBSET Targets] /\ attached' \subseteq Workers
        /\ toWorker' \in [Workers -> Seq(Probes)] /\ toController' \in [Workers -> Seq(Samples)]
    BY <2>1 DEF Drop, HealthInv, WellTyped, TypeOK
  <2>3. \A v \in Workers : \A i \in DOMAIN toController'[v] :
          i \in DOMAIN toController[v] /\ toController'[v][i] = toController[v][i]
    BY <2>1 DEF Drop, HealthInv, WellTyped
  <2> QED  BY <2>1, <2>2, <2>3 DEF Drop, HealthInv, WellTyped, TypeOK, Attested, AttestedOnWire,
                                   orchestratorVars, stageVars
<1>3. CASE Restart
  <2>1. /\ pending' = {} /\ IsFiniteSet(pending') /\ Cardinality(pending') <= MaxPending
    BY <1>3, FS_EmptySet, HealthAssumption DEF Restart
  <2>2. opinion' \in [Workers -> SUBSET Targets] /\ sinceProbe' \in 0..(Interval + 1)
    BY <1>3, AncientIs DEF Restart
  <2>3. /\ toWorker' \in [Workers -> Seq(Probes)] /\ toController' \in [Workers -> Seq(Samples)]
        /\ \A v \in Workers : DOMAIN toController'[v] = {}
    BY <1>3 DEF Restart
  <2>4. /\ health' \in [Targets -> [observed : BOOLEAN, healthy : BOOLEAN,
                                    streak : 0..MinConsecutive, age : -MaxSkew..Ancient]]
        /\ Attested'
    <3>1. CASE UNCHANGED health
      BY <1>3, <3>1 DEF Restart, HealthInv, WellTyped, TypeOK, Attested
    <3>2. CASE CutShort
      <4>1. PICK w \in attached : \E targets \in SUBSET Targets :
              toController[w] # <<>> /\ ApplyTelemetry(Head(toController[w]), targets)
        BY <3>2 DEF CutShort
      <4>2. w \in Workers /\ UNCHANGED lastHealthy
        BY <1>3 DEF Restart, HealthInv, WellTyped, TypeOK
      <4> QED  BY <4>1, <4>2, TelemetryIsAttested
    <3> QED  BY <1>3, <3>1, <3>2 DEF Restart
  <2> QED  BY <1>3, <2>1, <2>2, <2>3, <2>4 DEF Restart, HealthInv, WellTyped, TypeOK,
                                              AttestedOnWire, stageVars
<1> QED  BY <1>1, <1>2, <1>3

(* All ages grow alike, those of samples on their way included.             *)
LEMMA TimeKeepsHealthInv ==
  ASSUME HealthInv, TimePasses
  PROVE  HealthInv'
<1>1. /\ DOMAIN lastHealthy' = Targets
      /\ \A t \in Targets : lastHealthy[t] \in Int /\ lastHealthy'[t] = Older(lastHealthy[t])
  BY DEF TimePasses, HealthInv, WellTyped
<1>2. \A t \in Targets :
        /\ health[t].age \in -MaxSkew..Ancient
        /\ health'[t] = IF health[t].observed THEN [health[t] EXCEPT !.age = Older(@)] ELSE health[t]
  BY DEF TimePasses, HealthInv, WellTyped, TypeOK
<1>3. \A t \in Targets : lastHealthy'[t] \in Int
  BY <1>1, OlderKeepsOrder
<1>4. health' \in [Targets -> [observed : BOOLEAN, healthy : BOOLEAN,
                               streak : 0..MinConsecutive, age : -MaxSkew..Ancient]]
  <2>1. \A t \in Targets : Older(health[t].age) \in -MaxSkew..Ancient
    <3>1. \A t \in Targets : health[t].age \in Int
      BY <1>2, AgesAreIntegers
    <3> QED  BY <1>2, <3>1, OlderKeepsOrder
  <2>2. \A t \in Targets : health[t] \in [observed : BOOLEAN, healthy : BOOLEAN,
                               streak : 0..MinConsecutive, age : -MaxSkew..Ancient]
    BY DEF HealthInv, WellTyped, TypeOK
  <2>3. \A t \in Targets : health'[t] \in [observed : BOOLEAN, healthy : BOOLEAN,
                               streak : 0..MinConsecutive, age : -MaxSkew..Ancient]
    BY <1>2, <2>1, <2>2
  <2> QED  BY <2>3 DEF TimePasses
<1>5. sinceProbe' \in 0..(Interval + 1)
  BY AncientIs DEF TimePasses, ProbeDue, HealthInv, WellTyped, TypeOK
<1>6. /\ toController' = [w \in Workers |-> Aged(toController[w])]
      /\ toWorker' = [w \in Workers |-> Waits(toWorker[w])]
  BY DEF TimePasses
<1>7. \A w \in Workers :
        /\ toWorker[w] \in Seq(Probes) /\ toController[w] \in Seq(Samples)
  BY DEF HealthInv, WellTyped
<1>8. \A w \in Workers : Waits(toWorker[w]) \in Seq(Probes)
  <2> TAKE w \in Workers
  <2> DEFINE q == toWorker[w]
  <2>1. Len(q) \in Nat /\ DOMAIN q = 1..Len(q) /\ \A i \in 1..Len(q) : q[i] \in Probes
    BY <1>7
  <2>2. \A i \in 1..Len(q) : [q[i] EXCEPT !.waited = @ + 1] \in Probes
    BY <2>1 DEF Probes
  <2>3. Waits(q) = [i \in 1..Len(q) |-> [q[i] EXCEPT !.waited = @ + 1]]
    BY <2>1 DEF Waits
  <2>4. Waits(q) \in Seq(Probes)
    <3> HIDE DEF q
    <3> QED  BY <2>1, <2>2, <2>3
  <2> QED  BY <2>4
<1>9. \A w \in Workers :
        /\ Aged(toController[w]) \in Seq(Samples)
        /\ DOMAIN Aged(toController[w]) = DOMAIN toController[w]
        /\ \A i \in DOMAIN toController[w] :
             /\ Aged(toController[w])[i].healthy = toController[w][i].healthy
             /\ \A t \in Targets :
                  Aged(toController[w])[i].age[t] = Older(toController[w][i].age[t])
  <2> TAKE w \in Workers
  <2> DEFINE q == toController[w]
             aged(i) == [q[i] EXCEPT !.waited = @ + 1,
                                     !.age = [t \in Targets |-> Older(q[i].age[t])]]
  <2>1. Len(q) \in Nat /\ DOMAIN q = 1..Len(q) /\ \A i \in 1..Len(q) : q[i] \in Samples
    BY <1>7
  <2>2. \A i \in 1..Len(q) :
          /\ aged(i) \in Samples /\ aged(i).healthy = q[i].healthy
          /\ \A t \in Targets : aged(i).age[t] = Older(q[i].age[t])
    <3> TAKE i \in 1..Len(q)
    <3>1. q[i] \in Samples
      BY <2>1
    <3>2. \A t \in Targets : Older(q[i].age[t]) \in Int
      BY <3>1, OlderKeepsOrder DEF Samples
    <3> HIDE DEF q
    <3>3. q[i].waited + 1 \in Nat
      BY <3>1 DEF Samples
    <3>4. [t \in Targets |-> Older(q[i].age[t])] \in [Targets -> Int]
      BY <3>2
    <3> QED  BY <3>1, <3>3, <3>4 DEF Samples
  <2>3. Aged(q) = [i \in 1..Len(q) |-> aged(i)]
    BY <2>1 DEF Aged
  <2> HIDE DEF q, aged
  <2>4. Aged(q) \in Seq(Samples) /\ DOMAIN Aged(q) = DOMAIN q
    BY <2>1, <2>2, <2>3
  <2>5. \A i \in DOMAIN q : Aged(q)[i] = aged(i)
    BY <2>1, <2>3
  <2> QED  BY <2>1, <2>2, <2>4, <2>5 DEF q
<1>10. WellTyped'
  BY <1>1, <1>3, <1>4, <1>5, <1>6, <1>8, <1>9 DEF HealthInv, WellTyped, TypeOK, TimePasses, stageVars
<1>11. Attested'
  <2> SUFFICES ASSUME NEW t \in Targets, health'[t].healthy
               PROVE  health'[t].observed /\ lastHealthy'[t] <= health'[t].age
    BY DEF Attested
  <2>1. health[t] \in [observed : BOOLEAN, healthy : BOOLEAN,
                       streak : 0..MinConsecutive, age : -MaxSkew..Ancient]
    BY DEF HealthInv, WellTyped, TypeOK
  <2>2. health[t].healthy /\ health[t].observed
    BY <1>2, <2>1 DEF HealthInv, Attested
  <2>3. health'[t].observed /\ health'[t].age = Older(health[t].age)
    BY <1>2, <2>1, <2>2
  <2>4. lastHealthy[t] <= health[t].age
    BY <2>2 DEF HealthInv, Attested
  <2>5. health[t].age \in Int
    BY <1>2, AgesAreIntegers
  <2> QED  BY <1>1, <2>3, <2>4, <2>5, OlderKeepsOrder
<1>12. AttestedOnWire'
  <2> SUFFICES ASSUME NEW w \in Workers, NEW i \in DOMAIN toController[w],
                      NEW t \in toController[w][i].healthy
               PROVE  lastHealthy'[t] <= Older(toController[w][i].age[t])
    <3> SUFFICES ASSUME NEW w \in Workers, NEW i \in DOMAIN toController'[w],
                        NEW t \in toController'[w][i].healthy
                 PROVE  lastHealthy'[t] <= toController'[w][i].age[t]
      BY DEF AttestedOnWire
    <3>1. i \in DOMAIN toController[w] /\ t \in toController[w][i].healthy
      BY <1>6, <1>9
    <3>2. toController[w][i] \in Samples
      BY <1>7, <3>1
    <3>3. t \in Targets
      BY <3>1, <3>2 DEF Samples
    <3> QED  BY <1>6, <1>9, <3>1, <3>3
  <2>1. toController[w][i] \in Samples
    BY <1>7
  <2>2. t \in Targets /\ toController[w][i].age[t] \in Int
    BY <2>1 DEF Samples
  <2>3. lastHealthy[t] <= toController[w][i].age[t]
    BY DEF HealthInv, AttestedOnWire
  <2> QED  BY <1>1, <2>2, <2>3, OlderKeepsOrder
<1> QED  BY <1>10, <1>11, <1>12 DEF HealthInv

LEMMA StepKeepsHealthInv == HealthInv /\ [Next]_vars => HealthInv'
<1> SUFFICES ASSUME HealthInv, [Next]_vars PROVE HealthInv'
  OBVIOUS
<1>1. CASE \E t \in Targets : Dispatch(t) \/ Succeed(t)
  BY <1>1, DispatchKeepsHealthInv
<1>2. CASE Probe
  BY <1>2, ProbeKeepsHealthInv
<1>3. CASE \E w \in Workers : Answer(w)
  BY <1>3, AnswerKeepsHealthInv
<1>4. CASE \E w \in Workers : Receive(w)
  BY <1>4, ReceiveKeepsHealthInv
<1>5. CASE (\E w \in Workers : Attach(w) \/ Drop(w)) \/ Restart
  BY <1>5, ConnectionsKeepHealthInv
<1>6. CASE TimePasses
  BY <1>6, TimeKeepsHealthInv
<1>7. CASE UNCHANGED vars
  BY <1>7 DEF vars, orchestratorVars, stageVars, wireVars, HealthInv, WellTyped, TypeOK,
              Attested, AttestedOnWire
<1> QED  BY <1>1, <1>2, <1>3, <1>4, <1>5, <1>6, <1>7 DEF Next

-----------------------------------------------------------------------------
(* The theorems.                                                            *)

(* evaluate_health_gate: a gate that is satisfied has seen every changed    *)
(* target healthy within MaxAge, and MinHealthy of the cohort.              *)
LEMMA SatisfiedIsRecent ==
  ASSUME HealthInv, GateSatisfied
  PROVE  changed \subseteq Recently /\ Cardinality(Recently) >= MinHealthy
<1> DEFINE ages == {health[t].age : t \in Observed}
           healthyNow == {t \in Targets : health[t].healthy}
<1>1. \A t \in Targets : health[t].age \in Int /\ health[t].age <= Ancient
  <2>1. \A t \in Targets : health[t].age \in -MaxSkew..Ancient
    BY DEF HealthInv, WellTyped, TypeOK
  <2>2. MaxSkew \in Nat /\ Ancient \in Nat
    BY AncientIs, HealthAssumption
  <2> QED  BY <2>1, <2>2
<1>2. \A t \in Observed : health[t].age <= Oldest
  <2>1. ages \in SUBSET Int /\ ages # {} /\ \A x \in ages : x <= Ancient
    BY <1>1 DEF Observed, GateSatisfied
  <2>2. \A x \in ages : x <= Max(ages)
    <3> HIDE DEF ages
    <3> QED  BY <2>1, AncientIs, MaxOfBounded
  <2> QED  BY <2>2 DEF Oldest
<1>3. Oldest \in Int /\ Oldest <= MaxAge
  <2>1. ages \in SUBSET Int /\ ages # {} /\ \A x \in ages : x <= Ancient
    BY <1>1 DEF Observed, GateSatisfied
  <2>2. Max(ages) \in ages
    <3> HIDE DEF ages
    <3> QED  BY <2>1, AncientIs, MaxOfBounded
  <2> QED  BY <2>1, <2>2 DEF Oldest, GateSatisfied, Fresh
<1>4. healthyNow \subseteq Recently
  <2> SUFFICES ASSUME NEW t \in Targets, health[t].healthy PROVE lastHealthy[t] <= MaxAge
    BY DEF Recently
  <2>1. t \in Observed /\ lastHealthy[t] <= health[t].age
    BY DEF HealthInv, Attested, Observed
  <2>2. lastHealthy[t] \in Int /\ MaxAge \in Int
    BY HealthAssumption DEF HealthInv, WellTyped
  <2> QED  BY <1>1, <1>2, <1>3, <2>1, <2>2
<1>5. changed \subseteq healthyNow
  BY DEF GateSatisfied, HealthInv, WellTyped, TypeOK
<1>6. Cardinality(healthyNow) >= MinHealthy
  BY DEF GateSatisfied, HealthyCount
<1>7. /\ IsFiniteSet(Recently) /\ IsFiniteSet(healthyNow)
      /\ Cardinality(healthyNow) <= Cardinality(Recently)
  <2>1. IsFiniteSet(Recently)
    BY HealthAssumption, FS_Subset DEF Recently
  <2> HIDE DEF healthyNow
  <2> QED  BY <1>4, <2>1, FS_Subset
<1>8. Cardinality(healthyNow) \in Nat /\ Cardinality(Recently) \in Nat /\ MinHealthy \in Int
  BY <1>7, FS_CardinalityType, HealthAssumption
<1> HIDE DEF healthyNow
<1> QED  BY <1>4, <1>5, <1>6, <1>7, <1>8

(* The controller believes no target healthy that no worker observed to be, *)
(* and takes no observation for younger than it is.                         *)
THEOREM HealthInvariant == Spec => []HealthInv
BY InitIsHealthy, StepKeepsHealthInv, PTL DEF Spec

(* The types of the gate's state, and the ceiling of unanswered probes.     *)
THEOREM HealthTypes == Spec => []TypeOK
<1>1. HealthInv => TypeOK
  BY DEF HealthInv, WellTyped
<1> QED  BY <1>1, HealthInvariant, PTL

(* Once something has changed, nothing more is dispatched unless all that   *)
(* changed, and enough of the cohort, were observed healthy recently:       *)
(* however late samples come, whatever connections drop, and through the    *)
(* restart of a controller with the health it stored.                       *)
THEOREM WorkRestsOnHealth == Spec => DispatchRestsOnHealth
<1>1. HealthInv /\ [Next]_vars =>
        [admitted' # admitted /\ changed # {} =>
           changed \subseteq Recently /\ Cardinality(Recently) >= MinHealthy]_vars
  <2> SUFFICES ASSUME HealthInv, Next, admitted' # admitted, changed # {}
               PROVE  changed \subseteq Recently /\ Cardinality(Recently) >= MinHealthy
    OBVIOUS
  <2>1. PICK t \in Targets : Dispatch(t)
    BY DEF Next, Succeed, Probe, Answer, Receive, Attach, Drop, Restart, TimePasses,
           orchestratorVars, stageVars
  <2>2. GateSatisfied
    BY <2>1 DEF Dispatch, Held
  <2> QED  BY <2>2, SatisfiedIsRecent
<1> QED  BY <1>1, HealthInvariant, PTL DEF Spec, DispatchRestsOnHealth
=============================================================================
