---------------------------- MODULE ExecPlaneSafety ----------------------------
(***************************************************************************)
(* What must hold between the adapter's book-keeping and the workers.       *)
(***************************************************************************)
EXTENDS ExecPlane

\* The variables hold values of their types.
TypeOK ==
  /\ connections \in Seq(Workers) /\ IsInjective(connections)
  /\ helloed \in [Workers -> BOOLEAN] /\ inFlight \in [Workers -> Nat]
  /\ route \in [Attempts -> Nat] /\ requests \in 0..MaxCalls
  /\ life \in [Workers -> {"unborn", "connected", "gone"}]
  /\ effect \in [Attempts -> EffectStates]
  /\ deferred \in [Attempts -> Attempts \cup {NoAttempt}]
  /\ order \in [Workers -> Seq(Attempts)]
  /\ carrier \in [Attempts -> Workers \cup {NoWorker}]
  /\ asked \subseteq Issued /\ working \subseteq Issued
  /\ performed \subseteq Issued /\ evicted \subseteq Issued \X Issued

\* A route leads to the worker the attempt was sent to, however many
\* connections were dropped since and whatever their places were
\* (process_adapter.cpp:1230): a stale index cancels or reconciles at the
\* wrong worker, which answers "never started".
RoutesLeadToTheCarrier ==
  \A a \in Attempts : route[a] # 0 =>
    route[a] \in DOMAIN connections /\ connections[route[a]] = carrier[a]

\* The slots a connection counts as taken are the attempts routed to it
\* (process_adapter.cpp:335, 593, 635, 669): six handlers keep the two tables
\* in step; a leak starves the worker, a double release overcommits it.
SlotsAreRoutes ==
  \A i \in DOMAIN connections : inFlight[connections[i]] = RouteCount(i)

\* Every effect that runs and was not asked to stop belongs to an attempt the
\* adapter can still find, as long as the worker is attached: otherwise it
\* could be neither cancelled nor reconciled (process_adapter.cpp:350, 833).
RunningEffectsAreRouted ==
  \A a \in Attempts :
    effect[a] = "running" /\ Attached(carrier[a]) => route[a] # 0

\* A worker performs the effect of a key once, whatever is dispatched,
\* retried or cancelled, until the full table made it forget the key; and it
\* forgets a key only for another one, and never while its effect is at work
\* (worker.cpp:612, 730).
OncePerKey ==
  /\ \A a, b \in performed :
       a # b /\ Key[a] = Key[b] /\ carrier[a] = carrier[b] =>
         \E e \in evicted : e[1] \in {a, b}
  /\ \A e \in evicted : Key[e[1]] # Key[e[2]] /\ e[1] \notin working

\* A reconcile answer is true: "completed" was performed, and "not started" was
\* not, unless the report of it had already arrived (worker.cpp:986).
AnswersAreTrue ==
  \A r \in answered :
    /\ r.is = "completed" => r.attempt \in performed
    /\ r.is = "not_started" /\ r.attempt \in performed =>
         \E q \in reported : q.attempt = r.attempt

Promise == INSTANCE Contract WITH issued <- Issued

\* The plane keeps the contract the orchestrator relies on: what it reports
\* of an attempt never contradicts what it reported before, and no success
\* follows an acknowledged stop (README.md:40: "A cancelled attempt can never
\* later publish a success").
KeepsContract == Promise!Spec
=============================================================================
