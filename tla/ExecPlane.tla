------------------------------- MODULE ExecPlane -------------------------------
(***************************************************************************)
(* The execution plane: the adapter inside the controller                   *)
(* (process_adapter.cpp) and the worker processes (worker.cpp) with their   *)
(* effect threads, joined by one connection each.  The orchestrator         *)
(* dispatches, cancels and reconciles attempts in any order it likes; a     *)
(* retry is a new attempt under the key of the first one.                   *)
(*                                                                          *)
(* A worker process attaches once.  Frames of a connection arrive in order  *)
(* (FrameChannel); what is on its way is lost when either end goes.         *)
(* Heartbeats, health and the scenarios that misreport on purpose are left  *)
(* out; a scenario that never completes is an effect that takes for ever.   *)
(***************************************************************************)
EXTENDS Integers, Sequences, FiniteSets, SequencesExt

CONSTANTS
  Workers, Attempts, Keys,
  NoWorker, NoAttempt,
  Key,          \* the idempotency key of an attempt
  Capacity,     \* the capacity a worker announces
  MaxEffects,   \* max_idempotency_entries
  MaxCalls,     \* bound: cancellations and reconciliations
  Fragile       \* bound: the workers that may be lost

ASSUME PlaneAssumption ==
  /\ NoWorker \notin Workers /\ NoAttempt \notin Attempts
  /\ Key \in [Attempts -> Keys]
  /\ Capacity \in [Workers -> Nat \ {0}]
  /\ MaxEffects \in Nat \ {0} /\ Fragile \subseteq Workers
  /\ MaxCalls \in Nat

VARIABLES
  (* the adapter *)
  connections,   \* the workers attached, in the order they attached
  helloed,       \* Connection::hello_received, by worker
  inFlight,      \* Connection::in_flight, by worker
  route,         \* attempt_routes_: the index of a connection, or 0
  pending,       \* the unanswered of pending_reconciles_
  requests,      \* next_request_id_
  (* the connections *)
  toWorker, toController,
  (* the workers *)
  life,          \* the state of the worker process
  effect,        \* EffectState of an attempt on the worker that carries it
  deferred,      \* EffectState::deferred
  order,         \* effect_order
  working,       \* the effect threads
  completions,   \* CompletionQueue
  (* history *)
  carrier,       \* the worker an attempt was dispatched to
  asked,         \* attempts the orchestrator asked to stop
  reported,      \* terminal reports delivered to the orchestrator
  answered,      \* what workers answered to reconciliations
  performed,     \* attempts whose effect was performed
  evicted        \* the attempts whose entry made room, and for which other

adapterVars == <<connections, helloed, inFlight, route, pending, requests>>
workerVars  == <<life, effect, deferred, order, working, completions, performed, evicted>>
askVars     == <<carrier, asked, reported, answered>>
vars == <<adapterVars, toWorker, toController, workerVars, askVars>>

EffectStates == {"none", "running", "stopping", "stopped", "completed", "failed"}
Finished == {"completed", "failed"}
Running  == {"running", "stopping"}

Outcomes == {"completed", "failed", "stopped"}
ReportOf(a, outcome) == [attempt |-> a, outcome |-> outcome]

Attached(w) == w \in ToSet(connections)
Issued == {a \in Attempts : carrier[a] # NoWorker}

\* frames to a connection that is gone are lost
ToController(w, frames) ==
  toController' = IF Attached(w) THEN [toController EXCEPT ![w] = @ \o frames]
                  ELSE toController

Evidence(a, outcome) == [type |-> "evidence", attempt |-> a, outcome |-> outcome]
DispatchAck(a, outcome) == [type |-> "ack", attempt |-> a, outcome |-> outcome]
CancelAck(a, stopped) == [type |-> "cancel_ack", attempt |-> a, stopped |-> stopped]

Init ==
  /\ connections = <<>>
  /\ helloed = [w \in Workers |-> FALSE] /\ inFlight = [w \in Workers |-> 0]
  /\ route = [a \in Attempts |-> 0] /\ pending = {} /\ requests = 0
  /\ toWorker = [w \in Workers |-> <<>>] /\ toController = [w \in Workers |-> <<>>]
  /\ life = [w \in Workers |-> "unborn"]
  /\ effect = [a \in Attempts |-> "none"]
  /\ deferred = [a \in Attempts |-> NoAttempt]
  /\ order = [w \in Workers |-> <<>>] /\ working = {}
  /\ completions = [w \in Workers |-> <<>>]
  /\ carrier = [a \in Attempts |-> NoWorker]
  /\ asked = {} /\ reported = {} /\ answered = {} /\ performed = {} /\ evicted = {}

-----------------------------------------------------------------------------
(* The orchestrator's calls.  reconcile() blocks it until it returns.       *)

\* pick_worker: usable, with a slot to spare; the round robin is left open
Candidate(i) ==
  LET w == connections[i] IN helloed[w] /\ inFlight[w] < Capacity[w]

\* faulty: the slot is taken when the worker acknowledges
SlotLater(w) == UNCHANGED inFlight
TakeSlot(w) == inFlight' = [inFlight EXCEPT ![w] = @ + 1]

\* an attempt that is refused, at once or by a full queue, changes nothing
Dispatch(a) ==
  /\ pending = {} /\ carrier[a] = NoWorker
  /\ \E i \in DOMAIN connections :
       LET w == connections[i]
       IN  /\ Candidate(i)
           /\ TakeSlot(w)
           /\ route' = [route EXCEPT ![a] = i]
           /\ carrier' = [carrier EXCEPT ![a] = w]
           /\ toWorker' = [toWorker EXCEPT ![w] =
                             Append(@, [type |-> "dispatch", attempt |-> a])]
  /\ UNCHANGED <<connections, helloed, pending, requests, toController, workerVars,
                 asked, reported, answered>>

\* without a route there is nobody to ask
Cancel(a) ==
  /\ pending = {} /\ a \in Issued \ asked /\ route[a] # 0
  /\ Cardinality(asked) + requests < MaxCalls
  /\ asked' = asked \cup {a}
  /\ LET w == connections[route[a]]
     IN  toWorker' = [toWorker EXCEPT ![w] = Append(@, [type |-> "cancel", attempt |-> a])]
  /\ UNCHANGED <<adapterVars, toController, workerVars, carrier, reported, answered>>

RouteCount(i) == Cardinality({a \in Attempts : route[a] = i})

\* reconcile_outstanding: the attempts without a terminal report
Outstanding == {a \in Issued : \A r \in reported : r.attempt # a}

\* one request to each connection that carries one of them; an attempt
\* without a route is unknown at once
AskedOf(w) == {a \in Outstanding : route[a] # 0 /\ connections[route[a]] = w}
Request(w) == <<requests + 1, w>>

Reconcile ==
  /\ pending = {} /\ Cardinality(asked) + requests < MaxCalls
  /\ \E a \in Outstanding : route[a] # 0
  /\ requests' = requests + 1
  /\ pending' = {[id |-> Request(connections[i]), index |-> i] :
                   i \in {route[a] : a \in Outstanding} \ {0}}
  /\ toWorker' = [w \in Workers |->
       IF AskedOf(w) = {} THEN toWorker[w]
       ELSE Append(toWorker[w], [type |-> "reconcile", id |-> Request(w), fences |-> AskedOf(w)])]
  /\ UNCHANGED <<connections, helloed, inFlight, route, toController, workerVars, askVars>>

\* the time is up, and what is unanswered stays unknown; the call also
\* returns with the last answer or the last connection it waits for
ReconcileReturns ==
  /\ pending # {}
  /\ pending' = {}
  /\ UNCHANGED <<connections, helloed, inFlight, route, requests, toWorker, toController,
                 workerVars, askVars>>

-----------------------------------------------------------------------------
(* Connections.                                                             *)

\* a worker process starts, connects and says hello; attach takes the socket
Attach(w) ==
  /\ life[w] = "unborn"
  /\ life' = [life EXCEPT ![w] = "connected"]
  /\ connections' = Append(connections, w)
  /\ toController' = [toController EXCEPT ![w] = <<[type |-> "hello"]>>]
  /\ UNCHANGED <<helloed, inFlight, route, pending, requests, toWorker, effect, deferred,
                 order, working, completions, performed, evicted, askVars>>

\* faulty: the routes of the connections behind the dropped one keep their index
StaleIndex(index, i) == IF index = i THEN 0 ELSE index
\* faulty: every index moves down, that of no connection too
AllMoveDown(index, i) == IF index = i THEN 0 ELSE index - 1
\* the index of a connection after connection i is gone
Reindexed(index, i) ==
  IF index = i THEN 0 ELSE IF index > i THEN index - 1 ELSE index

\* drop_connection, on a failure, an orderly close or silence; the routes it
\* carried are forgotten and its open request will not be answered
Drop(i) ==
  LET w == connections[i]
  IN  /\ w \in Fragile
      /\ connections' = RemoveAt(connections, i)
      /\ route' = [a \in Attempts |-> Reindexed(route[a], i)]
      /\ pending' = {[p EXCEPT !.index = Reindexed(@, i)] : p \in {q \in pending : q.index # i}}
      /\ helloed' = [helloed EXCEPT ![w] = FALSE]
      /\ inFlight' = [inFlight EXCEPT ![w] = 0]
      /\ toController' = [toController EXCEPT ![w] = <<>>]
      /\ UNCHANGED <<requests, toWorker, workerVars, askVars>>

\* the process ends, and its threads; of what it sent a prefix arrives
WorkerDies(w) ==
  /\ w \in Fragile /\ life[w] = "connected"
  /\ life' = [life EXCEPT ![w] = "gone"]
  /\ working' = {a \in working : carrier[a] # w}
  /\ completions' = [completions EXCEPT ![w] = <<>>]
  /\ effect' = [a \in Attempts |-> IF carrier[a] = w THEN "none" ELSE effect[a]]
  /\ deferred' = [a \in Attempts |-> IF carrier[a] = w THEN NoAttempt ELSE deferred[a]]
  /\ order' = [order EXCEPT ![w] = <<>>]
  /\ toWorker' = [toWorker EXCEPT ![w] = <<>>]
  /\ \E n \in 0..Len(toController[w]) :
       toController' = [toController EXCEPT ![w] = SubSeq(@, 1, n)]
  /\ UNCHANGED <<adapterVars, performed, evicted, askVars>>

-----------------------------------------------------------------------------
(* The adapter handles a frame of connection i.                             *)

\* the slot is free again and the attempt has no owner
Forget(a, i) ==
  IF route[a] = i
  THEN /\ route' = [route EXCEPT ![a] = 0]
       /\ inFlight' = [inFlight EXCEPT ![connections[i]] = IF @ > 0 THEN @ - 1 ELSE 0]
  ELSE UNCHANGED <<route, inFlight>>

HandleHello(i) ==
  LET w == connections[i]
  IN  /\ helloed' = [helloed EXCEPT ![w] = TRUE]
      /\ inFlight' = [inFlight EXCEPT ![w] = 0]
      /\ UNCHANGED <<route, pending, reported, answered>>

\* faulty: once acknowledged, the attempt is the worker's business
ReleasesAll(outcome) == TRUE
\* every acknowledgement but an acceptance ends the adapter's interest
Releases(outcome) == outcome # "accepted"

HandleDispatchAck(i, m) ==
  /\ IF Releases(m.outcome) THEN Forget(m.attempt, i) ELSE UNCHANGED <<route, inFlight>>
  /\ UNCHANGED <<helloed, pending, reported, answered>>

HandleEvidence(i, m) ==
  /\ Forget(m.attempt, i)
  /\ reported' = reported \cup {ReportOf(m.attempt, m.outcome)}
  /\ UNCHANGED <<helloed, pending, answered>>

HandleCancelAck(i, m) ==
  /\ IF m.stopped THEN Forget(m.attempt, i) ELSE UNCHANGED <<route, inFlight>>
  /\ UNCHANGED <<helloed, pending, reported, answered>>

\* an outcome in the answer is evidence too; a late answer is ignored
HandleReconcileResponse(i, m) ==
  /\ IF \E p \in pending : p.id = m.id
     THEN /\ pending' = {p \in pending : p.id # m.id}
          /\ reported' = reported \cup
               {ReportOf(a, m.entries[a]) :
                  a \in {b \in DOMAIN m.entries : m.entries[b] \in Finished}}
          /\ answered' = answered \cup
               {[attempt |-> a, is |-> m.entries[a]] : a \in DOMAIN m.entries}
     ELSE UNCHANGED <<pending, reported, answered>>
  /\ UNCHANGED <<helloed, route, inFlight>>

HandleFrame(i) ==
  LET w == connections[i]
      m == Head(toController[w])
  IN  /\ toController[w] # <<>>
      /\ toController' = [toController EXCEPT ![w] = Tail(@)]
      /\ \/ m.type = "hello" /\ HandleHello(i)
         \/ m.type = "ack" /\ HandleDispatchAck(i, m)
         \/ m.type = "evidence" /\ HandleEvidence(i, m)
         \/ m.type = "cancel_ack" /\ HandleCancelAck(i, m)
         \/ m.type = "answer" /\ HandleReconcileResponse(i, m)
      /\ UNCHANGED <<connections, requests, toWorker, workerVars, carrier, asked>>

-----------------------------------------------------------------------------
(* The worker's reactor.                                                    *)

\* key_index: the attempt whose entry holds the key on this worker
Holders(w, k) == {a \in Attempts : carrier[a] = w /\ Key[a] = k /\ effect[a] # "none"}
RunningOn(w) == {a \in Attempts : carrier[a] = w /\ effect[a] \in Running}

\* evict_if_needed: the oldest entry whose effect is not running makes room,
\* and the running ones before it go to the back
Idle(w) == {i \in DOMAIN order[w] : effect[order[w][i]] \notin Running}
Evictable(w) == {i \in Idle(w) : \A j \in Idle(w) : i <= j}
Room(w) == IF Len(order[w]) >= MaxEffects THEN Evictable(w) ELSE {}
Victims(w) == {order[w][i] : i \in Room(w)}
Kept(w) == IF Room(w) = {} THEN order[w]
           ELSE LET i == CHOOSE j \in Room(w) : TRUE
                IN  SubSeq(order[w], i + 1, Len(order[w])) \o SubSeq(order[w], 1, i - 1)

\* faulty: a key is only recognised while its effect is running
KnowsRunning(w, a) == Holders(w, Key[a]) \cap RunningOn(w) # {}
Knows(w, a) == Holders(w, Key[a]) # {}

\* a key the worker holds: the recorded outcome, now or when there is one
Duplicate(w, a) ==
  \E h \in Holders(w, Key[a]) :
    /\ IF effect[h] \in Finished
       THEN /\ ToController(w, <<Evidence(a, effect[h]), DispatchAck(a, "duplicate")>>)
            /\ UNCHANGED deferred
       ELSE /\ ToController(w, <<DispatchAck(a, "duplicate")>>)
            /\ deferred' = [deferred EXCEPT ![h] = a]
    /\ UNCHANGED <<effect, order, working, evicted>>

Throttle(w, a) ==
  /\ ToController(w, <<DispatchAck(a, "throttled")>>)
  /\ UNCHANGED <<effect, deferred, order, working, evicted>>

\* a new entry, and a thread for its effect; an older entry may make room
Accept(w, a) ==
  /\ effect' = [b \in Attempts |->
       IF b = a THEN "running" ELSE IF b \in Victims(w) THEN "none" ELSE effect[b]]
  /\ deferred' = [b \in Attempts |-> IF b \in Victims(w) THEN NoAttempt ELSE deferred[b]]
  /\ order' = [order EXCEPT ![w] = Append(Kept(w), a)]
  /\ working' = working \cup {a}
  /\ evicted' = evicted \cup (Victims(w) \X {a})
  /\ ToController(w, <<DispatchAck(a, "accepted")>>)

HandleDispatch(w, a) ==
  CASE Knows(w, a) -> Duplicate(w, a)
    [] ~Knows(w, a) /\ Cardinality(RunningOn(w)) >= Capacity[w] -> Throttle(w, a)
    [] OTHER -> Accept(w, a)

\* a running effect is told to stop and will publish nothing; any other is
\* acknowledged too, as not stopped by this request
HandleCancel(w, a) ==
  /\ CASE effect[a] = "none" ->
            /\ ToController(w, <<CancelAck(a, FALSE)>>)
            /\ UNCHANGED effect
       [] effect[a] \in Running ->
            /\ ToController(w, <<Evidence(a, "stopped"), CancelAck(a, TRUE)>>)
            /\ effect' = [effect EXCEPT ![a] = "stopping"]
       [] OTHER ->
            /\ ToController(w, <<Evidence(a, "stopped"), CancelAck(a, FALSE)>>)
            /\ UNCHANGED effect
  /\ UNCHANGED <<deferred, order, working, evicted>>

\* faulty: an effect on record that did not fail counts as done
Optimistic(state) ==
  CASE state = "none" -> "not_started"
    [] state = "failed" -> "failed"
    [] OTHER -> "completed"
\* what handle_reconcile says of an entry
Disposition(state) ==
  CASE state = "none" -> "not_started"
    [] state \in Running -> "in_progress"
    [] state \in Finished -> state
    [] OTHER -> "failed"

HandleReconcile(w, m) ==
  /\ ToController(w, <<[type |-> "answer", id |-> m.id,
                        entries |-> [a \in m.fences |-> Disposition(effect[a])]]>>)
  /\ UNCHANGED <<effect, deferred, order, working, evicted>>

WorkerHandlesFrame(w) ==
  LET m == Head(toWorker[w])
  IN  /\ life[w] = "connected" /\ toWorker[w] # <<>>
      /\ toWorker' = [toWorker EXCEPT ![w] = Tail(@)]
      /\ \/ m.type = "dispatch" /\ HandleDispatch(w, m.attempt)
         \/ m.type = "cancel" /\ HandleCancel(w, m.attempt)
         \/ m.type = "reconcile" /\ HandleReconcile(w, m)
      /\ UNCHANGED <<adapterVars, life, completions, performed, askVars>>

\* run_effect: it is performed, fails, or sees the flag and stops; a thread
\* past its last look at the flag performs a cancelled effect all the same
EffectEnds(a) ==
  /\ a \in working
  /\ working' = working \ {a}
  /\ \E how \in IF effect[a] = "stopping" THEN {"completed", "failed", "stopped"}
                ELSE {"completed", "failed"} :
       /\ completions' = [completions EXCEPT ![carrier[a]] =
                            Append(@, [attempt |-> a, how |-> how])]
       /\ performed' = IF how = "completed" THEN performed \cup {a} ELSE performed
  /\ UNCHANGED <<adapterVars, toWorker, toController, life, effect, deferred, order,
                 evicted, askVars>>

\* faulty: whatever a thread says is published
PublishesAll(a, how) == how # "stopped"
\* a cancelled effect publishes nothing
Publishes(a, how) == how # "stopped" /\ effect[a] = "running"

\* drain_completions: the outcome, and again for the attempt that asked last
DrainCompletion(w) ==
  LET c == Head(completions[w])
      a == c.attempt
      asking == IF deferred[a] = NoAttempt THEN <<>> ELSE <<Evidence(deferred[a], c.how)>>
  IN  /\ life[w] = "connected" /\ completions[w] # <<>>
      /\ completions' = [completions EXCEPT ![w] = Tail(@)]
      /\ IF Publishes(a, c.how)
         THEN /\ effect' = [effect EXCEPT ![a] = c.how]
              /\ ToController(w, <<Evidence(a, c.how)>> \o asking)
              /\ deferred' = [deferred EXCEPT ![a] = NoAttempt]
         ELSE /\ effect' = [effect EXCEPT ![a] = "stopped"]
              /\ UNCHANGED <<toController, deferred>>
      /\ UNCHANGED <<adapterVars, toWorker, life, order, working, performed, evicted, askVars>>

Next ==
  \/ \E a \in Attempts : Dispatch(a) \/ Cancel(a) \/ EffectEnds(a)
  \/ Reconcile \/ ReconcileReturns
  \/ \E i \in DOMAIN connections : HandleFrame(i) \/ Drop(i)
  \/ \E w \in Workers : Attach(w) \/ WorkerDies(w) \/ WorkerHandlesFrame(w) \/ DrainCompletion(w)
Spec == Init /\ [][Next]_vars
=============================================================================
