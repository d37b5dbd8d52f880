-------------------------------- MODULE Control --------------------------------
(***************************************************************************)
(* The controller daemon as its operators see it (controller.cpp): control  *)
(* sessions of one request and one answer, the commands they execute, the   *)
(* plan document applied at every start, and the restart in between.  An    *)
(* operator, a run of rollout-cli, is after one command; when it is not     *)
(* told what became of it, it may send the same command again.              *)
(*                                                                          *)
(* A rollout is what the commands and their fences read: its state, its     *)
(* revision and its pending gate.  Its stages and targets are in Rollout,   *)
(* the frames of a session in Channel, the journal in Journal.  Every       *)
(* rollout is of the one plan the document holds.  Commands that only read  *)
(* change nothing: an operator reads the status whenever it likes.          *)
(***************************************************************************)
EXTENDS Integers, Sequences, FiniteSets, SequencesExt, Lifecycle

CONSTANTS
  Operators,
  Operations,    \* what each operator may be after: a command, fenced or not
  Document,      \* is the controller given a plan to create, arm and start?
  MaxSessions,   \* kMaxControlConnections
  MaxTries,      \* bound: the connections operators make
  MaxRollouts,   \* bound: the rollouts ever created
  MaxFaults      \* bound: crashes and storage failures

Kinds == {"create", "arm", "start", "pause", "resume", "abort", "approve", "retire",
          "regenerate"}

ASSUME ControlAssumption ==
  /\ Operations \subseteq [Operators -> [kind : Kinds, fenced : BOOLEAN]]
  /\ Document \in BOOLEAN
  /\ MaxSessions \in Nat \ {0} /\ {MaxTries, MaxRollouts, MaxFaults} \subseteq Nat

VARIABLES
  (* the controller *)
  controller,    \* "down", "opening" or "up"
  loading,       \* the rollout load_documents is creating, or 0
  storageFailed,
  memory, disk,  \* the rollouts it holds, and their newest snapshots
  gates,         \* the gates opened so far
  backlog,       \* connections the listener has not handed over
  sessions,      \* control_clients
  faults,
  (* the operators *)
  operation,     \* what an operator is after
  seen,          \* the status it read: rollout, revision and pending gate
  phase,         \* "idle", "waiting", or the verdict that ends its run; "futile" is
                 \* an "ok" to an approval that changed nothing
  tries          \* the connections made so far

daemonVars == <<controller, loading, storageFailed, memory, disk, gates, faults>>
sessionVars == <<backlog, sessions>>
operatorVars == <<operation, seen, phase, tries>>
vars == <<daemonVars, sessionVars, operatorVars>>

Ids == 1..MaxRollouts
Rollout(state, origin) ==
  [state |-> state, resume |-> state, revision |-> 2, gate |-> 0, generation |-> 1,
   origin |-> origin, begun |-> FALSE, applied |-> [c \in Operators |-> 0]]
Absent == [Rollout("Created", "nobody") EXCEPT !.revision = 0]

Unseen == [rollout |-> 0, revision |-> 0, gate |-> 0]
Connection(c, sent) == [by |-> c, sent |-> sent, here |-> TRUE]
Phases == {"idle", "waiting", "ok", "futile", "refused"}

Init ==
  /\ controller = "down" /\ loading = 0 /\ storageFailed = FALSE
  /\ memory = [r \in Ids |-> Absent] /\ disk = [r \in Ids |-> Absent]
  /\ gates = 0 /\ backlog = <<>> /\ sessions = <<>> /\ faults = 0
  /\ operation \in Operations
  /\ seen = [c \in Operators |-> Unseen] /\ phase = [c \in Operators |-> "idle"]
  /\ tries = 0

-----------------------------------------------------------------------------
(* The operators.                                                           *)

\* the status of a rollout, on which the command is based: it is read once,
\* before the command is first sent
Read(c) ==
  \E r \in Ids :
    /\ controller = "up" /\ memory[r] # Absent
    /\ seen' = [seen EXCEPT ![c] =
         [rollout |-> r, revision |-> memory[r].revision, gate |-> memory[r].gate]]

\* the listener is there before the documents are loaded; the request follows
\* at once, or never when the operator stalls
Connect(c) ==
  /\ controller # "down" /\ phase[c] = "idle" /\ tries < MaxTries
  /\ IF operation[c].kind = "create" \/ seen[c] # Unseen THEN UNCHANGED seen ELSE Read(c)
  /\ \E sent \in BOOLEAN : backlog' = Append(backlog, Connection(c, sent))
  /\ phase' = [phase EXCEPT ![c] = "waiting"]
  /\ tries' = tries + 1
  /\ UNCHANGED <<daemonVars, sessions, operation>>

\* the connections, when operator c has left its own
Left(conns, c) ==
  [i \in DOMAIN conns |-> IF conns[i].by = c THEN [conns[i] EXCEPT !.here = FALSE] ELSE conns[i]]

\* its time is up, or it is killed; what it sent is still on the way
GiveUp(c) ==
  /\ phase[c] = "waiting"
  /\ phase' = [phase EXCEPT ![c] = "idle"]
  /\ backlog' = Left(backlog, c) /\ sessions' = Left(sessions, c)
  /\ UNCHANGED <<daemonVars, operation, seen, tries>>

\* a verdict reaches the operator, if it is still there; without a clear one
\* it may try again
Tell(conn, verdict) ==
  IF conn.here
  THEN phase' = [phase EXCEPT ![conn.by] = IF verdict \in Phases THEN verdict ELSE "idle"]
  ELSE UNCHANGED phase

-----------------------------------------------------------------------------
(* The commands of the orchestrator.                                        *)

\* faulty: the fence is not compared
Unfenced(c, r) == TRUE
\* check_fences: a revision the rollout has left behind is refused
FencesHold(c, r) == operation[c].fenced => seen[c].revision = r.revision

Permits(kind, r, gate) ==
  CASE kind = "arm"     -> r.state \in {"Created", "Validated"}
    [] kind = "start"   -> r.state = "Armed"
    [] kind = "pause"   -> r.state \in Pausable
    [] kind = "resume"  -> r.state = "Paused"
    [] kind = "abort"   -> r.state \notin TerminalRollout \cup {"Aborting", "RollingBack"}
    [] kind = "approve" -> gate # 0 /\ r.gate = gate
    [] OTHER            -> r.state \in {"Failed", "Completed"}

\* transition: every state change is a revision
Enter(r, state) ==
  [r EXCEPT !.state = state, !.revision = @ + 1, !.begun = @ \/ state = "Running"]

\* faulty: the approval opens the gate and leaves it pending
GateKept(r) == r
GateSpent(r) == [r EXCEPT !.gate = 0]

\* a pause is in the journal before what is in flight is cancelled
Pauses(r) == Enter([r EXCEPT !.resume = r.state], "Paused")

\* what a permitted command may make of a rollout
Results(kind, r) ==
  CASE kind = "arm"     -> {Enter(r, "Armed")}
    [] kind = "start"   -> {Enter(r, "Running")}
    [] kind = "pause"   -> {Pauses(r)}
    [] kind = "resume"  -> {Enter(r, r.resume)}
    [] kind = "abort"   -> {Enter(Enter(r, "Aborting"), end) : end \in {"RollingBack", "Failed"}}
    [] kind = "approve" -> {Enter(GateSpent(r), next) :
                              next \in {"Running", "Completed", "Failed"} \cap RolloutSuccessors[r.state]}
    [] kind = "retire"  -> {Enter(r, "Retired")}
    [] OTHER            -> {[r EXCEPT !.state = "Validated", !.resume = "Validated",
                               !.revision = @ + 1, !.generation = @ + 1, !.gate = 0]}

\* what a permitted command may leave behind when it fails half way: a pause or
\* an abort whose cancellation is not delivered, an approval of a stage that is
\* over, or of one that goes on while its rollout may not
HalfWay(kind, r) ==
  CASE kind = "pause" -> {Pauses(r)}
    [] kind = "abort" -> {Enter(r, "Aborting")}
    [] kind = "approve" /\ r.state \in {"Paused", "Aborting"} ->
         {GateSpent(r), Enter(GateSpent(r), r.state)}
    [] kind = "approve" /\ r.state # "Gated" -> {GateSpent(r)}
    [] OTHER -> {}

\* begin_stage does nothing, and reports no error, when a predecessor is being
\* rolled back, or was and the rollout has ended
Futile(kind, r) == kind = "approve" /\ r.state \in {"RollingBack", "Failed", "Retired"}

By(c, r) == [r EXCEPT !.applied[c] = @ + 1]

\* faulty: the answer does not wait for the journal
StoresLater(r) == UNCHANGED disk
Stores(r) == disk' = [disk EXCEPT ![r] = memory'[r]]

\* persist_rollout: the snapshot is in the journal, or the storage has failed
Persisted(r) == ~storageFailed /\ Stores(r) /\ UNCHANGED <<storageFailed, faults>>
NotPersisted ==
  /\ UNCHANGED disk
  /\ storageFailed' = TRUE
  /\ IF storageFailed THEN UNCHANGED faults
     ELSE faults < MaxFaults /\ faults' = faults + 1

\* the first id no rollout ever had; the bound on rollouts leaves none
NewIds == {r \in Ids : disk[r] = Absent /\ \A q \in 1..(r - 1) : disk[q] # Absent}

\* create_rollout: the rollout is only held once all of it is stored
Create(c, conn) ==
  \/ \E id \in NewIds :
       /\ memory' = [memory EXCEPT ![id] = By(c, Rollout("Validated", "operator"))]
       /\ Persisted(id) /\ Tell(conn, "ok")
  \/ NotPersisted /\ UNCHANGED memory /\ Tell(conn, "failed")

Apply(c, conn) ==
  LET id == seen[c].rollout
      kind == operation[c].kind
  IN  \/ \E after \in Results(kind, memory[id]) :
           /\ memory' = [memory EXCEPT ![id] = By(c, after)]
           /\ \/ Persisted(id) /\ Tell(conn, "ok")
              \/ NotPersisted /\ Tell(conn, "failed")
      \/ \E after \in HalfWay(kind, memory[id]) :
           /\ memory' = [memory EXCEPT ![id] = By(c, after)]
           /\ IF after.revision = memory[id].revision
              THEN UNCHANGED <<disk, storageFailed, faults>> ELSE Persisted(id)
           /\ Tell(conn, "failed") \/ (Futile(kind, memory[id]) /\ Tell(conn, "futile"))

Refuse(conn) ==
  /\ Tell(conn, "refused")
  /\ UNCHANGED <<memory, disk, storageFailed, faults>>

\* execute_command
Execute(conn) ==
  LET c == conn.by
      r == memory[seen[c].rollout]
  IN  IF operation[c].kind = "create" THEN Create(c, conn)
      ELSE IF r # Absent /\ FencesHold(c, r) /\ Permits(operation[c].kind, r, seen[c].gate)
      THEN Apply(c, conn) ELSE Refuse(conn)

-----------------------------------------------------------------------------
(* The reactor.  A storage failure ends the step it happens in: sessions    *)
(* behind the failed one are still served, no tick and no accept follows.   *)

\* faulty: off by one
OneTooMany == Len(sessions) <= MaxSessions
HasRoom == Len(sessions) < MaxSessions

Accept ==
  /\ controller = "up" /\ ~storageFailed /\ backlog # <<>>
  /\ backlog' = Tail(backlog)
  /\ IF HasRoom
     THEN sessions' = Append(sessions, Head(backlog)) /\ UNCHANGED phase
     ELSE Tell(Head(backlog), "busy") /\ UNCHANGED sessions
  /\ UNCHANGED <<daemonVars, operation, seen, tries>>

\* exactly one request, exactly one answer, then the connection is closed
Serve(i) ==
  /\ controller = "up" /\ sessions[i].sent
  /\ sessions' = RemoveAt(sessions, i)
  /\ Execute(sessions[i])
  /\ UNCHANGED <<controller, loading, gates, backlog, operation, seen, tries>>

\* faulty: a connection that sends nothing is kept
OnceLeft(session) == ~session.here
\* the operator is gone before its request was looked at, or sent none in time
Closable(session) == ~(session.sent /\ session.here)

CloseSession(i) ==
  /\ controller = "up" /\ Closable(sessions[i])
  /\ sessions' = RemoveAt(sessions, i)
  /\ Tell(sessions[i], "lost")
  /\ UNCHANGED <<daemonVars, backlog, operation, seen, tries>>

\* what a tick may make of a rollout
Progress(r) ==
  CASE r.state = "Running" ->
         {Enter([r EXCEPT !.gate = gates + 1], "Gated"), Enter(r, "Failed"),
          Enter(r, "Completed")}
    [] r.state = "RollingBack" -> {Enter(r, "Failed")}
    [] OTHER -> {}

Tick ==
  /\ controller = "up" /\ ~storageFailed
  /\ \E id \in Ids : \E after \in Progress(memory[id]) :
       /\ memory' = [memory EXCEPT ![id] = after]
       /\ gates' = IF after.state = "Gated" THEN gates + 1 ELSE gates
       /\ Persisted(id) \/ NotPersisted
  /\ UNCHANGED <<controller, loading, sessionVars, operatorVars>>

-----------------------------------------------------------------------------
(* Start and stop.                                                          *)

\* restore() refuses a rollout whose cohorts are not frozen: one that was not
\* armed, or not since it was regenerated
Restorable(r) == r.state \notin {"Created", "Validated"}

Open ==
  /\ controller = "down"
  /\ controller' = IF Document THEN "opening" ELSE "up"
  /\ memory' = [r \in Ids |-> IF Restorable(disk[r]) THEN disk[r] ELSE Absent]
  /\ UNCHANGED <<loading, storageFailed, disk, gates, faults, sessionVars, operatorVars>>

\* faulty: the rollout of an earlier incarnation is only adopted while it runs
AdoptsRunning == \E r \in Ids : memory[r].state \in {"Running", "Gated"}
\* a rollout of the plan is adopted
Adopts == \E r \in Ids : memory[r] # Absent

\* create, arm, start: each is stored before the next
LoadStep(id) ==
  CASE loading = 0                    -> Rollout("Validated", "document")
    [] memory[id].state = "Validated" -> Enter(memory[id], "Armed")
    [] OTHER                          -> Enter(memory[id], "Running")

LoadDocuments ==
  /\ controller = "opening"
  /\ IF loading = 0 /\ Adopts
     THEN controller' = "up" /\ UNCHANGED <<loading, memory, disk, storageFailed, faults>>
     ELSE \E id \in IF loading = 0 THEN NewIds ELSE {loading} :
            LET next == LoadStep(id)
                started == next.state = "Running"
            IN  /\ memory' = [memory EXCEPT ![id] = next] /\ Persisted(id)
                /\ controller' = IF started THEN "up" ELSE "opening"
                /\ loading' = IF started THEN 0 ELSE id
  /\ UNCHANGED <<gates, sessionVars, operatorVars>>

\* the listener and every session go with the process
Leave ==
  /\ controller' = "down"
  /\ backlog' = <<>> /\ sessions' = <<>>
  /\ phase' = [c \in Operators |-> IF phase[c] = "waiting" THEN "idle" ELSE phase[c]]
  /\ loading' = 0 /\ storageFailed' = FALSE /\ memory' = [r \in Ids |-> Absent]
  /\ UNCHANGED <<disk, gates, operation, seen, tries>>

\* a crash, an orderly stop, or a start that fails
Crash ==
  /\ controller # "down" /\ faults < MaxFaults /\ faults' = faults + 1
  /\ Leave

\* run() leaves after the step in which the storage failed
Stop ==
  /\ controller # "down" /\ storageFailed
  /\ Leave /\ UNCHANGED faults

Next ==
  \/ \E c \in Operators : Connect(c) \/ GiveUp(c)
  \/ Accept \/ Tick
  \/ \E i \in DOMAIN sessions : Serve(i) \/ CloseSession(i)
  \/ Open \/ LoadDocuments \/ Crash \/ Stop
Spec == Init /\ [][Next]_vars

(* A started controller loops: every step accepts, looks at every session   *)
(* and closes the idle ones, and the loop ends when the storage failed.  No *)
(* operator has to be patient, or to act at all.                            *)
FairSpec ==
  /\ Spec
  /\ WF_vars(LoadDocuments) /\ WF_vars(Accept) /\ WF_vars(Stop)
  /\ \A c \in Operators :
       WF_vars(\E i \in DOMAIN sessions :
                 sessions[i].by = c /\ (Serve(i) \/ CloseSession(i)))
=============================================================================
