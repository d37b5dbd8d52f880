---------------------------- MODULE ControlSafety ----------------------------
(***************************************************************************)
(* What an operator may rely on, though answers are lost, commands are sent *)
(* again, operators act at the same time and the controller restarts.       *)
(***************************************************************************)
EXTENDS Control

\* The variables hold values of their types, and the sessions stay within
\* their ceiling.
TypeOK ==
  /\ controller \in {"down", "opening", "up"} /\ storageFailed \in BOOLEAN
  /\ loading \in 0..MaxRollouts /\ faults \in 0..MaxFaults /\ gates \in Nat
  /\ \A r \in Ids : {memory[r].state, disk[r].state} \subseteq RolloutStates
  /\ Len(sessions) <= MaxSessions
  /\ \A conns \in {backlog, sessions} : \A i \in DOMAIN conns :
       conns[i].by \in Operators /\ conns[i].sent \in BOOLEAN
  /\ phase \in [Operators -> Phases]

\* A command fenced by the revision its operator read is applied once, though
\* its answer was lost and it was sent again, to a controller that may have
\* restarted in between (controller.cpp:745, orchestrator.cpp:121).
AppliedOnce ==
  \A c \in Operators : operation[c].fenced /\ operation[c].kind # "create" =>
    \A r \in Ids : memory[r].applied[c] <= 1 /\ disk[r].applied[c] <= 1

\* "a gate can only be approved once" (orchestrator.cpp:830): however many
\* operators approve it and however often, fenced or not.
GateApprovedOnce ==
  \A r \in Ids : \A g \in 1..gates :
    LET approvers == {c \in Operators : /\ operation[c].kind = "approve"
                                        /\ seen[c].rollout = r /\ seen[c].gate = g
                                        /\ memory[r].applied[c] > 0}
    IN  /\ Cardinality(approvers) <= 1
        /\ \A c \in approvers : memory[r].applied[c] = 1

\* What an operator was told is done is done for good: every controller that
\* holds the rollout has it applied, after any crash or storage failure, and
\* one that does not hold the rollout refused it as not armed
\* (controller.cpp:767, orchestrator_recovery.cpp:188).  The approval that
\* begin_stage ignores is the exception ("futile"): it is acknowledged, and its
\* gate is pending again after a crash.
AcknowledgedIsKept ==
  \A c \in Operators :
    LET r == seen[c].rollout IN
    controller # "down" /\ phase[c] = "ok" /\ operation[c].kind # "create" =>
      IF memory[r] # Absent THEN memory[r].applied[c] > 0
      ELSE disk[r].state = "Validated"

\* The plan document is one change, however often the controller restarts and
\* wherever in its loading it died (controller.cpp:610: "creating a second one
\* would be a second change of the same plan").  A regenerated rollout is the
\* exception: it is not adopted before it is armed again.
OneChangePerDocument ==
  \A r, q \in Ids :
    LET both == {disk[r], disk[q]} IN
    r # q /\ (\A x \in both : x.origin = "document" /\ x.begun) =>
      \E x \in both : x.generation > 1

\* A request that was sent is answered, refused, or its connection is closed:
\* no operator waits for ever, whatever the others do and whichever of them
\* hold a session (controller.cpp:241: "instead of waiting forever for an
\* answer that will not come").
EveryRequestIsAnswered ==
  \A c \in Operators : phase[c] = "waiting" ~> phase[c] # "waiting"
=============================================================================
