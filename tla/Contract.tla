-------------------------------- MODULE Contract -------------------------------
(***************************************************************************)
(* What the orchestrator relies on when it hands attempts to the execution  *)
(* plane, with no connection, worker or table in it: an attempt is reported *)
(* only after it was issued, its reports never contradict one another, and  *)
(* an attempt that was reported stopped is never reported done.             *)
(***************************************************************************)
CONSTANTS Attempts, Outcomes

VARIABLES
  issued,     \* attempts the plane accepted
  asked,      \* attempts it was asked to stop
  reported    \* the terminal reports it delivered

contractVars == <<issued, asked, reported>>

Outcome(a) == {r.outcome : r \in {q \in reported : q.attempt = a}}

\* may this outcome still be reported of the attempt?
Allowed(a, outcome) ==
  CASE outcome = "completed"    -> Outcome(a) = {}
    [] outcome = "failed"  -> "completed" \notin Outcome(a)
    [] outcome = "stopped" -> a \in asked

Init == issued = {} /\ asked = {} /\ reported = {}

Issue(a) ==
  /\ a \notin issued
  /\ issued' = issued \cup {a}
  /\ UNCHANGED <<asked, reported>>

AskToStop(a) ==
  /\ a \in issued
  /\ asked' = asked \cup {a}
  /\ UNCHANGED <<issued, reported>>

\* reports arrive, one or several at a time
Deliver ==
  /\ reported \subseteq reported'
  /\ \A r \in reported' \ reported :
       r.attempt \in issued /\ r.outcome \in Outcomes /\ Allowed(r.attempt, r.outcome)
  /\ UNCHANGED <<issued, asked>>

Next == Deliver \/ \E a \in Attempts : Issue(a) \/ AskToStop(a)
Spec == Init /\ [][Next]_contractVars
=============================================================================
