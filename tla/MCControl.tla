------------------------------ MODULE MCControl ------------------------------
(* Two operators, each after one of the commands below, one session at a     *)
(* time, and a controller that fails once.                                   *)
EXTENDS ControlSafety

CONSTANTS o1, o2

MCOperators == {o1, o2}

Fenced(kind) == [kind |-> kind, fenced |-> TRUE]
Plain(kind) == [kind |-> kind, fenced |-> FALSE]
Pairs ==
  {<<Fenced("pause"), Plain("resume")>>, <<Fenced("pause"), Fenced("abort")>>,
   <<Plain("approve"), Plain("approve")>>, <<Plain("approve"), Fenced("abort")>>,
   <<Plain("approve"), Fenced("pause")>>, <<Fenced("approve"), Plain("resume")>>,
   <<Plain("regenerate"), Fenced("regenerate")>>, <<Plain("regenerate"), Plain("abort")>>,
   <<Plain("create"), Plain("create")>>, <<Plain("create"), Plain("regenerate")>>}
MCOperations == {[o \in MCOperators |-> IF o = o1 THEN p[1] ELSE p[2]] : p \in Pairs}
=============================================================================
