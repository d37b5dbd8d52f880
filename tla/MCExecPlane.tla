------------------------------ MODULE MCExecPlane ------------------------------
(* A worker with one slot and a worker with two; a target whose attempt is   *)
(* retried under its key, and a second target.                               *)
EXTENDS ExecPlaneSafety

CONSTANTS w1, w2, a1, a2, b1, key1, key2

MCWorkers == {w1, w2}
MCAttempts == {a1, a2, b1}
MCKeys == {key1, key2}
MCKey == (a1 :> key1) @@ (a2 :> key1) @@ (b1 :> key2)
MCCapacity == (w1 :> 1) @@ (w2 :> 2)
MCFragile == {w1}
MCSymmetry == Permutations({a1, a2})
=============================================================================
