----------------------------- MODULE DurableState -----------------------------
(***************************************************************************)
(* What the journal promises the controller, with no file in it: one        *)
(* durable value, the rollout snapshot a restart adopts.  A value is        *)
(* offered, and then it is either committed, at once and for good, or       *)
(* withdrawn; a promise to the controller is only made of a committed       *)
(* value.  Nothing else changes what is stored: not a crash, not the        *)
(* repair of a torn tail, not a compaction.                                 *)
(***************************************************************************)
CONSTANTS Values, Nothing

VARIABLES
  stored,   \* the value a restart adopts, Nothing before the first one
  offered,  \* the values that may come to be stored: being written, or
            \* written by an attempt that failed
  promised  \* the value the controller was last told is stored

storeVars == <<stored, offered, promised>>

Init == stored = Nothing /\ offered = {} /\ promised = Nothing

Offer(v) ==
  /\ offered' = offered \cup {v}
  /\ UNCHANGED <<stored, promised>>

Withdraw ==
  /\ offered' \in SUBSET offered
  /\ UNCHANGED <<stored, promised>>

\* committed; the controller may have died before it was told
Commit(v) ==
  /\ v \in offered
  /\ stored' = v /\ offered' \in SUBSET offered
  /\ promised' \in {promised, v, Nothing}

\* a controller that starts has been promised nothing
Forget ==
  /\ promised' = Nothing
  /\ UNCHANGED <<stored, offered>>

Next == (\E v \in Values : Offer(v) \/ Commit(v)) \/ Withdraw \/ Forget
Spec == Init /\ [][Next]_storeVars
=============================================================================
