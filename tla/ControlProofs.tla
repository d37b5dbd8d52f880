---------------------------- MODULE ControlProofs ----------------------------
(***************************************************************************)
(* Theorems about the controller as its operators see it: what a command    *)
(* sent more than once, a lost answer and a restart may not do.             *)
(***************************************************************************)
EXTENDS ControlSafety, FiniteSetTheorems, SequenceTheorems, TLAPS

-----------------------------------------------------------------------------
(* The inductive invariant.                                                 *)

Snapshots ==
  [state : RolloutStates, resume : RolloutStates, revision : Nat, gate : Nat,
   generation : Nat \ {0}, origin : {"nobody", "operator", "document"}, begun : BOOLEAN,
   applied : [Operators -> Nat]]

Creates(c) == operation[c].kind = "create"
Approves(c) == operation[c].kind = "approve"

(* Whatever the operator bases its command on was read before it was sent.  *)
Informed == {conn \in [by : Operators, sent : BOOLEAN, here : BOOLEAN] :
               Creates(conn.by) \/ seen[conn.by].rollout # 0}

Typed ==
  /\ controller \in {"down", "opening", "up"} /\ storageFailed \in BOOLEAN
  /\ loading \in 0..MaxRollouts /\ faults \in 0..MaxFaults /\ gates \in Nat
  /\ memory \in [Ids -> Snapshots] /\ disk \in [Ids -> Snapshots]
  /\ operation \in Operations /\ phase \in [Operators -> Phases]
  /\ seen \in [Operators -> {Unseen} \cup [rollout : Ids, revision : Nat, gate : 0..gates]]
  /\ backlog \in Seq(Informed) /\ sessions \in Seq(Informed) /\ Len(sessions) <= MaxSessions

(* Of one rollout, in memory or on disk: what each state implies,           *)
Sound(x) ==
  /\ x.state = "Paused" => x.resume \in Pausable
  /\ x.begun /\ x.generation = 1 => Restorable(x)
  /\ x = Absent \/ x.state # "Created"

(* and what the commands it was given have left in it: a fenced one its     *)
(* revision behind, an approval its gate.                                   *)
Honest(x, r) ==
  \A c \in Operators : x.applied[c] > 0 /\ ~Creates(c) =>
    /\ seen[c].rollout = r
    /\ operation[c].fenced => x.applied[c] = 1 /\ (Approves(c) \/ x.revision > seen[c].revision)
    /\ Approves(c) =>
         /\ x.applied[c] = 1 /\ seen[c].gate \notin {0, x.gate}
         /\ \A d \in Operators : Approves(d) /\ x.applied[d] > 0 =>
              seen[d].gate # seen[c].gate \/ d = c

Histories ==
  \A r \in Ids : \A x \in {memory[r], disk[r]} : Sound(x) /\ Honest(x, r) /\ x.gate <= gates

(* A controller holds what is on disk and may be restored, and only what is *)
(* on disk in some form.                                                    *)
Held ==
  \A r \in Ids :
    /\ memory[r] = Absent /\ controller # "down" => ~Restorable(disk[r])
    /\ memory[r] # Absent => disk[r] # Absent /\ controller # "down"

Kept ==
  \A c \in Operators : phase[c] = "ok" /\ ~Creates(c) =>
    \E r \in Ids : /\ seen[c].rollout = r /\ disk[r].applied[c] > 0
                   /\ memory[r] # Absent => memory[r].applied[c] > 0

(* At most one rollout of the document is armed and not regenerated.        *)
Live(x) == x.origin = "document" /\ x.generation = 1 /\ Restorable(x)
OneLive ==
  \A r, q \in Ids : r # q =>
    \A x \in {memory[r], disk[r]} : \A y \in {memory[q], disk[q]} : ~(Live(x) /\ Live(y))

(* While the document is loaded nothing else is held.                       *)
Loading ==
  IF loading = 0
  THEN \A r \in Ids : memory[r].origin = "document" /\ memory[r].generation = 1 => Live(memory[r])
  ELSE /\ controller = "opening" /\ memory[loading] # Absent
       /\ \A r \in Ids \ {loading} : memory[r] = Absent /\ ~Live(disk[r])

ControlInv == Typed /\ Histories /\ Held /\ Kept /\ OneLive /\ Loading

-----------------------------------------------------------------------------
(* The operators of the model.                                              *)

LEMMA ControlBounds ==
  /\ MaxRollouts \in Nat /\ MaxSessions \in Nat \ {0} /\ MaxFaults \in Nat /\ MaxTries \in Nat
  /\ 0 \notin Ids /\ Ids \subseteq 0..MaxRollouts
  /\ Operations \subseteq [Operators -> [kind : Kinds, fenced : BOOLEAN]]
BY ControlAssumption DEF Ids

LEMMA StatesAre ==
  RolloutStates = {"Created", "Validated", "Armed", "Running", "Gated", "Soaking", "Advancing",
                   "Paused", "Aborting", "RollingBack", "Failed", "Completed", "Retired"}
BY DEF RolloutStates, RolloutSuccessors

(* A new rollout is as sound as no rollout, and is one.                     *)
LEMMA NewRollout ==
  ASSUME NEW state \in {"Created", "Validated"}, NEW origin \in {"nobody", "operator", "document"}
  PROVE  /\ Rollout(state, origin) \in Snapshots
         /\ Rollout(state, origin) # Absent
         /\ Rollout(state, origin).state = state /\ Rollout(state, origin).origin = origin
         /\ Rollout(state, origin).gate = 0 /\ Rollout(state, origin).begun = FALSE
         /\ \A c \in Operators : Rollout(state, origin).applied[c] = 0
BY StatesAre DEF Rollout, Snapshots, Absent

LEMMA AbsentIs ==
  /\ Absent \in Snapshots /\ Absent.state = "Created" /\ Absent.gate = 0
  /\ Absent.begun = FALSE /\ Absent.revision = 0 /\ Absent.origin = "nobody"
  /\ \A c \in Operators : Absent.applied[c] = 0
<1>1. ASSUME NEW r \in Snapshots PROVE [r EXCEPT !.revision = 0] \in Snapshots
  BY DEF Snapshots
<1>2. Absent \in Snapshots
  BY <1>1, NewRollout DEF Absent
<1>3. /\ Absent.state = "Created" /\ Absent.gate = 0 /\ Absent.revision = 0
      /\ Absent.origin = "nobody" /\ \A c \in Operators : Absent.applied[c] = 0
  BY DEF Absent, Rollout
<1>4. Absent.begun = FALSE
  BY DEF Absent, Rollout
<1> QED  BY <1>2, <1>3, <1>4

(* Entering a state is a revision.                                          *)
LEMMA EnterIs ==
  ASSUME NEW r \in Snapshots, NEW state \in RolloutStates
  PROVE  /\ Enter(r, state) \in Snapshots /\ Enter(r, state) # Absent
         /\ Enter(r, state).state = state /\ Enter(r, state).revision = r.revision + 1
         /\ Enter(r, state).resume = r.resume /\ Enter(r, state).gate = r.gate
         /\ Enter(r, state).generation = r.generation /\ Enter(r, state).origin = r.origin
         /\ Enter(r, state).applied = r.applied
         /\ Enter(r, state).begun = (r.begun \/ state = "Running")
<1> DEFINE b == r.begun \/ state = "Running"
           n == r.revision + 1
           x == [r EXCEPT !.state = state, !.revision = n, !.begun = b]
<1>1. Enter(r, state) = x
  BY Zenon DEF Enter
<1>2. b \in BOOLEAN /\ n \in Nat /\ n # 0
  BY DEF Snapshots
<1>3. /\ x \in Snapshots /\ x.state = state /\ x.revision = n
      /\ x.resume = r.resume /\ x.gate = r.gate /\ x.generation = r.generation
      /\ x.origin = r.origin /\ x.applied = r.applied
  <2> HIDE DEF b, n
  <2> QED  BY <1>2 DEF Snapshots
<1>4. x.begun = b
  <2> HIDE DEF b, n
  <2> QED  BY <1>2 DEF Snapshots
<1>5. x # Absent
  BY <1>2, <1>3, AbsentIs
<1> QED  BY <1>1, <1>3, <1>4, <1>5

(* What a command leaves behind of the rollout it was applied to.           *)
Follows(kind, r, after) ==
  /\ after \in Snapshots /\ Sound(after) /\ after.state # "Created"
  /\ after.applied = r.applied /\ after.origin = r.origin
  /\ after.revision > r.revision \/ (after.revision = r.revision /\ kind = "approve")
  /\ after.gate \in {0, r.gate} /\ (kind = "approve" => after.gate = 0)
  /\ after.generation = r.generation \/ after.generation > 1
  /\ after.generation = r.generation /\ Restorable(r) => Restorable(after)

LEMMA EnterFollows ==
  ASSUME NEW kind, NEW r \in Snapshots, NEW x \in Snapshots, NEW state \in RolloutStates,
         state \notin {"Created", "Validated"},
         x.gate \in {0, r.gate}, kind = "approve" => x.gate = 0,
         x.revision >= r.revision, x.applied = r.applied, x.origin = r.origin,
         x.generation = r.generation, state = "Paused" => x.resume \in Pausable
  PROVE  Follows(kind, r, Enter(x, state))
<1> DEFINE after == Enter(x, state)
<1>1. /\ after \in Snapshots /\ after.state = state /\ after.revision = x.revision + 1
      /\ after.resume = x.resume /\ after.gate = x.gate /\ after.generation = x.generation
      /\ after.origin = x.origin /\ after.applied = x.applied
  BY EnterIs
<1> HIDE DEF after
<1>2. {r.revision, x.revision, r.gate} \subseteq Nat
  BY DEF Snapshots
<1>3. Sound(after)
  BY <1>1, <1>2 DEF Sound, Restorable
<1>4. after.revision > r.revision /\ after.gate \in {0, r.gate}
  BY <1>1, <1>2
<1>5. after.state # "Created" /\ Restorable(after)
  BY <1>1 DEF Restorable
<1>6. Follows(kind, r, after)
  BY <1>1, <1>3, <1>4, <1>5 DEF Follows
<1> QED  BY <1>6 DEF after

LEMMA ResultsFollow ==
  ASSUME NEW kind \in Kinds \ {"create"}, NEW r \in Snapshots, Sound(r), r # Absent,
         NEW gate \in Nat, Permits(kind, r, gate),
         NEW after \in Results(kind, r) \cup HalfWay(kind, r)
  PROVE  Follows(kind, r, after)
<1>1. r.state # "Created" /\ {r.revision, r.gate, r.generation} \subseteq Nat
  BY DEF Sound, Snapshots
<1>2. CASE kind \in {"arm", "start", "retire"}
  <2>1. PICK s \in {"Armed", "Running", "Retired"} : after = Enter(r, s)
    BY <1>2 DEF Results, HalfWay
  <2> QED  BY <1>1, <1>2, <2>1, EnterFollows, StatesAre
<1>3. CASE kind = "pause"
  <2> DEFINE x == [r EXCEPT !.resume = r.state]
  <2>1. x \in Snapshots /\ x.resume = r.state /\ r.state \in Pausable
    BY <1>3 DEF Snapshots, Permits
  <2>2. /\ x.gate = r.gate /\ x.revision = r.revision /\ x.applied = r.applied
        /\ x.origin = r.origin /\ x.generation = r.generation
    BY DEF Snapshots
  <2>3. after = Enter(x, "Paused")
    BY <1>3 DEF Results, HalfWay, Pauses
  <2> HIDE DEF x
  <2> QED  BY <1>1, <1>3, <2>1, <2>2, <2>3, EnterFollows, StatesAre
<1>4. CASE kind = "resume"
  <2>1. r.resume \in Pausable /\ r.resume \in RolloutStates /\ after = Enter(r, r.resume)
    BY <1>4 DEF Results, HalfWay, Permits, Sound, Snapshots
  <2>2. r.resume \notin {"Created", "Validated", "Paused"}
    BY <2>1 DEF Pausable
  <2> QED  BY <1>1, <1>4, <2>1, <2>2, EnterFollows
<1>5. CASE kind = "abort"
  <2> DEFINE x == Enter(r, "Aborting")
  <2>1. Follows(kind, r, x)
    BY <1>1, <1>5, EnterFollows, StatesAre
  <2>2. after = x \/ \E s \in {"RollingBack", "Failed"} : after = Enter(x, s)
    BY <1>5 DEF Results, HalfWay
  <2> HIDE DEF x
  <2>3. ASSUME NEW s \in {"RollingBack", "Failed"} PROVE Follows(kind, r, Enter(x, s))
    <3>1. /\ x.gate = r.gate /\ x.revision = r.revision + 1 /\ x.applied = r.applied
          /\ x.origin = r.origin /\ x.generation = r.generation /\ x \in Snapshots
      BY EnterIs, StatesAre DEF x
    <3> QED  BY <1>1, <1>5, <3>1, EnterFollows, StatesAre
  <2> QED  BY <2>1, <2>2, <2>3
<1>6. CASE kind = "approve"
  <2> DEFINE x == GateSpent(r)
  <2>1. /\ x.gate = 0 /\ x.revision = r.revision /\ x.applied = r.applied
        /\ x.origin = r.origin /\ x.generation = r.generation /\ x \in Snapshots
        /\ x.state = r.state /\ x.resume = r.resume
    BY DEF GateSpent, Snapshots
  <2>2. x.begun = r.begun
    BY DEF GateSpent, Snapshots
  <2>3. \/ after = x
        \/ \E s \in {"Running", "Completed", "Failed"} : after = Enter(x, s)
        \/ \E s \in {"Paused", "Aborting"} : r.state = s /\ after = Enter(x, s)
    BY <1>6 DEF Results, HalfWay
  <2> HIDE DEF x
  <2>4. Sound(x)
    BY <1>1, <2>1, <2>2 DEF Sound, Restorable
  <2>5. Follows(kind, r, x)
    BY <1>1, <1>6, <2>1, <2>4 DEF Follows, Restorable
  <2>6. ASSUME NEW s \in {"Running", "Completed", "Failed"} PROVE Follows(kind, r, Enter(x, s))
    BY <1>1, <2>1, EnterFollows, StatesAre
  <2>7. ASSUME NEW s \in {"Paused", "Aborting"}, r.state = s PROVE Follows(kind, r, Enter(x, s))
    <3>1. s = "Paused" => x.resume \in Pausable
      BY <2>1, <2>7 DEF Sound
    <3> QED  BY <1>1, <2>1, <3>1, EnterFollows, StatesAre
  <2> QED  BY <2>3, <2>5, <2>6, <2>7
<1>7. CASE kind = "regenerate"
  <2> DEFINE n == r.revision + 1
             g == r.generation + 1
             x == [r EXCEPT !.state = "Validated", !.resume = "Validated", !.revision = n,
                            !.generation = g, !.gate = 0]
  <2>1. n \in Nat /\ n > r.revision /\ g \in Nat \ {0} /\ g > 1
    BY <1>1 DEF Snapshots
  <2>2. after = x
    BY <1>7 DEF Results, HalfWay
  <2>3. /\ x.gate = 0 /\ x.revision = n /\ x.applied = r.applied /\ x.state = "Validated"
        /\ x.origin = r.origin /\ x.generation = g /\ x \in Snapshots
    <3> HIDE DEF n, g
    <3> QED  BY <2>1, StatesAre DEF Snapshots
  <2> HIDE DEF x, n
  <2>4. Sound(x) /\ g # r.generation
    BY <1>1, <2>1, <2>3 DEF Sound, Restorable
  <2> HIDE DEF g
  <2>5. x.revision > r.revision /\ x.generation > 1 /\ x.state # "Created"
    BY <2>1, <2>3
  <2>6. Follows(kind, r, x)
    BY <1>7, <2>3, <2>4, <2>5 DEF Follows
  <2> QED  BY <2>2, <2>6
<1> QED  BY <1>2, <1>3, <1>4, <1>5, <1>6, <1>7 DEF Kinds

(* The command that was executed is counted as its operator's.              *)
LEMMA ByIs ==
  ASSUME NEW r \in Snapshots, NEW c \in Operators
  PROVE  /\ By(c, r) \in Snapshots
         /\ By(c, r).state = r.state /\ By(c, r).resume = r.resume
         /\ By(c, r).revision = r.revision /\ By(c, r).gate = r.gate
         /\ By(c, r).generation = r.generation /\ By(c, r).origin = r.origin
         /\ By(c, r).begun = r.begun
         /\ By(c, r).applied[c] = r.applied[c] + 1
         /\ \A d \in Operators \ {c} : By(c, r).applied[d] = r.applied[d]
<1> DEFINE a == [r.applied EXCEPT ![c] = r.applied[c] + 1]
<1>1. By(c, r) = [r EXCEPT !.applied = a]
  BY DEF By, Snapshots
<1>2. /\ a \in [Operators -> Nat] /\ a[c] = r.applied[c] + 1
      /\ \A d \in Operators \ {c} : a[d] = r.applied[d]
  BY DEF Snapshots
<1> HIDE DEF a
<1> QED  BY <1>1, <1>2 DEF Snapshots

LEMMA BySound ==
  ASSUME NEW r \in Snapshots, NEW c \in Operators, Sound(r), r.state # "Created"
  PROVE  Sound(By(c, r)) /\ (Live(By(c, r)) <=> Live(r)) /\ By(c, r) # Absent
BY ByIs, AbsentIs DEF Sound, Restorable, Live

(* What a tick makes of a rollout.                                          *)
LEMMA ProgressIs ==
  ASSUME NEW r \in Snapshots, gates \in Nat, NEW after \in Progress(r)
  PROVE  /\ after \in Snapshots /\ Sound(after) /\ after # Absent
         /\ r.state \in {"Running", "RollingBack"}
         /\ after.applied = r.applied /\ after.origin = r.origin
         /\ after.revision > r.revision /\ after.generation = r.generation
         /\ after.gate = r.gate \/ (after.gate = gates + 1 /\ after.state = "Gated")
<1> DEFINE x == [r EXCEPT !.gate = gates + 1]
<1>1. /\ x \in Snapshots /\ x.gate = gates + 1 /\ x.revision = r.revision /\ x.applied = r.applied
      /\ x.origin = r.origin /\ x.generation = r.generation
  BY DEF Snapshots
<1>2. /\ r.state \in {"Running", "RollingBack"}
      /\ \/ after = Enter(x, "Gated")
         \/ \E s \in {"Failed", "Completed"} : after = Enter(r, s)
  BY DEF Progress
<1> HIDE DEF x
<1>3. PICK y \in {x, r}, s \in {"Gated", "Failed", "Completed"} :
        after = Enter(y, s) /\ (y = r \/ s = "Gated")
  BY <1>2
<1>4. /\ after \in Snapshots /\ after # Absent /\ after.state = s
      /\ after.revision = y.revision + 1 /\ after.gate = y.gate
      /\ after.generation = y.generation /\ after.origin = y.origin
      /\ after.applied = y.applied
  BY <1>1, <1>3, EnterIs, StatesAre
<1>5. Sound(after)
  BY <1>4 DEF Sound, Restorable
<1>6. r.revision \in Nat
  BY DEF Snapshots
<1> QED  BY <1>1, <1>2, <1>3, <1>4, <1>5, <1>6

LEMMA SeqParts ==
  ASSUME NEW S, NEW s \in Seq(S)
  PROVE  /\ s # <<>> => Head(s) \in S /\ Tail(s) \in Seq(S)
         /\ \A e \in S : Append(s, e) \in Seq(S) /\ Len(Append(s, e)) = Len(s) + 1
         /\ \A i \in DOMAIN s : /\ s[i] \in S /\ RemoveAt(s, i) \in Seq(S)
                                /\ Len(RemoveAt(s, i)) = Len(s) - 1
<1>1. s # <<>> => Head(s) \in S /\ Tail(s) \in Seq(S)
  OBVIOUS
<1>2. \A e \in S : Append(s, e) \in Seq(S) /\ Len(Append(s, e)) = Len(s) + 1
  OBVIOUS
<1>3. ASSUME NEW i \in DOMAIN s
      PROVE  s[i] \in S /\ RemoveAt(s, i) \in Seq(S) /\ Len(RemoveAt(s, i)) = Len(s) - 1
  <2>1. i \in 1..Len(s) /\ Len(s) \in Nat
    OBVIOUS
  <2>2. SubSeq(s, 1, i - 1) \in Seq(S) /\ Len(SubSeq(s, 1, i - 1)) = i - 1
    BY <2>1
  <2>3. SubSeq(s, i + 1, Len(s)) \in Seq(S) /\ Len(SubSeq(s, i + 1, Len(s))) = Len(s) - i
    BY <2>1
  <2> DEFINE before == SubSeq(s, 1, i - 1)
             after == SubSeq(s, i + 1, Len(s))
  <2>4. RemoveAt(s, i) = before \o after
    BY DEF RemoveAt
  <2>5. s[i] \in S
    OBVIOUS
  <2>6. before \in Seq(S) /\ Len(before) = i - 1
    BY <2>2
  <2>7. after \in Seq(S) /\ Len(after) = Len(s) - i
    BY <2>3
  <2> HIDE DEF before, after
  <2>8. before \o after \in Seq(S) /\ Len(before \o after) = Len(before) + Len(after)
    BY <2>6, <2>7, ConcatProperties
  <2>9. (i - 1) + (Len(s) - i) = Len(s) - 1
    BY <2>1
  <2> QED  BY <2>4, <2>5, <2>6, <2>7, <2>8, <2>9
<1> QED  BY <1>1, <1>2, <1>3

LEMMA SeqGrows ==
  ASSUME NEW S, NEW T, S \subseteq T PROVE Seq(S) \subseteq Seq(T)
OBVIOUS

(* A connection its operator left is still what it was.                     *)
LEMMA LeftIs ==
  ASSUME NEW conns \in Seq(Informed), NEW c \in Operators
  PROVE  Left(conns, c) \in Seq(Informed) /\ Len(Left(conns, c)) = Len(conns)
<1>1. DOMAIN conns = 1..Len(conns) /\ Len(conns) \in Nat
  OBVIOUS
<1>2. ASSUME NEW i \in DOMAIN conns PROVE Left(conns, c)[i] \in Informed
  <2>1. conns[i] \in Informed
    OBVIOUS
  <2>2. [conns[i] EXCEPT !.here = FALSE] \in Informed
    BY <2>1 DEF Informed
  <2> QED  BY <2>1, <2>2 DEF Left
<1>3. Left(conns, c) = [i \in 1..Len(conns) |-> Left(conns, c)[i]]
  BY <1>1 DEF Left
<1> QED  BY <1>1, <1>2, <1>3

-----------------------------------------------------------------------------
(* Steps that write one rollout, and store it or fail to.                   *)

Writes(id) ==
  /\ memory' = [memory EXCEPT ![id] = memory'[id]] /\ memory'[id] \in Snapshots
  /\ disk' = disk \/ disk' = [disk EXCEPT ![id] = memory'[id]]

WellStored == memory \in [Ids -> Snapshots] /\ disk \in [Ids -> Snapshots]

(* What it is written from: nothing, when it is new, or its last state.     *)
Begins(id) ==
  memory[id] = Absent /\ disk[id] = Absent /\ disk' = [disk EXCEPT ![id] = memory'[id]]
Continues(id) ==
  memory[id] # Absent /\ \A c \in Operators : memory'[id].applied[c] >= memory[id].applied[c]

LEMMA WritesKeepTypes ==
  ASSUME NEW id \in Ids, memory \in [Ids -> Snapshots], disk \in [Ids -> Snapshots], Writes(id)
  PROVE  /\ memory' \in [Ids -> Snapshots] /\ disk' \in [Ids -> Snapshots]
         /\ \A q \in Ids \ {id} : memory'[q] = memory[q] /\ disk'[q] = disk[q]
         /\ disk'[id] \in {disk[id], memory'[id]}
BY DEF Writes

LEMMA WritesKeepHistories ==
  ASSUME NEW id \in Ids, Typed, Histories, Writes(id), UNCHANGED <<operation, seen>>,
         gates' \in Nat, gates' >= gates, Sound(memory'[id]), Honest(memory'[id], id),
         memory'[id].gate <= gates'
  PROVE  Histories'
<1> SUFFICES ASSUME NEW r \in Ids, NEW x \in {memory'[r], disk'[r]}
             PROVE  Sound(x) /\ Honest(x, r) /\ x.gate <= gates'
  BY DEF Histories, Sound, Honest, Restorable, Creates, Approves
<1>1. (x = memory'[id] /\ r = id) \/ x \in {memory[r], disk[r]}
  BY WritesKeepTypes DEF Typed
<1>2. CASE x \in {memory[r], disk[r]}
  <2>1. x \in Snapshots /\ x.gate <= gates /\ Sound(x) /\ Honest(x, r)
    BY <1>2 DEF Histories, Typed
  <2>2. x.gate <= gates'
    BY <2>1 DEF Typed, Snapshots
  <2> QED  BY <2>1, <2>2
<1> QED  BY <1>1, <1>2

LEMMA WritesKeepHeld ==
  ASSUME NEW id \in Ids, Typed, Held, Writes(id), Begins(id) \/ Continues(id),
         memory'[id] # Absent, controller' # "down", controller # "down"
  PROVE  Held'
<1> SUFFICES ASSUME NEW r \in Ids
             PROVE  /\ memory'[r] = Absent => ~Restorable(disk'[r])
                    /\ memory'[r] # Absent => disk'[r] # Absent
  BY DEF Held, Restorable
<1>1. CASE r # id
  BY <1>1, WritesKeepTypes DEF Typed, Held
<1>2. CASE r = id
  <2>1. disk'[id] # Absent
    BY WritesKeepTypes DEF Typed, Held, Begins, Continues
  <2> QED  BY <1>2, <2>1
<1> QED  BY <1>1, <1>2

LEMMA WritesKeepKept ==
  ASSUME NEW id \in Ids, Typed, Kept, Writes(id), Begins(id) \/ Continues(id),
         UNCHANGED <<operation, seen>>,
         \A c \in Operators : phase'[c] = "ok" =>
           \/ phase[c] = "ok" \/ Creates(c)
           \/ /\ seen[c].rollout = id /\ memory'[id].applied[c] > 0
              /\ disk' = [disk EXCEPT ![id] = memory'[id]]
  PROVE  Kept'
<1> SUFFICES ASSUME NEW c \in Operators, phase'[c] = "ok", ~Creates(c)
             PROVE  \E r \in Ids : /\ seen[c].rollout = r /\ disk'[r].applied[c] > 0
                                   /\ memory'[r] # Absent => memory'[r].applied[c] > 0
  BY DEF Kept, Creates
<1> SUFFICES ASSUME phase[c] = "ok"
             PROVE  \E r \in Ids : /\ seen[c].rollout = r /\ disk'[r].applied[c] > 0
                                   /\ memory'[r] # Absent => memory'[r].applied[c] > 0
  BY DEF Typed
<1>1. PICK r \in Ids : /\ seen[c].rollout = r /\ disk[r].applied[c] > 0
                       /\ memory[r] # Absent => memory[r].applied[c] > 0
  BY DEF Kept
<1>2. CASE r # id
  BY <1>1, <1>2, WritesKeepTypes DEF Typed
<1>3. CASE r = id
  <2>1. Continues(id)
    BY <1>1, <1>3, AbsentIs DEF Begins
  <2>2. memory[id] \in Snapshots /\ memory'[id] \in Snapshots
    BY DEF Typed, Writes
  <2>3. memory'[id].applied[c] > 0
    BY <1>1, <1>3, <2>1, <2>2 DEF Continues, Snapshots
  <2>4. disk'[id].applied[c] > 0
    BY <1>1, <1>3, <2>3, WritesKeepTypes DEF Typed
  <2> QED  BY <1>1, <1>3, <2>3, <2>4
<1> QED  BY <1>2, <1>3

LEMMA WritesKeepOneLive ==
  ASSUME NEW id \in Ids, Typed, OneLive, Writes(id),
         Live(memory'[id]) => \/ Live(memory[id])
                              \/ \A q \in Ids \ {id} : ~Live(memory[q]) /\ ~Live(disk[q])
  PROVE  OneLive'
<1> SUFFICES ASSUME NEW r \in Ids, NEW q \in Ids, r # q,
                    NEW x \in {memory'[r], disk'[r]}, NEW y \in {memory'[q], disk'[q]},
                    Live(x), Live(y)
             PROVE  FALSE
  BY DEF OneLive, Live, Restorable
<1>1. x \in {memory[r], disk[r]} \/ (r = id /\ x = memory'[id])
  BY WritesKeepTypes DEF Typed
<1>2. y \in {memory[q], disk[q]} \/ (q = id /\ y = memory'[id])
  BY WritesKeepTypes DEF Typed
<1>3. CASE x \in {memory[r], disk[r]} /\ y \in {memory[q], disk[q]}
  BY <1>3 DEF OneLive
<1>4. CASE r = id /\ x = memory'[id] /\ y \in {memory[q], disk[q]}
  BY <1>4 DEF OneLive
<1>5. CASE q = id /\ y = memory'[id] /\ x \in {memory[r], disk[r]}
  BY <1>5 DEF OneLive
<1> QED  BY <1>1, <1>2, <1>3, <1>4, <1>5

-----------------------------------------------------------------------------
(* Commands.                                                                *)

LEMMA TellIs ==
  ASSUME NEW conn \in Informed, NEW verdict, Tell(conn, verdict), phase \in [Operators -> Phases]
  PROVE  /\ phase' \in [Operators -> Phases]
         /\ \A c \in Operators :
              phase'[c] = "ok" => phase[c] = "ok" \/ (c = conn.by /\ verdict = "ok")
BY DEF Tell, Phases, Informed

(* A command that is applied was fenced by what is now behind it, or has    *)
(* spent the gate it was after: it is not applied again.                    *)
LEMMA CommandIsHonest ==
  ASSUME NEW c \in Operators, NEW id \in Ids, NEW r \in Snapshots, NEW after \in Snapshots,
         Typed, Honest(r, id), ~Creates(c), seen[c].rollout = id, FencesHold(c, r),
         Permits(operation[c].kind, r, seen[c].gate), Follows(operation[c].kind, r, after)
  PROVE  Honest(By(c, after), id)
<1> DEFINE x == By(c, after)
<1>1. /\ x.applied[c] = r.applied[c] + 1 /\ x.revision = after.revision /\ x.gate = after.gate
      /\ \A d \in Operators \ {c} : x.applied[d] = r.applied[d]
  BY ByIs DEF Follows
<1> HIDE DEF x
<1>2. /\ r.revision \in Nat /\ after.revision \in Nat /\ \A d \in Operators : r.applied[d] \in Nat
      /\ \A d \in Operators : seen[d].revision \in Nat
  <2>1. \A d \in Operators : seen[d].revision \in Nat
    BY DEF Typed, Unseen
  <2> QED  BY <2>1 DEF Snapshots
<1>3. Approves(c) => r.gate = seen[c].gate /\ r.gate # 0 /\ after.gate = 0
  BY DEF Permits, Approves, Follows
<1>4. after.gate \in {0, r.gate} /\ after.revision >= r.revision
  BY <1>2 DEF Follows
<1>5. r.applied[c] = 0 \/ (~operation[c].fenced /\ ~Approves(c))
  <2> SUFFICES ASSUME r.applied[c] > 0, operation[c].fenced \/ Approves(c) PROVE FALSE
    BY <1>2
  <2>1. CASE Approves(c)
    BY <1>3, <2>1 DEF Honest
  <2>2. CASE operation[c].fenced /\ ~Approves(c)
    BY <1>2, <2>2 DEF Honest, FencesHold
  <2> QED  BY <2>1, <2>2
<1>6. ASSUME NEW d \in Operators, x.applied[d] > 0, ~Creates(d), d # c
      PROVE  /\ seen[d].rollout = id
             /\ operation[d].fenced =>
                  x.applied[d] = 1 /\ (Approves(d) \/ x.revision > seen[d].revision)
             /\ Approves(d) =>
                  /\ x.applied[d] = 1 /\ seen[d].gate \notin {0, x.gate}
                  /\ \A e \in Operators : Approves(e) /\ x.applied[e] > 0 =>
                       seen[e].gate # seen[d].gate \/ e = d
  <2>1. r.applied[d] > 0 /\ x.applied[d] = r.applied[d]
    BY <1>1, <1>6
  <2>2. seen[d].rollout = id
    BY <1>6, <2>1 DEF Honest
  <2>3. ASSUME operation[d].fenced
        PROVE  x.applied[d] = 1 /\ (Approves(d) \/ x.revision > seen[d].revision)
    BY <1>1, <1>2, <1>4, <1>6, <2>1, <2>3 DEF Honest
  <2>4. ASSUME Approves(d) PROVE x.applied[d] = 1 /\ seen[d].gate \notin {0, x.gate}
    BY <1>1, <1>4, <1>6, <2>1, <2>4 DEF Honest
  <2>5. ASSUME Approves(d), NEW e \in Operators, Approves(e), x.applied[e] > 0, e # d
        PROVE  seen[e].gate # seen[d].gate
    <3>1. CASE e # c
      BY <1>1, <1>6, <2>1, <2>5, <3>1 DEF Honest
    <3>2. CASE e = c
      BY <1>3, <1>6, <2>1, <2>5, <3>2 DEF Honest
    <3> QED  BY <3>1, <3>2
  <2> QED  BY <2>2, <2>3, <2>4, <2>5
<1>7. /\ operation[c].fenced =>
           x.applied[c] = 1 /\ (Approves(c) \/ x.revision > seen[c].revision)
      /\ Approves(c) =>
           /\ x.applied[c] = 1 /\ seen[c].gate \notin {0, x.gate}
           /\ \A e \in Operators : Approves(e) /\ x.applied[e] > 0 =>
                seen[e].gate # seen[c].gate \/ e = c
  <2>1. ASSUME operation[c].fenced
        PROVE  x.applied[c] = 1 /\ (Approves(c) \/ x.revision > seen[c].revision)
    BY <1>1, <1>2, <1>5, <2>1 DEF Follows, FencesHold, Approves
  <2>2. ASSUME Approves(c) PROVE x.applied[c] = 1 /\ seen[c].gate \notin {0, x.gate}
    BY <1>1, <1>3, <1>5, <2>2
  <2>3. ASSUME Approves(c), NEW e \in Operators, Approves(e), x.applied[e] > 0, e # c
        PROVE  seen[e].gate # seen[c].gate
    <3>1. ~Creates(e) /\ r.applied[e] > 0
      BY <1>1, <2>3 DEF Approves, Creates
    <3> QED  BY <1>3, <2>3, <3>1 DEF Honest
  <2> QED  BY <2>1, <2>2, <2>3
<1>8. Honest(x, id)
  BY <1>6, <1>7 DEF Honest
<1> QED  BY <1>8 DEF x

(* How a storage that fails, or works, is recorded.                         *)
LEMMA StorageIs ==
  ASSUME NEW id \in Ids, Typed, Persisted(id) \/ NotPersisted
  PROVE  /\ storageFailed' \in BOOLEAN /\ faults' \in 0..MaxFaults
         /\ disk' = disk \/ disk' = [disk EXCEPT ![id] = memory'[id]]
         /\ Persisted(id) => disk' = [disk EXCEPT ![id] = memory'[id]]
<1>1. storageFailed \in BOOLEAN /\ faults \in 0..MaxFaults
  BY DEF Typed
<1>2. CASE Persisted(id)
  BY <1>1, <1>2 DEF Persisted, Stores
<1>3. CASE NotPersisted
  <2>1. disk' = disk /\ storageFailed' = TRUE
    BY <1>3 DEF NotPersisted
  <2>2. faults' = faults \/ (faults < MaxFaults /\ faults' = faults + 1)
    BY <1>3 DEF NotPersisted
  <2>3. faults' \in 0..MaxFaults
    BY <1>1, <2>2, ControlBounds
  <2>4. Persisted(id) => disk' = [disk EXCEPT ![id] = memory'[id]]
    BY DEF Persisted, Stores
  <2> QED  BY <2>1, <2>3, <2>4
<1> QED  BY <1>2, <1>3

(* Steps that write no rollout.                                             *)
LEMMA QuietKeeps ==
  ASSUME ControlInv, Typed',
         UNCHANGED <<memory, disk, gates, operation, seen, controller, loading>>,
         \A d \in Operators : phase'[d] = "ok" => phase[d] = "ok" \/ Creates(d)
  PROVE  ControlInv'
<1>1. Histories'
  BY DEF ControlInv, Histories, Sound, Restorable, Honest, Creates, Approves
<1>2. Held' /\ OneLive' /\ Loading'
  BY DEF ControlInv, Held, OneLive, Loading, Live, Restorable
<1>3. Kept'
  BY DEF ControlInv, Kept, Creates
<1> QED  BY <1>1, <1>2, <1>3 DEF ControlInv

LEMMA CreateKeeps ==
  ASSUME NEW conn \in Informed, ControlInv, controller = "up", Create(conn.by, conn),
         Creates(conn.by), WellStored' => Typed', UNCHANGED <<controller, loading, gates, operation, seen>>
  PROVE  ControlInv'
<1> DEFINE c == conn.by
<1>1. c \in Operators
  BY DEF Informed
<1>2. \A d \in Operators : phase'[d] = "ok" => phase[d] = "ok" \/ Creates(d)
  BY TellIs DEF Create, ControlInv, Typed
<1>3. CASE NotPersisted /\ UNCHANGED memory
  <2>1. UNCHANGED <<memory, disk>>
    BY <1>3 DEF NotPersisted
  <2>2. Typed'
    BY <2>1 DEF ControlInv, Typed, WellStored
  <2> QED  BY <1>2, <2>1, <2>2, QuietKeeps
<1>4. ASSUME NEW id \in NewIds, Persisted(id),
             memory' = [memory EXCEPT ![id] = By(c, Rollout("Validated", "operator"))]
      PROVE  ControlInv'
  <2> DEFINE r == Rollout("Validated", "operator")
             x == By(c, r)
  <2>1. /\ id \in Ids /\ disk[id] = Absent /\ memory[id] = Absent
    BY DEF NewIds, ControlInv, Held
  <2>2. /\ r \in Snapshots /\ r.state = "Validated" /\ r.origin = "operator" /\ r.gate = 0
        /\ Sound(r) /\ \A d \in Operators : r.applied[d] = 0
    BY NewRollout DEF Sound, Restorable
  <2>3. /\ x \in Snapshots /\ x # Absent /\ Sound(x) /\ x.origin = "operator" /\ x.gate = 0
        /\ \A d \in Operators \ {c} : x.applied[d] = 0
    <3> HIDE DEF r, c
    <3>1. /\ x \in Snapshots /\ x.origin = r.origin /\ x.gate = r.gate
          /\ \A d \in Operators \ {c} : x.applied[d] = r.applied[d]
      BY <1>1, <2>2, ByIs
    <3>2. Sound(x) /\ x # Absent
      BY <1>1, <2>2, BySound
    <3> HIDE DEF x
    <3> QED  BY <2>2, <3>1, <3>2
  <2> HIDE DEF x
  <2>4. memory'[id] = x /\ memory' = [memory EXCEPT ![id] = memory'[id]]
    BY <1>4, <2>1 DEF x, ControlInv, Typed
  <2>5. Writes(id) /\ Begins(id)
    BY <1>4, <2>1, <2>3, <2>4, StorageIs DEF Writes, Begins, ControlInv
  <2>6. Honest(x, id)
    BY <2>3 DEF Honest
  <2>7. Histories'
    <3>1. Typed /\ Histories /\ gates' \in Nat /\ gates' >= gates /\ 0 <= gates'
      BY DEF ControlInv, Typed
    <3> QED  BY <2>1, <2>3, <2>4, <2>5, <2>6, <3>1, WritesKeepHistories
  <2>8. Held' /\ Kept'
    BY <1>2, <2>1, <2>3, <2>4, <2>5, WritesKeepHeld, WritesKeepKept DEF ControlInv
  <2>9. OneLive'
    BY <2>1, <2>3, <2>4, <2>5, WritesKeepOneLive DEF ControlInv, Live
  <2>10. Loading'
    BY <2>1, <2>3, <2>4, <2>5, WritesKeepTypes DEF ControlInv, Typed, Loading, Live, Restorable
  <2>11. Typed'
    BY <2>1, <2>5, WritesKeepTypes DEF ControlInv, Typed, WellStored
  <2> QED  BY <2>7, <2>8, <2>9, <2>10, <2>11 DEF ControlInv
<1> QED  BY <1>3, <1>4 DEF Create

LEMMA SeenIs ==
  ASSUME Typed, NEW c \in Operators
  PROVE  /\ seen[c].rollout \in {0} \cup Ids /\ seen[c].gate \in 0..gates
         /\ seen[c].rollout = 0 => seen[c] = Unseen
BY ControlBounds DEF Typed, Unseen

LEMMA ApplyKeeps ==
  ASSUME NEW conn \in Informed, ControlInv, controller = "up", Apply(conn.by, conn),
         ~Creates(conn.by), WellStored' => Typed', UNCHANGED <<controller, loading, gates, operation, seen>>,
         memory[seen[conn.by].rollout] # Absent,
         FencesHold(conn.by, memory[seen[conn.by].rollout]),
         Permits(operation[conn.by].kind, memory[seen[conn.by].rollout], seen[conn.by].gate)
  PROVE  ControlInv'
<1>a. PICK c : c = conn.by
  OBVIOUS
<1>b. PICK id : id = seen[c].rollout
  OBVIOUS
<1>c. PICK kind : kind = operation[c].kind
  OBVIOUS
<1>d. PICK r : r = memory[id]
  OBVIOUS
<1>e. Typed /\ Histories /\ loading = 0
  BY DEF ControlInv, Loading
<1>1. c \in Operators /\ id \in Ids
  <2>1. c \in Operators /\ seen[c].rollout # 0
    BY <1>a DEF Informed
  <2> QED  BY <1>b, <1>e, <2>1, SeenIs
<1>2. kind \in Kinds \ {"create"} /\ seen[c].gate \in Nat
  <2>1. operation \in [Operators -> [kind : Kinds, fenced : BOOLEAN]]
    BY <1>e, ControlBounds DEF Typed
  <2>2. kind \in Kinds /\ kind # "create"
    BY <1>1, <1>a, <1>c, <2>1 DEF Creates
  <2>3. seen[c].gate \in 0..gates /\ gates \in Nat
    BY <1>1, <1>e, SeenIs DEF Typed
  <2> QED  BY <2>2, <2>3
<1>3. PICK after \in Results(kind, r) \cup HalfWay(kind, r) :
        /\ memory' = [memory EXCEPT ![id] = By(c, after)]
        /\ \/ disk' = [disk EXCEPT ![id] = memory'[id]]
           \/ disk' = disk /\ (phase'[c] = "ok" => phase[c] = "ok")
        /\ \A d \in Operators \ {c} : phase'[d] = "ok" => phase[d] = "ok"
  <2>1. phase \in [Operators -> Phases]
    BY <1>e DEF Typed
  <2>2. /\ Tell(conn, "failed") \/ Tell(conn, "futile") => (\A d \in Operators : phase'[d] = "ok" => phase[d] = "ok")
        /\ Tell(conn, "ok") => \A d \in Operators \ {c} : phase'[d] = "ok" => phase[d] = "ok"
    BY <1>a, <2>1, TellIs
  <2>3. /\ Persisted(id) => disk' = [disk EXCEPT ![id] = memory'[id]]
        /\ NotPersisted => disk' = disk
        /\ UNCHANGED <<disk, storageFailed, faults>> => disk' = disk
    BY DEF Persisted, Stores, NotPersisted
  <2>4. \/ \E after \in Results(kind, r) :
             /\ memory' = [memory EXCEPT ![id] = By(c, after)]
             /\ (Persisted(id) /\ Tell(conn, "ok")) \/ (NotPersisted /\ Tell(conn, "failed"))
        \/ \E after \in HalfWay(kind, r) :
             /\ memory' = [memory EXCEPT ![id] = By(c, after)]
             /\ UNCHANGED <<disk, storageFailed, faults>> \/ Persisted(id)
             /\ Tell(conn, "failed") \/ Tell(conn, "futile")
    BY <1>a, <1>b, <1>c, <1>d DEF Apply
  <2>5. CASE \E after \in Results(kind, r) :
               /\ memory' = [memory EXCEPT ![id] = By(c, after)]
               /\ (Persisted(id) /\ Tell(conn, "ok")) \/ (NotPersisted /\ Tell(conn, "failed"))
    BY <1>1, <2>2, <2>3, <2>5
  <2>6. CASE \E after \in HalfWay(kind, r) :
               /\ memory' = [memory EXCEPT ![id] = By(c, after)]
               /\ UNCHANGED <<disk, storageFailed, faults>> \/ Persisted(id)
               /\ Tell(conn, "failed") \/ Tell(conn, "futile")
    BY <1>1, <2>2, <2>3, <2>6
  <2> QED  BY <2>4, <2>5, <2>6
<1>4. r \in Snapshots /\ Sound(r) /\ Honest(r, id) /\ r.gate <= gates
  BY <1>1, <1>d, <1>e DEF Typed, Histories
<1>5. Follows(kind, r, after)
  <2>1. r # Absent /\ Permits(kind, r, seen[c].gate)
    BY <1>a, <1>b, <1>c, <1>d
  <2> QED  BY <1>2, <1>3, <1>4, <2>1, ResultsFollow
<1>f. /\ after \in Snapshots /\ Sound(after) /\ after.state # "Created"
      /\ after.applied = r.applied /\ after.origin = r.origin /\ after.gate \in {0, r.gate}
      /\ after.generation = r.generation \/ after.generation > 1
      /\ after.generation = r.generation /\ Restorable(r) => Restorable(after)
  BY <1>5 DEF Follows
<1>g. PICK x : x = By(c, after)
  OBVIOUS
<1>6. /\ x \in Snapshots /\ x # Absent /\ Sound(x) /\ (Live(x) <=> Live(after))
      /\ x.gate = after.gate /\ x.origin = after.origin /\ x.generation = after.generation
      /\ x.applied[c] > 0 /\ \A d \in Operators : x.applied[d] >= r.applied[d]
  <2>1. \A d \in Operators : r.applied[d] \in Nat
    BY <1>4 DEF Snapshots
  <2>2. /\ x \in Snapshots /\ x # Absent /\ Sound(x) /\ (Live(x) <=> Live(after))
        /\ x.gate = after.gate /\ x.origin = after.origin /\ x.generation = after.generation
    BY <1>1, <1>f, <1>g, ByIs, BySound
  <2>3. x.applied[c] = r.applied[c] + 1 /\ \A d \in Operators \ {c} : x.applied[d] = r.applied[d]
    BY <1>1, <1>f, <1>g, ByIs
  <2> QED  BY <1>1, <2>1, <2>2, <2>3
<1>7. Honest(x, id)
  <2>1. /\ ~Creates(c) /\ seen[c].rollout = id /\ FencesHold(c, r)
        /\ Permits(operation[c].kind, r, seen[c].gate) /\ Follows(operation[c].kind, r, after)
    BY <1>5, <1>a, <1>b, <1>c, <1>d
  <2> QED  BY <1>1, <1>4, <1>e, <1>f, <1>g, <2>1, CommandIsHonest
<1>8. memory'[id] = x /\ memory' = [memory EXCEPT ![id] = memory'[id]]
  BY <1>1, <1>3, <1>e, <1>g DEF Typed
<1>9. Writes(id) /\ Continues(id)
  <2>1. memory[id] # Absent
    BY <1>a, <1>b
  <2> QED  BY <1>3, <1>6, <1>8, <1>d, <2>1 DEF Writes, Continues
<1>10. Histories'
  <2>1. x.gate <= gates
    <3>1. r.gate <= gates /\ 0 <= gates /\ after.gate \in {0, r.gate}
      BY <1>4, <1>e, <1>f DEF Typed
    <3> QED  BY <1>6, <3>1
  <2>2. gates' \in Nat /\ gates' = gates /\ gates' >= gates
    BY <1>e DEF Typed
  <2> QED  BY <1>1, <1>6, <1>7, <1>8, <1>9, <1>e, <2>1, <2>2, WritesKeepHistories
<1>11. Held'
  <2>1. Held /\ controller # "down" /\ controller' # "down"
    BY DEF ControlInv
  <2> QED  BY <1>1, <1>6, <1>8, <1>9, <1>e, <2>1, WritesKeepHeld
<1>12. Kept'
  <2>1. Kept /\ seen[c].rollout = id
    BY <1>b DEF ControlInv
  <2>2. \A d \in Operators : phase'[d] = "ok" =>
          \/ phase[d] = "ok"
          \/ d = c /\ disk' = [disk EXCEPT ![id] = memory'[id]]
    BY <1>3
  <2> QED  BY <1>1, <1>6, <1>8, <1>9, <1>e, <2>1, <2>2, WritesKeepKept
<1>13. x.origin = "document" /\ x.generation = 1 => Live(x) /\ Live(r)
  <2>1. x.origin = "document" /\ x.generation = 1 => r.origin = "document" /\ r.generation = 1
    BY <1>6, <1>f
  <2>2. r.origin = "document" /\ r.generation = 1 => Live(r)
    BY <1>1, <1>d, <1>e DEF ControlInv, Loading
  <2>3. r.generation = after.generation /\ Live(r) => Live(after)
    BY <1>f DEF Live
  <2> QED  BY <1>6, <1>f, <2>1, <2>2, <2>3
<1>14. OneLive'
  <2>1. OneLive /\ (Live(x) => Live(r))
    BY <1>13 DEF ControlInv, Live
  <2> QED  BY <1>1, <1>8, <1>9, <1>d, <1>e, <2>1, WritesKeepOneLive
<1>15. Loading'
  <2>1. \A q \in Ids : memory[q].origin = "document" /\ memory[q].generation = 1 => Live(memory[q])
    BY <1>e DEF ControlInv, Loading
  <2>2. \A q \in Ids : memory'[q] = IF q = id THEN x ELSE memory[q]
    BY <1>1, <1>8, <1>9, <1>e, WritesKeepTypes DEF Typed
  <2>3. \A q \in Ids : memory'[q].origin = "document" /\ memory'[q].generation = 1 => Live(memory'[q])
    BY <1>13, <2>1, <2>2
  <2> QED  BY <1>e, <2>3 DEF Loading, Live, Restorable
<1>16. Typed'
  BY <1>1, <1>9, <1>e, WritesKeepTypes DEF Typed, WellStored
<1> QED  BY <1>10, <1>11, <1>12, <1>14, <1>15, <1>16 DEF ControlInv

LEMMA InformedStays == UNCHANGED <<operation, seen>> => Informed' = Informed
BY DEF Informed, Creates

LEMMA ServeKeeps ==
  ASSUME ControlInv, NEW i \in DOMAIN sessions, Serve(i) PROVE ControlInv'
<1> DEFINE conn == sessions[i]
           c == conn.by
           r == memory[seen[c].rollout]
<1>1. Typed
  BY DEF ControlInv
<1>2. /\ conn \in Informed /\ sessions' \in Seq(Informed) /\ Len(sessions') <= MaxSessions
  BY <1>1, SeqParts, ControlBounds DEF Typed, Serve
<1>3. /\ controller = "up" /\ UNCHANGED <<controller, loading, gates, operation, seen>>
      /\ Execute(conn) /\ UNCHANGED <<backlog, tries>>
  BY DEF Serve
<1>4. Informed' = Informed
  BY <1>3, InformedStays
<1>5. ASSUME storageFailed' \in BOOLEAN, faults' \in 0..MaxFaults, NEW verdict, Tell(conn, verdict)
      PROVE  WellStored' => Typed'
  <2>1. phase' \in [Operators -> Phases]
    BY <1>1, <1>2, <1>5, TellIs DEF Typed
  <2> QED  BY <1>1, <1>2, <1>3, <1>4, <1>5, <2>1 DEF Typed, WellStored
<1>6. ASSUME UNCHANGED <<storageFailed, faults>> PROVE storageFailed' \in BOOLEAN /\ faults' \in 0..MaxFaults
  BY <1>1, <1>6 DEF Typed
<1>7. CASE operation[c].kind = "create"
  <2>1. Create(c, conn)
    BY <1>3, <1>7 DEF Execute
  <2>2. WellStored' => Typed'
    <3>1. CASE NotPersisted /\ Tell(conn, "failed")
      <4>1. storageFailed' \in BOOLEAN /\ faults' \in 0..MaxFaults
        BY <1>1, <3>1, ControlBounds DEF NotPersisted, Typed
      <4> QED  BY <1>5, <3>1, <4>1
    <3>2. ASSUME NEW id \in NewIds, Persisted(id), Tell(conn, "ok") PROVE WellStored' => Typed'
      BY <1>5, <1>6, <3>2 DEF Persisted
    <3> QED  BY <2>1, <3>1, <3>2 DEF Create
  <2> QED  BY <1>2, <1>3, <1>7, <2>1, <2>2, CreateKeeps DEF Creates
<1>8. CASE /\ operation[c].kind # "create"
           /\ r # Absent /\ FencesHold(c, r) /\ Permits(operation[c].kind, r, seen[c].gate)
  <2>1. Apply(c, conn)
    BY <1>3, <1>8 DEF Execute
  <2>2. seen[c].rollout \in Ids
    BY <1>1, <1>2, <1>8, SeenIs DEF Informed, Creates
  <2>3. WellStored' => Typed'
    BY <1>1, <1>5, <1>6, <2>1, <2>2, StorageIs DEF Apply
  <2> QED  BY <1>2, <1>3, <1>8, <2>1, <2>3, ApplyKeeps DEF Creates
<1>9. CASE Refuse(conn)
  <2>1. Typed'
    BY <1>1, <1>5, <1>6, <1>9 DEF Refuse, Typed, WellStored
  <2>2. \A d \in Operators : phase'[d] = "ok" => phase[d] = "ok"
    BY <1>1, <1>2, <1>9, TellIs DEF Refuse, Typed
  <2> QED  BY <1>3, <1>9, <2>1, <2>2, QuietKeeps DEF Refuse
<1> QED  BY <1>3, <1>7, <1>8, <1>9 DEF Execute

-----------------------------------------------------------------------------
(* The operators, and the rest of the controller.                           *)

(* An operator that reads a status has had no command applied yet.          *)
LEMMA ConnectKeeps ==
  ASSUME ControlInv, NEW c \in Operators, Connect(c) PROVE ControlInv'
<1>1. Typed /\ phase[c] = "idle" /\ phase' = [phase EXCEPT ![c] = "waiting"]
  BY DEF ControlInv, Connect
<1>2. UNCHANGED <<daemonVars, sessions, operation>>
  BY DEF Connect
<1>3. /\ seen' \in [Operators -> {Unseen} \cup [rollout : Ids, revision : Nat, gate : 0..gates]]
      /\ \A d \in Operators : seen'[d] = seen[d] \/ (d = c /\ seen[c] = Unseen /\ ~Creates(c))
      /\ Creates(c) \/ seen'[c].rollout # 0
  <2>1. CASE Creates(c) \/ seen[c] # Unseen
    BY <1>1, <2>1, SeenIs DEF Connect, Creates, Typed
  <2>2. CASE ~Creates(c) /\ seen[c] = Unseen
    <3>1. PICK r \in Ids :
            seen' = [seen EXCEPT ![c] =
              [rollout |-> r, revision |-> memory[r].revision, gate |-> memory[r].gate]]
      BY <2>2 DEF Connect, Creates, Read
    <3>2. memory[r] \in Snapshots /\ memory[r].gate <= gates
      BY <1>1 DEF ControlInv, Typed, Histories
    <3>3. memory[r].revision \in Nat /\ memory[r].gate \in 0..gates
      BY <1>1, <3>2 DEF Typed, Snapshots
    <3> QED  BY <1>1, <2>2, <3>1, <3>3, ControlBounds DEF Typed
  <2> QED  BY <2>1, <2>2
<1>4. Informed \subseteq Informed'
  BY <1>2, <1>3, SeenIs, <1>1 DEF Informed, Creates, Unseen
<1>5. Typed'
  <2>1. PICK sent \in BOOLEAN : backlog' = Append(backlog, Connection(c, sent))
    BY DEF Connect
  <2>2. Connection(c, sent) \in Informed'
    BY <1>2, <1>3 DEF Connection, Informed, Creates
  <2>3. backlog \in Seq(Informed') /\ sessions \in Seq(Informed')
    BY <1>1, <1>4, SeqGrows DEF Typed
  <2>4. backlog' \in Seq(Informed')
    BY <2>1, <2>2, <2>3
  <2>5. phase' \in [Operators -> Phases]
    BY <1>1 DEF Typed, Phases
  <2> QED  BY <1>1, <1>2, <1>3, <2>3, <2>4, <2>5 DEF Typed, daemonVars
<1>6. ASSUME NEW r \in Ids, NEW x \in Snapshots, Honest(x, r), NEW d \in Operators,
             x.applied[d] > 0, ~Creates(d)
      PROVE  seen'[d] = seen[d]
  BY <1>3, <1>6, ControlBounds DEF Honest, Unseen
<1>7. Histories'
  <2> SUFFICES ASSUME NEW r \in Ids, NEW x \in {memory[r], disk[r]}
               PROVE  Sound(x) /\ Honest(x, r)' /\ x.gate <= gates
    BY <1>2 DEF Histories, daemonVars, Sound, Restorable, Honest, Creates, Approves
  <2>1. x \in Snapshots /\ Sound(x) /\ Honest(x, r) /\ x.gate <= gates
    BY <1>1 DEF ControlInv, Histories, Typed
  <2>2. \A d \in Operators : x.applied[d] > 0 /\ ~Creates(d) => seen'[d] = seen[d]
    BY <1>6, <2>1
  <2>3. /\ operation' = operation /\ \A d \in Operators : Approves(d) => ~Creates(d)
    BY <1>2 DEF Approves, Creates
  <2>4. Honest(x, r)'
    BY <2>1, <2>2, <2>3 DEF Honest, Creates, Approves
  <2> QED  BY <2>1, <2>4
<1>8. Held' /\ OneLive' /\ Loading'
  BY <1>2 DEF ControlInv, Held, OneLive, Loading, Live, Restorable, daemonVars
<1>9. Kept'
  BY <1>1, <1>2, <1>3, ControlBounds
     DEF ControlInv, Kept, Creates, daemonVars, Unseen, Typed
<1> QED  BY <1>5, <1>7, <1>8, <1>9 DEF ControlInv

LEMMA GiveUpKeeps ==
  ASSUME ControlInv, NEW c \in Operators, GiveUp(c) PROVE ControlInv'
<1>1. /\ Typed /\ UNCHANGED <<daemonVars, operation, seen, tries>> /\ Informed' = Informed
      /\ phase' = [phase EXCEPT ![c] = "idle"]
      /\ backlog' = Left(backlog, c) /\ sessions' = Left(sessions, c)
  BY InformedStays DEF ControlInv, GiveUp
<1>2. /\ backlog' \in Seq(Informed) /\ sessions' \in Seq(Informed)
      /\ Len(sessions') = Len(sessions)
  BY <1>1, LeftIs DEF Typed
<1>3. /\ phase' \in [Operators -> Phases]
      /\ \A d \in Operators : phase'[d] = "ok" => phase[d] = "ok"
  BY <1>1 DEF Typed, Phases
<1>4. Typed'
  BY <1>1, <1>2, <1>3 DEF Typed, daemonVars
<1> QED  BY <1>1, <1>3, <1>4, QuietKeeps DEF daemonVars

LEMMA AcceptKeeps == ControlInv /\ Accept => ControlInv'
<1> SUFFICES ASSUME ControlInv, Accept PROVE ControlInv'
  OBVIOUS
<1>1. Typed /\ UNCHANGED <<daemonVars, operation, seen, tries>> /\ Informed' = Informed
  BY InformedStays DEF ControlInv, Accept
<1>2. Head(backlog) \in Informed /\ backlog' \in Seq(Informed)
  BY <1>1, SeqParts DEF Accept, Typed
<1>3. CASE HasRoom
  <2>1. sessions' = Append(sessions, Head(backlog)) /\ UNCHANGED phase
    BY <1>3 DEF Accept
  <2>2. sessions' \in Seq(Informed) /\ Len(sessions') <= MaxSessions
    BY <1>1, <1>2, <1>3, <2>1, SeqParts, ControlBounds DEF Typed, HasRoom
  <2>3. Typed'
    BY <1>1, <1>2, <2>1, <2>2 DEF Typed, daemonVars
  <2> QED  BY <1>1, <2>1, <2>3, QuietKeeps DEF daemonVars
<1>4. CASE ~HasRoom
  <2>1. Tell(Head(backlog), "busy") /\ UNCHANGED sessions
    BY <1>4 DEF Accept
  <2>2. /\ phase' \in [Operators -> Phases]
        /\ \A d \in Operators : phase'[d] = "ok" => phase[d] = "ok"
    BY <1>1, <1>2, <2>1, TellIs DEF Typed
  <2>3. Typed'
    BY <1>1, <1>2, <2>1, <2>2 DEF Typed, daemonVars
  <2> QED  BY <1>1, <2>2, <2>3, QuietKeeps DEF daemonVars
<1> QED  BY <1>3, <1>4

LEMMA CloseSessionKeeps ==
  ASSUME ControlInv, NEW i \in DOMAIN sessions, CloseSession(i) PROVE ControlInv'
<1>1. Typed /\ UNCHANGED <<daemonVars, backlog, operation, seen, tries>> /\ Informed' = Informed
  BY InformedStays DEF ControlInv, CloseSession
<1>2. /\ sessions[i] \in Informed /\ sessions' \in Seq(Informed) /\ Len(sessions') <= MaxSessions
  BY <1>1, SeqParts, ControlBounds DEF Typed, CloseSession
<1>3. /\ phase' \in [Operators -> Phases]
      /\ \A d \in Operators : phase'[d] = "ok" => phase[d] = "ok"
  BY <1>1, <1>2, TellIs DEF Typed, CloseSession
<1>4. Typed'
  BY <1>1, <1>2, <1>3 DEF Typed, daemonVars
<1> QED  BY <1>1, <1>3, <1>4, QuietKeeps DEF daemonVars

(* A gate a tick opens is one nobody has read.                              *)
LEMMA TickKeeps == ControlInv /\ Tick => ControlInv'
<1> SUFFICES ASSUME ControlInv, Tick PROVE ControlInv'
  OBVIOUS
<1>1. Typed /\ UNCHANGED <<controller, loading, sessionVars, operatorVars>> /\ Informed' = Informed
  BY InformedStays DEF ControlInv, Tick, operatorVars
<1>2. controller = "up" /\ loading = 0
  BY DEF ControlInv, Loading, Tick
<1> PICK id \in Ids : \E after \in Progress(memory[id]) :
      /\ memory' = [memory EXCEPT ![id] = after]
      /\ gates' = IF after.state = "Gated" THEN gates + 1 ELSE gates
      /\ Persisted(id) \/ NotPersisted
  BY DEF Tick
<1> DEFINE r == memory[id]
<1>3. PICK after \in Progress(r) :
        /\ memory' = [memory EXCEPT ![id] = after]
        /\ gates' = IF after.state = "Gated" THEN gates + 1 ELSE gates
        /\ Persisted(id) \/ NotPersisted
  OBVIOUS
<1>4. r \in Snapshots /\ Sound(r) /\ Honest(r, id) /\ r.gate <= gates /\ gates \in Nat
  BY <1>1 DEF ControlInv, Typed, Histories
<1>5. /\ after \in Snapshots /\ Sound(after) /\ after # Absent
      /\ r.state \in {"Running", "RollingBack"}
      /\ after.applied = r.applied /\ after.origin = r.origin
      /\ after.revision > r.revision /\ after.generation = r.generation
      /\ after.gate = r.gate \/ (after.gate = gates + 1 /\ after.state = "Gated")
  BY <1>4, ProgressIs
<1>6. r # Absent /\ Restorable(r)
  BY <1>5, AbsentIs DEF Restorable
<1>7. gates' \in Nat /\ gates' >= gates /\ after.gate <= gates'
  <2>1. r.gate \in Nat
    BY <1>4 DEF Snapshots
  <2> QED  BY <1>3, <1>4, <1>5, <2>1
<1>8. memory'[id] = after /\ memory' = [memory EXCEPT ![id] = memory'[id]]
  BY <1>1, <1>3 DEF Typed
<1>9. Writes(id) /\ Continues(id)
  <2>1. \A c \in Operators : r.applied[c] \in Nat
    BY <1>4 DEF Snapshots
  <2> QED  BY <1>1, <1>3, <1>5, <1>6, <1>8, <2>1, StorageIs DEF Writes, Continues
<1>10. Typed'
  <2>1. memory' \in [Ids -> Snapshots] /\ disk' \in [Ids -> Snapshots]
    BY <1>1, <1>9, WritesKeepTypes DEF Typed
  <2>2. storageFailed' \in BOOLEAN /\ faults' \in 0..MaxFaults
    BY <1>1, <1>3, StorageIs
  <2>3. seen' \in [Operators -> {Unseen} \cup [rollout : Ids, revision : Nat, gate : 0..gates']]
    <3>1. 0..gates \subseteq 0..gates'
      BY <1>4, <1>7
    <3>2. seen \in [Operators -> {Unseen} \cup [rollout : Ids, revision : Nat, gate : 0..gates']]
      BY <1>1, <3>1 DEF Typed
    <3> QED  BY <1>1, <3>2 DEF operatorVars
  <2> QED  BY <1>1, <1>7, <2>1, <2>2, <2>3 DEF Typed, sessionVars, operatorVars
<1>11. Honest(after, id)
  <2>1. \A c \in Operators : seen[c].gate \in 0..gates /\ seen[c].revision \in Nat
    BY <1>1 DEF Typed, Unseen
  <2>2. r.revision \in Nat /\ after.revision \in Nat
    BY <1>4, <1>5 DEF Snapshots
  <2> QED  BY <1>4, <1>5, <2>1, <2>2 DEF Honest
<1>12. Histories'
  BY <1>1, <1>5, <1>7, <1>8, <1>9, <1>11, WritesKeepHistories DEF ControlInv, operatorVars
<1>13. Held'
  BY <1>1, <1>2, <1>5, <1>8, <1>9, WritesKeepHeld DEF ControlInv
<1>14. Kept'
  BY <1>1, <1>9, WritesKeepKept DEF ControlInv, operatorVars
<1>15. OneLive'
  BY <1>1, <1>5, <1>6, <1>8, <1>9, WritesKeepOneLive DEF ControlInv, Live
<1>16. Loading'
  <2>1. Live(after) \/ ~(after.origin = "document" /\ after.generation = 1)
    <3>1. after.state \in {"Gated", "Failed", "Completed"}
      <4>1. after = Enter([r EXCEPT !.gate = gates + 1], "Gated")
            \/ after = Enter(r, "Failed") \/ after = Enter(r, "Completed")
        BY <1>3 DEF Progress
      <4>2. [r EXCEPT !.gate = gates + 1] \in Snapshots
        BY <1>4 DEF Snapshots
      <4> QED  BY <1>4, <4>1, <4>2, EnterIs, StatesAre
    <3> QED  BY <3>1 DEF Live, Restorable
  <2> QED  BY <1>1, <1>2, <1>8, <1>9, <2>1, WritesKeepTypes
           DEF ControlInv, Typed, Loading, Live, Restorable
<1> QED  BY <1>10, <1>12, <1>13, <1>14, <1>15, <1>16 DEF ControlInv

(* A controller that starts holds what is on disk and was armed.            *)
LEMMA OpenKeeps == ControlInv /\ Open => ControlInv'
<1> SUFFICES ASSUME ControlInv, Open PROVE ControlInv'
  OBVIOUS
<1>1. /\ Typed /\ UNCHANGED <<loading, storageFailed, disk, gates, faults, sessionVars, operatorVars>>
      /\ Informed' = Informed /\ controller = "down" /\ controller' \in {"opening", "up"}
  BY InformedStays DEF ControlInv, Open, operatorVars
<1>2. /\ memory' = [r \in Ids |-> IF Restorable(disk[r]) THEN disk[r] ELSE Absent]
      /\ loading = 0
  BY <1>1 DEF ControlInv, Loading, Open
<1>3. \A r \in Ids : /\ memory'[r] \in {disk[r], Absent} /\ disk'[r] = disk[r]
                     /\ memory'[r] = Absent => ~Restorable(disk[r])
                     /\ memory'[r] # Absent => Restorable(disk[r])
  BY <1>1, <1>2, AbsentIs DEF Restorable
<1>4. Typed'
  <2>1. memory' \in [Ids -> Snapshots]
    BY <1>1, <1>2, AbsentIs DEF Typed
  <2> QED  BY <1>1, <2>1 DEF Typed, sessionVars, operatorVars
<1>5. Histories'
  <2>1. Sound(Absent) /\ Absent.gate <= gates /\ \A r \in Ids : Honest(Absent, r)
    BY <1>1, AbsentIs DEF Sound, Honest, Typed
  <2> SUFFICES ASSUME NEW r \in Ids, NEW x \in {memory'[r], disk'[r]}
               PROVE  Sound(x) /\ Honest(x, r) /\ x.gate <= gates
    BY <1>1 DEF Histories, Sound, Restorable, Honest, Creates, Approves, operatorVars
  <2> QED  BY <1>3, <2>1 DEF ControlInv, Histories
<1>6. Held'
  BY <1>1, <1>3, AbsentIs DEF Held, Restorable
<1>7. Kept'
  <2> SUFFICES ASSUME NEW c \in Operators, phase[c] = "ok", ~Creates(c)
               PROVE  \E r \in Ids : /\ seen[c].rollout = r /\ disk'[r].applied[c] > 0
                                     /\ memory'[r] # Absent => memory'[r].applied[c] > 0
    BY <1>1 DEF Kept, Creates, operatorVars
  <2> QED  BY <1>3 DEF ControlInv, Kept
<1>8. OneLive'
  <2>1. ~Live(Absent)
    BY AbsentIs DEF Live
  <2> SUFFICES ASSUME NEW r \in Ids, NEW q \in Ids, r # q,
                      NEW x \in {memory'[r], disk'[r]}, NEW y \in {memory'[q], disk'[q]}
               PROVE  ~(Live(x) /\ Live(y))
    BY DEF OneLive, Live, Restorable
  <2> QED  BY <1>3, <2>1 DEF ControlInv, OneLive
<1>9. Loading'
  BY <1>1, <1>2, <1>3, AbsentIs DEF Loading, Live, Restorable
<1> QED  BY <1>4, <1>5, <1>6, <1>7, <1>8, <1>9 DEF ControlInv

LEMMA LeaveKeeps == ControlInv /\ Leave /\ faults' \in 0..MaxFaults => ControlInv'
<1> SUFFICES ASSUME ControlInv, Leave, faults' \in 0..MaxFaults PROVE ControlInv'
  OBVIOUS
<1>1. /\ Typed /\ UNCHANGED <<disk, gates, operation, seen, tries>> /\ Informed' = Informed
      /\ controller' = "down" /\ loading' = 0
  BY InformedStays DEF ControlInv, Leave
<1>2. \A r \in Ids : memory'[r] = Absent /\ disk'[r] = disk[r]
  BY <1>1 DEF Leave
<1>3. /\ phase' \in [Operators -> Phases]
      /\ \A d \in Operators : phase'[d] = "ok" => phase[d] = "ok"
  BY <1>1 DEF Typed, Phases, Leave
<1>4. Typed'
  <2>1. memory' \in [Ids -> Snapshots] /\ disk' \in [Ids -> Snapshots]
    BY <1>1, AbsentIs DEF Typed, Leave
  <2>2. backlog' \in Seq(Informed) /\ sessions' \in Seq(Informed) /\ Len(sessions') <= MaxSessions
    BY ControlBounds DEF Leave
  <2>3. storageFailed' \in BOOLEAN
    BY Zenon DEF Leave
  <2>4. loading' \in 0..MaxRollouts
    BY <1>1, ControlBounds
  <2> QED  BY <1>1, <1>3, <2>1, <2>2, <2>3, <2>4 DEF Typed
<1>5. Histories'
  <2>1. Sound(Absent) /\ Absent.gate <= gates /\ \A r \in Ids : Honest(Absent, r)
    BY <1>1, AbsentIs DEF Sound, Honest, Typed
  <2> SUFFICES ASSUME NEW r \in Ids, NEW x \in {Absent, disk[r]}
               PROVE  Sound(x) /\ Honest(x, r) /\ x.gate <= gates
    BY <1>1, <1>2 DEF Histories, Sound, Restorable, Honest, Creates, Approves
  <2> QED  BY <2>1 DEF ControlInv, Histories
<1>6. Held' /\ Loading'
  BY <1>1, <1>2, AbsentIs DEF Held, Loading, Live, Restorable
<1>7. Kept'
  BY <1>1, <1>2, <1>3 DEF ControlInv, Kept, Creates
<1>8. OneLive'
  <2>1. ~Live(Absent)
    BY AbsentIs DEF Live
  <2> SUFFICES ASSUME NEW r \in Ids, NEW q \in Ids, r # q,
                      NEW x \in {Absent, disk[r]}, NEW y \in {Absent, disk[q]}
               PROVE  ~(Live(x) /\ Live(y))
    BY <1>2 DEF OneLive, Live, Restorable
  <2> QED  BY <2>1 DEF ControlInv, OneLive
<1> QED  BY <1>4, <1>5, <1>6, <1>7, <1>8 DEF ControlInv

(* The document is loaded only when nothing that is armed was restored.     *)
LEMMA LoadDocumentsKeeps == ControlInv /\ LoadDocuments => ControlInv'
<1> SUFFICES ASSUME ControlInv, LoadDocuments PROVE ControlInv'
  OBVIOUS
<1>1. /\ Typed /\ UNCHANGED <<gates, sessionVars, operatorVars>> /\ Informed' = Informed
      /\ controller = "opening"
  BY InformedStays DEF ControlInv, LoadDocuments, operatorVars
<1>2. CASE loading = 0 /\ Adopts
  <2>1. controller' = "up" /\ UNCHANGED <<loading, memory, disk, storageFailed, faults>>
    BY <1>2 DEF LoadDocuments
  <2>2. Typed'
    BY <1>1, <2>1 DEF Typed, sessionVars, operatorVars
  <2>3. Histories'
    BY <1>1, <2>1 DEF ControlInv, Histories, Sound, Restorable, Honest, Creates, Approves,
                      operatorVars
  <2>4. Held' /\ OneLive' /\ Loading'
    BY <1>1, <1>2, <2>1 DEF ControlInv, Held, OneLive, Loading, Live, Restorable
  <2>5. Kept'
    BY <1>1, <2>1 DEF ControlInv, Kept, Creates, operatorVars
  <2> QED  BY <2>2, <2>3, <2>4, <2>5 DEF ControlInv
<1>3. CASE ~(loading = 0 /\ Adopts)
  <2>1. PICK id \in IF loading = 0 THEN NewIds ELSE {loading} :
          LET next == LoadStep(id)
              started == next.state = "Running"
          IN  /\ memory' = [memory EXCEPT ![id] = next] /\ Persisted(id)
              /\ controller' = IF started THEN "up" ELSE "opening"
              /\ loading' = IF started THEN 0 ELSE id
    BY <1>3 DEF LoadDocuments
  <2> DEFINE next == LoadStep(id)
  <2>2. id \in Ids /\ id # 0 /\ (loading # 0 => id = loading)
    BY <1>1, <2>1, ControlBounds DEF NewIds, Typed, Ids
  <2>3. \A q \in Ids \ {id} : memory[q] = Absent /\ ~Live(disk[q])
    <3>1. CASE loading = 0
      BY <1>1, <1>3, <3>1 DEF Adopts, ControlInv, Held, Live
    <3>2. CASE loading # 0
      BY <2>2, <3>2 DEF ControlInv, Loading
    <3> QED  BY <3>1, <3>2
  <2>4. /\ next \in Snapshots /\ next # Absent /\ Sound(next) /\ Honest(next, id)
        /\ next.gate <= gates /\ (next.state = "Running" => Restorable(next))
        /\ \/ memory[id] = Absent /\ disk[id] = Absent
           \/ memory[id] # Absent /\ next.applied = memory[id].applied
    <3>1. CASE loading = 0
      <4>1. memory[id] = Absent /\ disk[id] = Absent
        BY <1>3, <2>1, <3>1 DEF NewIds, Adopts
      <4>2. next = Rollout("Validated", "document")
        BY <3>1, <4>1, AbsentIs DEF LoadStep
      <4>3. /\ next \in Snapshots /\ next # Absent /\ next.state = "Validated" /\ next.gate = 0
            /\ next.begun = FALSE /\ \A c \in Operators : next.applied[c] = 0
        BY <4>2, NewRollout
      <4> HIDE DEF next
      <4>4. Sound(next) /\ Honest(next, id) /\ next.gate <= gates
        BY <1>1, <4>3 DEF Sound, Honest, Restorable, Typed
      <4> QED  BY <4>1, <4>3, <4>4
    <3>2. CASE loading # 0
      <4> DEFINE r == memory[id]
      <4>1. r # Absent /\ r \in Snapshots /\ Honest(r, id) /\ r.gate <= gates
        BY <1>1, <2>2, <3>2 DEF ControlInv, Loading, Typed, Histories
      <4>2. PICK s \in {"Armed", "Running"} : next = Enter(r, s)
        BY <3>2 DEF LoadStep
      <4>3. /\ next \in Snapshots /\ next # Absent /\ next.state = s /\ next.gate = r.gate
            /\ next.applied = r.applied /\ next.revision = r.revision + 1 /\ r.revision \in Nat
        <5>1. r.revision \in Nat
          BY <4>1 DEF Snapshots
        <5> QED  BY <4>1, <4>2, <5>1, EnterIs, StatesAre
      <4> HIDE DEF next, r
      <4>4. Sound(next) /\ Restorable(next)
        BY <4>3 DEF Sound, Restorable
      <4>5. Honest(next, id)
        <5>1. \A c \in Operators : seen[c].revision \in Nat
          BY <1>1 DEF Typed, Unseen
        <5> QED  BY <4>1, <4>3, <5>1 DEF Honest
      <4> QED  BY <4>1, <4>3, <4>4, <4>5 DEF r
    <3> QED  BY <3>1, <3>2
  <2> HIDE DEF next
  <2>5. /\ memory'[id] = next /\ memory' = [memory EXCEPT ![id] = memory'[id]]
        /\ disk' = [disk EXCEPT ![id] = memory'[id]] /\ UNCHANGED <<storageFailed, faults>>
        /\ next.state = "Running" => controller' = "up" /\ loading' = 0
        /\ next.state # "Running" => controller' = "opening" /\ loading' = id
    BY <1>1, <2>1, <2>2 DEF next, Persisted, Stores, Typed
  <2>6. Writes(id) /\ (Begins(id) \/ Continues(id))
    <3>1. \A c \in Operators : memory[id].applied[c] \in Nat
      <4>1. memory[id] \in Snapshots
        BY <1>1, <2>2 DEF Typed
      <4> QED  BY <4>1 DEF Snapshots
    <3> QED  BY <2>4, <2>5, <3>1 DEF Writes, Begins, Continues
  <2>7. Typed'
    <3>1. memory' \in [Ids -> Snapshots] /\ disk' \in [Ids -> Snapshots]
      BY <1>1, <2>2, <2>6, WritesKeepTypes DEF Typed
    <3>2. loading' \in 0..MaxRollouts /\ controller' \in {"down", "opening", "up"}
      BY <2>2, <2>5, ControlBounds
    <3> QED  BY <1>1, <2>5, <3>1, <3>2 DEF Typed, sessionVars, operatorVars
  <2>8. Histories'
    <3>1. gates' \in Nat /\ gates' = gates /\ gates' >= gates /\ UNCHANGED <<operation, seen>>
      BY <1>1 DEF Typed, operatorVars
    <3> QED  BY <1>1, <2>2, <2>4, <2>5, <2>6, <3>1, WritesKeepHistories DEF ControlInv
  <2>9. Held'
    BY <1>1, <2>2, <2>4, <2>5, <2>6, WritesKeepHeld DEF ControlInv
  <2>10. Kept'
    BY <1>1, <2>2, <2>6, WritesKeepKept DEF ControlInv, operatorVars
  <2>11. \A q \in Ids \ {id} : memory'[q] = Absent /\ ~Live(disk'[q])
    BY <1>1, <2>2, <2>3, <2>6, WritesKeepTypes DEF Typed
  <2>12. OneLive'
    <3>1. \A q \in Ids \ {id} : ~Live(memory[q]) /\ ~Live(disk[q])
      BY <2>3, AbsentIs DEF Live
    <3> QED  BY <1>1, <2>2, <2>6, <3>1, WritesKeepOneLive DEF ControlInv
  <2>13. Loading'
    <3>1. CASE next.state = "Running"
      <4>1. \A q \in Ids \ {id} : memory'[q].origin = "nobody"
        BY <2>11, AbsentIs
      <4>2. loading' = 0 /\ Restorable(memory'[id])
        BY <2>4, <2>5, <3>1
      <4> QED  BY <4>1, <4>2 DEF Loading, Live, Restorable
    <3>2. CASE next.state # "Running"
      BY <2>2, <2>4, <2>5, <2>11, <3>2 DEF Loading, Live, Restorable
    <3> QED  BY <3>1, <3>2
  <2> QED  BY <2>7, <2>8, <2>9, <2>10, <2>12, <2>13 DEF ControlInv
<1> QED  BY <1>2, <1>3

-----------------------------------------------------------------------------
(* The theorems.                                                            *)

LEMMA InitControlInv == Init => ControlInv
<1> SUFFICES ASSUME Init PROVE ControlInv
  OBVIOUS
<1>1. \A r \in Ids : memory[r] = Absent /\ disk[r] = Absent
  BY DEF Init
<1>2. Typed
  <2>1. memory \in [Ids -> Snapshots] /\ disk \in [Ids -> Snapshots]
    BY AbsentIs DEF Init
  <2>2. seen \in [Operators -> {Unseen}] /\ phase \in [Operators -> Phases]
    BY DEF Init, Phases
  <2>3. backlog \in Seq(Informed) /\ sessions \in Seq(Informed) /\ Len(sessions) <= MaxSessions
    BY ControlBounds DEF Init
  <2>4. /\ controller \in {"down", "opening", "up"}
        /\ loading \in 0..MaxRollouts /\ faults \in 0..MaxFaults /\ gates \in Nat
        /\ operation \in Operations
    BY ControlBounds DEF Init
  <2>5. storageFailed \in BOOLEAN
    BY Zenon DEF Init
  <2> QED  BY <2>1, <2>2, <2>3, <2>4, <2>5 DEF Typed
<1>3. Histories
  BY <1>1, AbsentIs DEF Init, Histories, Sound, Honest
<1>4. Held /\ OneLive /\ Loading
  BY <1>1, AbsentIs DEF Init, Held, OneLive, Loading, Live
<1>5. Kept
  BY DEF Init, Kept
<1> QED  BY <1>2, <1>3, <1>4, <1>5 DEF ControlInv

LEMMA NextKeepsControlInv == ControlInv /\ [Next]_vars => ControlInv'
<1> SUFFICES ASSUME ControlInv, [Next]_vars PROVE ControlInv'
  OBVIOUS
<1>1. ASSUME NEW c \in Operators, Connect(c) \/ GiveUp(c) PROVE ControlInv'
  BY <1>1, ConnectKeeps, GiveUpKeeps
<1>2. CASE Accept \/ Tick
  BY <1>2, AcceptKeeps, TickKeeps
<1>3. ASSUME NEW i \in DOMAIN sessions, Serve(i) \/ CloseSession(i) PROVE ControlInv'
  BY <1>3, ServeKeeps, CloseSessionKeeps
<1>4. CASE Open \/ LoadDocuments
  BY <1>4, OpenKeeps, LoadDocumentsKeeps
<1>5. CASE Crash
  <2>1. faults' \in 0..MaxFaults
    BY <1>5, ControlBounds DEF Crash, ControlInv, Typed
  <2> QED  BY <1>5, <2>1, LeaveKeeps DEF Crash
<1>6. CASE Stop
  <2>1. faults' \in 0..MaxFaults
    BY <1>6 DEF Stop, ControlInv, Typed
  <2> QED  BY <1>6, <2>1, LeaveKeeps DEF Stop
<1>7. CASE UNCHANGED vars
  <2>1. UNCHANGED <<daemonVars, sessionVars, operatorVars>>
    BY <1>7 DEF vars
  <2>2. Informed' = Informed
    BY <2>1, InformedStays DEF operatorVars
  <2>3. Typed'
    BY <2>1, <2>2 DEF ControlInv, Typed, daemonVars, sessionVars, operatorVars
  <2> QED  BY <2>1, <2>3, QuietKeeps DEF daemonVars, operatorVars
<1> QED  BY <1>1, <1>2, <1>3, <1>4, <1>5, <1>6, <1>7 DEF Next

(* Whatever operators, losses, failures and restarts there are, what the    *)
(* controller holds, has stored and has told agrees as ControlInv says.     *)
THEOREM ControlInvariant == Spec => []ControlInv
<1> QED  BY InitControlInv, NextKeepsControlInv, PTL DEF Spec

(* The controller's types hold, and its sessions stay within their ceiling. *)
THEOREM ControlTypes == Spec => []TypeOK
<1>1. ControlInv => TypeOK
  <2> SUFFICES ASSUME ControlInv PROVE TypeOK
    OBVIOUS
  <2>1. Typed
    BY DEF ControlInv
  <2>2. \A r \in Ids : {memory[r].state, disk[r].state} \subseteq RolloutStates
    BY <2>1 DEF Typed, Snapshots
  <2>3. \A conns \in {backlog, sessions} : \A i \in DOMAIN conns : conns[i] \in Informed
    BY <2>1 DEF Typed
  <2>4. \A conns \in {backlog, sessions} : \A i \in DOMAIN conns :
          conns[i].by \in Operators /\ conns[i].sent \in BOOLEAN
    BY <2>3 DEF Informed
  <2> QED  BY <2>1, <2>2, <2>4 DEF Typed, TypeOK
<1> QED  BY <1>1, ControlInvariant, PTL

(* A command fenced by the revision its operator read is applied at most    *)
(* once to every rollout in memory and on disk, sent again or not, over any *)
(* number of restarts (check_fences).                                       *)
THEOREM FencedIsAppliedOnce == Spec => []AppliedOnce
<1>1. ControlInv => AppliedOnce
  <2> SUFFICES ASSUME ControlInv, NEW c \in Operators, operation[c].fenced,
                      operation[c].kind # "create", NEW r \in Ids, NEW x \in {memory[r], disk[r]}
               PROVE  x.applied[c] <= 1
    BY DEF AppliedOnce
  <2>1. x \in Snapshots /\ Honest(x, r)
    BY DEF ControlInv, Typed, Histories
  <2>2. x.applied[c] \in Nat
    BY <2>1 DEF Snapshots
  <2> QED  BY <2>1, <2>2 DEF Honest, Creates
<1> QED  BY <1>1, ControlInvariant, PTL

(* No gate of any rollout is approved by two operators, or twice by one     *)
(* (approve_gate).                                                          *)
THEOREM GatesAreApprovedOnce == Spec => []GateApprovedOnce
<1>1. ControlInv => GateApprovedOnce
  <2> SUFFICES ASSUME ControlInv, NEW r \in Ids, NEW g \in 1..gates
               PROVE  LET approvers == {c \in Operators :
                            /\ operation[c].kind = "approve" /\ seen[c].rollout = r
                            /\ seen[c].gate = g /\ memory[r].applied[c] > 0}
                      IN  /\ Cardinality(approvers) <= 1
                          /\ \A c \in approvers : memory[r].applied[c] = 1
    BY DEF GateApprovedOnce
  <2> DEFINE approvers == {c \in Operators :
                             /\ operation[c].kind = "approve" /\ seen[c].rollout = r
                             /\ seen[c].gate = g /\ memory[r].applied[c] > 0}
  <2>1. Honest(memory[r], r)
    BY DEF ControlInv, Histories
  <2>2. \A c \in approvers : memory[r].applied[c] = 1 /\ \A d \in approvers : d = c
    BY <2>1 DEF Honest, Approves, Creates
  <2>3. Cardinality(approvers) <= 1
    <3>1. \A c \in approvers : approvers = {c}
      BY <2>2
    <3> HIDE DEF approvers
    <3>2. CASE approvers = {}
      BY <3>2, FS_EmptySet
    <3>3. ASSUME NEW c \in approvers PROVE Cardinality(approvers) <= 1
      <4>1. approvers = {c}
        BY <3>1
      <4>2. Cardinality({c}) = 1
        BY FS_Singleton
      <4> QED  BY <4>1, <4>2
    <3> QED  BY <3>2, <3>3
  <2> QED  BY <2>2, <2>3
<1> QED  BY <1>1, ControlInvariant, PTL

(* What an operator was told is done survives every crash and every storage *)
(* failure, in each controller that holds the rollout (persist_rollout      *)
(* before the answer, restore).                                             *)
THEOREM AcknowledgedStays == Spec => []AcknowledgedIsKept
<1>1. ControlInv => AcknowledgedIsKept
  <2> SUFFICES ASSUME ControlInv, NEW c \in Operators, controller # "down", phase[c] = "ok",
                      operation[c].kind # "create"
               PROVE  IF memory[seen[c].rollout] # Absent
                      THEN memory[seen[c].rollout].applied[c] > 0
                      ELSE disk[seen[c].rollout].state = "Validated"
    BY DEF AcknowledgedIsKept
  <2>1. PICK r \in Ids : /\ seen[c].rollout = r /\ disk[r].applied[c] > 0
                         /\ memory[r] # Absent => memory[r].applied[c] > 0
    BY DEF ControlInv, Kept, Creates
  <2>2. memory[r] = Absent => disk[r].state \in {"Created", "Validated"}
    BY DEF ControlInv, Held, Restorable
  <2>3. disk[r] # Absent
    BY <2>1, AbsentIs
  <2>4. disk[r].state # "Created"
    BY <2>3 DEF ControlInv, Histories, Sound
  <2> QED  BY <2>1, <2>2, <2>4
<1> QED  BY <1>1, ControlInvariant, PTL

(* Of two rollouts of the plan document that have begun, one was            *)
(* regenerated: a restart, wherever it falls in the loading of the          *)
(* document, does not start the plan again (load_documents).                *)
THEOREM DocumentIsOneChange == Spec => []OneChangePerDocument
<1>1. ControlInv => OneChangePerDocument
  <2> SUFFICES ASSUME ControlInv, NEW r \in Ids, NEW q \in Ids, r # q,
                      \A x \in {disk[r], disk[q]} : x.origin = "document" /\ x.begun
               PROVE  \E x \in {disk[r], disk[q]} : x.generation > 1
    BY DEF OneChangePerDocument
  <2>1. disk[r].generation \in Nat \ {0} /\ disk[q].generation \in Nat \ {0}
    <3>1. disk[r] \in Snapshots /\ disk[q] \in Snapshots
      BY DEF ControlInv, Typed
    <3> QED  BY <3>1 DEF Snapshots
  <2>2. disk[r].generation = 1 => Live(disk[r])
    BY DEF ControlInv, Histories, Sound, Live
  <2>3. disk[q].generation = 1 => Live(disk[q])
    BY DEF ControlInv, Histories, Sound, Live
  <2>4. ~(Live(disk[r]) /\ Live(disk[q]))
    BY DEF ControlInv, OneLive
  <2> QED  BY <2>1, <2>2, <2>3, <2>4
<1> QED  BY <1>1, ControlInvariant, PTL
=============================================================================
