---------------------------- MODULE ExecPlaneProofs ----------------------------
(***************************************************************************)
(* Theorems about the execution plane: what the adapter's tables, the       *)
(* workers' ledgers and the frames between them agree on, and that the      *)
(* plane implements the contract the orchestrator relies on.                *)
(***************************************************************************)
EXTENDS ExecPlaneSafety, FiniteSetTheorems, SequenceTheorems, TLAPS

-----------------------------------------------------------------------------
(* The inductive invariant.                                                 *)

Dispositions == {"not_started", "in_progress", "completed", "failed"}

Orders ==
  [type : {"dispatch", "cancel"}, attempt : Attempts]
    \cup [type : {"reconcile"}, id : Nat \X Workers, fences : SUBSET Attempts]

Frames ==
  [type : {"hello"}]
    \cup [type : {"ack"}, attempt : Attempts, outcome : {"accepted", "duplicate", "throttled"}]
    \cup [type : {"evidence"}, attempt : Attempts, outcome : Outcomes]
    \cup [type : {"cancel_ack"}, attempt : Attempts, stopped : BOOLEAN]
    \cup [type : {"answer"}, id : Nat \X Workers,
          entries : UNION {[fences -> Dispositions] : fences \in SUBSET Attempts}]

Completions == [attempt : Attempts, how : Outcomes]

Typed ==
  /\ TypeOK
  /\ toWorker \in [Workers -> Seq(Orders)] /\ toController \in [Workers -> Seq(Frames)]
  /\ completions \in [Workers -> Seq(Completions)]
  /\ reported \subseteq [attempt : Attempts, outcome : Outcomes]
  /\ answered \subseteq [attempt : Attempts, is : Dispositions]
  /\ IsFiniteSet(asked)

Carried(w) == {a \in Attempts : route[a] # 0 /\ carrier[a] = w}

(* Of a worker's connection: it is counted by what is routed to it, and     *)
(* until its hello is handled it carries nothing.                           *)
Wired(w) ==
  /\ Attached(w) => life[w] # "unborn"
  /\ ~Attached(w) => ~helloed[w] /\ toController[w] = <<>>
  /\ ~helloed[w] => Carried(w) = {}
  /\ IsFiniteSet(Carried(w)) /\ inFlight[w] = Cardinality(Carried(w))
  /\ \A n \in DOMAIN toController[w] :
       toController[w][n].type = "hello" => n = 1 /\ ~helloed[w]

Wires == RoutesLeadToTheCarrier /\ \A w \in Workers : Wired(w)

(* Frames, entries and results are at the worker that carries the attempt.  *)
Ours(w, m) ==
  /\ m.type \in {"dispatch", "cancel"} => carrier[m.attempt] = w
  /\ m.type = "cancel" => m.attempt \in asked
  /\ m.type = "reconcile" => \A a \in m.fences : carrier[a] = w

Theirs(w, m) ==
  /\ m.type \in {"ack", "evidence", "cancel_ack"} => carrier[m.attempt] = w
  /\ m.type = "evidence" /\ m.outcome = "stopped" => m.attempt \in asked
  /\ m.type = "answer" => \A a \in DOMAIN m.entries : carrier[a] = w

Addressed ==
  /\ \A w \in Workers :
       /\ \A n \in DOMAIN toWorker[w] : Ours(w, toWorker[w][n])
       /\ \A n \in DOMAIN toController[w] : Theirs(w, toController[w][n])
       /\ \A n \in DOMAIN completions[w] : carrier[completions[w][n].attempt] = w
       /\ \A n \in DOMAIN order[w] : carrier[order[w][n]] = w /\ effect[order[w][n]] # "none"
       /\ IsInjective(order[w])
  /\ \A a \in Issued : life[carrier[a]] # "unborn"
  /\ \A r \in reported : r.attempt \in Issued

(* Frames after which the adapter no longer looks for an attempt.           *)
Speaks(m, a) == m.type = "evidence" /\ m.attempt = a
Ends(m, a) ==
  \/ m.type = "ack" /\ m.attempt = a /\ Releases(m.outcome)
  \/ Speaks(m, a)
  \/ m.type = "cancel_ack" /\ m.attempt = a /\ m.stopped

Unheard(a) == \A r \in reported : r.attempt # a
Silent(a) ==
  /\ \A w \in Workers : \A n \in DOMAIN toController[w] : ~Ends(toController[w][n], a)
  /\ Unheard(a)

Starts(m, a) == m.type = "dispatch" /\ m.attempt = a
Waiting(a) == \E w \in Workers : \E n \in DOMAIN toWorker[w] : Starts(toWorker[w][n], a)
New(a) == carrier[a] = NoWorker \/ Waiting(a)

(* An attempt no worker has seen leaves no trace,                           *)
Untouched(a) ==
  /\ effect[a] = "none" /\ a \notin working \cup performed
  /\ \A h \in Attempts : deferred[h] # a
  /\ \A w \in Workers : \A n \in DOMAIN completions[w] : completions[w][n].attempt # a
  /\ \A e \in evicted : e[1] # a
  /\ Silent(a)

(* and its dispatch is on its way once, before any question about it.       *)
Fresh ==
  /\ \A a \in Attempts : New(a) => Untouched(a)
  /\ \A w \in Workers : \A n \in DOMAIN toWorker[w] : toWorker[w][n].type = "dispatch" =>
       \A k \in DOMAIN toWorker[w] :
         /\ Starts(toWorker[w][k], toWorker[w][n].attempt) => k = n
         /\ toWorker[w][k].type = "reconcile" /\ toWorker[w][n].attempt \in toWorker[w][k].fences
              => n < k

(* What may run has a route, and nothing is on its way that would end it.   *)
Routed ==
  \A a \in Attempts :
    /\ (Waiting(a) \/ effect[a] = "running") /\ Attached(carrier[a]) => route[a] # 0
    /\ effect[a] = "running" => Silent(a)

(* A retry that waits for the outcome of another attempt has none itself.   *)
Deferred ==
  \A h \in Attempts : deferred[h] # NoAttempt =>
    LET b == deferred[h]
    IN  /\ ~New(b) /\ carrier[b] = carrier[h] /\ effect[b] = "none"
        /\ b \notin working \cup performed
        /\ \A w \in Workers : \A n \in DOMAIN toController[w] : ~Speaks(toController[w][n], b)
        /\ Unheard(b)
        /\ \A g \in Attempts : deferred[g] = b => g = h

Begun == working \cup performed
Forgotten(a) == \E e \in evicted : e[1] = a

(* The threads, what they left, and the keys they worked under.             *)
Worked ==
  /\ \A a \in working : effect[a] \in Running
  /\ \A w \in Workers : \A n \in DOMAIN completions[w] :
       LET c == completions[w][n]
       IN  /\ effect[c.attempt] \in Running /\ c.attempt \notin working
           /\ c.how = "completed" => c.attempt \in performed
           /\ c.how = "stopped" => effect[c.attempt] = "stopping"
           /\ \A k \in DOMAIN completions[w] : completions[w][k].attempt = c.attempt => k = n
  /\ \A a \in Attempts : effect[a] = "completed" => a \in performed
  /\ \A a \in Begun : effect[a] # "none" \/ Forgotten(a) \/ life[carrier[a]] = "gone"
  /\ \A a, b \in Begun : a # b /\ Key[a] = Key[b] /\ carrier[a] = carrier[b] =>
       Forgotten(a) \/ Forgotten(b)
  /\ \A e \in evicted : Key[e[1]] # Key[e[2]] /\ e[1] \notin working

(* No success was told of it, and none will be.                             *)
Unsuccessful(a) ==
  /\ ~New(a) /\ effect[a] # "running" /\ \A h \in Attempts : deferred[h] # a
  /\ \A r \in reported : r.attempt = a => r.outcome # "completed"
  /\ \A w \in Workers : \A n \in DOMAIN toController[w] :
       Speaks(toController[w][n], a) => toController[w][n].outcome # "completed"

(* Was this said of the attempt, and before the n-th frame of its worker?   *)
Heard(a, said) == \E r \in reported : r.attempt = a /\ r.outcome \in said
SaidBefore(w, n, a, said) ==
  \/ Heard(a, said)
  \/ \E k \in DOMAIN toController[w] :
       k < n /\ Speaks(toController[w][k], a) /\ toController[w][k].outcome \in said

(* Whatever ended was told first,                                           *)
Told ==
  \A a \in Issued :
    /\ effect[a] \in {"failed", "stopping", "stopped"} => Unsuccessful(a)
    /\ Attached(carrier[a]) /\ life[carrier[a]] = "connected" =>
         LET w    == carrier[a]
             last == Len(toController[w]) + 1
         IN  /\ effect[a] = "completed" => SaidBefore(w, last, a, {"completed"})
             /\ effect[a] \in {"failed", "stopping", "stopped"} => SaidBefore(w, last, a, Outcomes)
             /\ effect[a] = "none" /\ a \in performed => SaidBefore(w, last, a, Outcomes)

Settled(a) == ~New(a) /\ a \notin working

(* and so was whatever an answer says ended.                                *)
Answered ==
  /\ \A w \in Workers : \A n \in DOMAIN toController[w] : toController[w][n].type = "answer" =>
       \A a \in DOMAIN toController[w][n].entries :
         LET is == toController[w][n].entries[a]
         IN  /\ is = "completed" => a \in performed /\ SaidBefore(w, n, a, {"completed"})
             /\ is = "failed" => Unsuccessful(a) /\ SaidBefore(w, n, a, Outcomes)
             /\ is = "not_started" =>
                  Settled(a) /\ (a \in performed => SaidBefore(w, n, a, Outcomes))
  /\ \A r \in answered :
       /\ r.is = "completed" => r.attempt \in performed
       /\ r.is = "not_started" =>
            Settled(r.attempt) /\ (r.attempt \in performed => Heard(r.attempt, Outcomes))

(* The outcome of an effect is told once, and first.                        *)
First ==
  \A w \in Workers : \A n \in DOMAIN toController[w] :
    LET m == toController[w][n]
    IN  m.type = "evidence" /\ m.outcome \in Finished =>
          /\ Unheard(m.attempt)
          /\ \A k \in DOMAIN toController[w] : Speaks(toController[w][k], m.attempt) => k >= n

PlaneInv ==
  /\ Typed /\ Wires /\ Addressed /\ Fresh /\ Routed /\ Deferred /\ Worked
  /\ Told /\ Answered /\ First

-----------------------------------------------------------------------------
(* Queues.                                                                  *)

Popped(new, old) ==
  /\ Len(old) > 0 /\ Len(new) = Len(old) - 1
  /\ \A n \in 1..Len(new) : new[n] = old[n + 1]
Pushed(new, old, more) ==
  /\ Len(new) = Len(old) + Len(more)
  /\ \A n \in 1..Len(old) : new[n] = old[n]
  /\ \A n \in 1..Len(more) : new[Len(old) + n] = more[n]

(* What is taken from a queue is its first element.                         *)
LEMMA Pop ==
  ASSUME NEW S, NEW s \in Seq(S), s # <<>>
  PROVE  Tail(s) \in Seq(S) /\ Head(s) = s[1] /\ s[1] \in S /\ Popped(Tail(s), s)
  BY DEF Popped

(* What is put in a queue comes after what is in it.                        *)
LEMMA Push ==
  ASSUME NEW S, NEW s \in Seq(S), NEW x \in S, NEW y \in S
  PROVE  /\ s \o <<x>> \in Seq(S) /\ Pushed(s \o <<x>>, s, <<x>>)
         /\ s \o <<x, y>> \in Seq(S) /\ Pushed(s \o <<x, y>>, s, <<x, y>>)
         /\ Append(s, x) \in Seq(S) /\ Pushed(Append(s, x), s, <<x>>)
  BY DEF Pushed

(* Two frames sent in one go.                                               *)
LEMMA Pair ==
  ASSUME NEW x, NEW y
  PROVE  <<x>> \o <<y>> = <<x, y>>
<1>1. <<x>> \in Seq({x, y}) /\ <<y>> \in Seq({x, y}) /\ <<x, y>> \in Seq({x, y})
  OBVIOUS
<1>2. /\ <<x>> \o <<y>> \in Seq({x, y}) /\ Len(<<x>> \o <<y>>) = 2
      /\ (<<x>> \o <<y>>)[1] = x /\ (<<x>> \o <<y>>)[2] = y
  BY <1>1
<1> DEFINE l == <<x>> \o <<y>>
           r == <<x, y>>
<1>3. Len(r) = 2 /\ r[1] = x /\ r[2] = y
  OBVIOUS
<1>4. \A i \in 1..2 : i = 1 \/ i = 2
  OBVIOUS
<1>5. Len(l) = Len(r) /\ \A i \in 1..Len(l) : l[i] = r[i]
  BY <1>2, <1>3, <1>4
<1>6. l \in Seq({x, y}) /\ r \in Seq({x, y})
  BY <1>1, <1>2
<1> HIDE DEF l, r
<1>7. l = r
  BY <1>5, <1>6, SeqEqual
<1>. QED BY <1>7 DEF l, r

(* A prefix.                                                                *)
LEMMA Cut ==
  ASSUME NEW S, NEW s \in Seq(S), NEW k \in 0..Len(s)
  PROVE  /\ SubSeq(s, 1, k) \in Seq(S) /\ Len(SubSeq(s, 1, k)) = k
         /\ \A n \in 1..k : SubSeq(s, 1, k)[n] = s[n]
  OBVIOUS

(* Where the elements of a sequence are when one of them is gone.           *)
LEMMA Removed ==
  ASSUME NEW S, NEW s \in Seq(S), NEW k \in 1..Len(s)
  PROVE  /\ RemoveAt(s, k) \in Seq(S) /\ Len(RemoveAt(s, k)) = Len(s) - 1
         /\ \A n \in 1..(Len(s) - 1) : RemoveAt(s, k)[n] = s[IF n < k THEN n ELSE n + 1]
<1> DEFINE l == SubSeq(s, 1, k - 1)
           r == SubSeq(s, k + 1, Len(s))
<1>1. l \in Seq(S) /\ Len(l) = k - 1 /\ \A n \in 1..(k - 1) : l[n] = s[n]
  OBVIOUS
<1>2. r \in Seq(S) /\ Len(r) = Len(s) - k /\ \A n \in 1..(Len(s) - k) : r[n] = s[n + k]
  OBVIOUS
<1> HIDE DEF l, r
<1>3. /\ l \o r \in Seq(S) /\ Len(l \o r) = Len(s) - 1
      /\ \A n \in 1..(Len(s) - 1) : (l \o r)[n] = IF n <= k - 1 THEN l[n] ELSE r[n - (k - 1)]
  <2>1. /\ l \o r \in Seq(S) /\ Len(l \o r) = Len(l) + Len(r)
        /\ \A n \in 1..(Len(l) + Len(r)) :
             (l \o r)[n] = IF n <= Len(l) THEN l[n] ELSE r[n - Len(l)]
    BY <1>1, <1>2, ConcatProperties
  <2>2. Len(r) = Len(s) - k /\ Len(l) = k - 1 /\ Len(l) + Len(r) = Len(s) - 1
    BY <1>1, <1>2
  <2>. QED BY <2>1, <2>2
<1>4. \A n \in 1..(Len(s) - 1) : (l \o r)[n] = s[IF n < k THEN n ELSE n + 1]
  BY <1>1, <1>2, <1>3
<1>. QED BY <1>3, <1>4 DEF RemoveAt, l, r

(* The same when the ones before it go to the back.                         *)
LEMMA Rotated ==
  ASSUME NEW S, NEW s \in Seq(S), NEW k \in 1..Len(s)
  PROVE  LET t == SubSeq(s, k + 1, Len(s)) \o SubSeq(s, 1, k - 1)
         IN  /\ t \in Seq(S) /\ Len(t) = Len(s) - 1
             /\ \A n \in 1..(Len(s) - 1) :
                  t[n] = s[IF n <= Len(s) - k THEN n + k ELSE n - (Len(s) - k)]
<1> DEFINE l == SubSeq(s, 1, k - 1)
           r == SubSeq(s, k + 1, Len(s))
<1>1. l \in Seq(S) /\ Len(l) = k - 1 /\ \A n \in 1..(k - 1) : l[n] = s[n]
  OBVIOUS
<1>2. r \in Seq(S) /\ Len(r) = Len(s) - k /\ \A n \in 1..(Len(s) - k) : r[n] = s[n + k]
  OBVIOUS
<1> HIDE DEF l, r
<1>3. /\ r \o l \in Seq(S) /\ Len(r \o l) = Len(s) - 1
      /\ \A n \in 1..(Len(s) - 1) :
           (r \o l)[n] = IF n <= Len(s) - k THEN r[n] ELSE l[n - (Len(s) - k)]
  <2>1. /\ r \o l \in Seq(S) /\ Len(r \o l) = Len(r) + Len(l)
        /\ \A n \in 1..(Len(r) + Len(l)) :
             (r \o l)[n] = IF n <= Len(r) THEN r[n] ELSE l[n - Len(r)]
    BY <1>1, <1>2, ConcatProperties
  <2>2. Len(r) = Len(s) - k /\ Len(l) = k - 1 /\ Len(r) + Len(l) = Len(s) - 1
    BY <1>1, <1>2
  <2>. QED BY <2>1, <2>2
<1>4. \A n \in 1..(Len(s) - 1) :
        (r \o l)[n] = s[IF n <= Len(s) - k THEN n + k ELSE n - (Len(s) - k)]
  BY <1>1, <1>2, <1>3
<1>. QED BY <1>3, <1>4 DEF l, r

-----------------------------------------------------------------------------
(* Types.                                                                   *)

(* The connections and what is counted by them, by their types.             *)
LEMMA ConnectionTypes ==
  ASSUME Typed
  PROVE  /\ connections \in Seq(Workers) /\ IsInjective(connections)
         /\ DOMAIN connections = 1..Len(connections) /\ Len(connections) \in Nat
         /\ \A i \in DOMAIN connections : connections[i] \in Workers /\ i \in Nat \ {0}
         /\ helloed \in [Workers -> BOOLEAN] /\ inFlight \in [Workers -> Nat]
         /\ route \in [Attempts -> Nat] /\ carrier \in [Attempts -> Workers \cup {NoWorker}]
         /\ life \in [Workers -> {"unborn", "connected", "gone"}]
         /\ toWorker \in [Workers -> Seq(Orders)] /\ toController \in [Workers -> Seq(Frames)]
<1>1. TypeOK /\ toWorker \in [Workers -> Seq(Orders)] /\ toController \in [Workers -> Seq(Frames)]
  BY DEF Typed
<1>2. /\ connections \in Seq(Workers) /\ IsInjective(connections)
      /\ helloed \in [Workers -> BOOLEAN] /\ inFlight \in [Workers -> Nat]
      /\ route \in [Attempts -> Nat] /\ carrier \in [Attempts -> Workers \cup {NoWorker}]
      /\ life \in [Workers -> {"unborn", "connected", "gone"}]
  BY <1>1, Zenon DEF TypeOK
<1>3. DOMAIN connections = 1..Len(connections) /\ Len(connections) \in Nat
  BY <1>2
<1>4. \A i \in DOMAIN connections : connections[i] \in Workers /\ i \in Nat \ {0}
  <2>1. connections \in Seq(Workers)
    BY <1>2
  <2>. QED BY <2>1
<1>. QED BY <1>1, <1>2, <1>3, <1>4

(* What the room made for an entry leaves of a worker's ledger.             *)
LEMMA KeptEntries ==
  ASSUME Typed, NEW w \in Workers
  PROVE  /\ Room(w) \subseteq 1..Len(order[w])
         /\ Kept(w) \in Seq(Attempts) /\ Victims(w) \subseteq Attempts
         /\ \A n \in 1..Len(Kept(w)) : \E k \in 1..Len(order[w]) \ Room(w) : Kept(w)[n] = order[w][k]
         /\ IsInjective(order[w]) => IsInjective(Kept(w))
<1> DEFINE s == order[w]
<1>1. s \in Seq(Attempts) /\ DOMAIN s = 1..Len(s) /\ Len(s) \in Nat
  BY DEF Typed, TypeOK
<1>2. Room(w) \subseteq 1..Len(s)
  BY <1>1 DEF Room, Evictable, Idle
<1>3. Victims(w) \subseteq Attempts
  BY <1>1, <1>2 DEF Victims
<1>4. CASE Room(w) = {}
  BY <1>1, <1>2, <1>3, <1>4 DEF Kept
<1>5. CASE Room(w) # {}
  <2> DEFINE k == CHOOSE j \in Room(w) : TRUE
             t == SubSeq(s, k + 1, Len(s)) \o SubSeq(s, 1, k - 1)
  <2>1. k \in Room(w) /\ k \in 1..Len(s)
    BY <1>2, <1>5
  <2>2. Room(w) = {k}
    <3>1. \A i, j \in Room(w) : i <= j /\ j <= i
      BY DEF Room, Evictable
    <3>. QED BY <2>1, <3>1, <1>2
  <2>3. Kept(w) = t
    BY <1>5 DEF Kept
  <2> HIDE DEF k
  <2>4. /\ t \in Seq(Attempts) /\ Len(t) = Len(s) - 1
        /\ \A n \in 1..(Len(s) - 1) :
             t[n] = s[IF n <= Len(s) - k THEN n + k ELSE n - (Len(s) - k)]
    BY <2>1, <1>1, Rotated
  <2> HIDE DEF t, s
  <2>a. PICK L \in Nat : L = Len(s)
    BY <1>1
  <2>b. k \in 1..L /\ Len(t) = L - 1
    BY <1>1, <2>1, <2>4, <2>a
  <2>c. \A n \in 1..(L - 1) : t[n] = s[IF n <= L - k THEN n + k ELSE n - (L - k)]
    BY <2>4, <2>a
  <2>d. \A n \in 1..(L - 1) :
          /\ (IF n <= L - k THEN n + k ELSE n - (L - k)) \in 1..L
          /\ (IF n <= L - k THEN n + k ELSE n - (L - k)) # k
    BY <2>b
  <2>5. \A n \in 1..Len(t) : \E j \in 1..Len(s) \ {k} : t[n] = s[j]
    <3> SUFFICES ASSUME NEW n \in 1..(L - 1) PROVE \E j \in 1..L : j # k /\ t[n] = s[j]
      BY <2>a, <2>b
    <3>1. PICK j : j = IF n <= L - k THEN n + k ELSE n - (L - k)
      OBVIOUS
    <3>. QED BY <3>1, <2>c, <2>d
  <2>6. ASSUME IsInjective(s) PROVE IsInjective(t)
    <3> SUFFICES ASSUME NEW i \in 1..(L - 1), NEW j \in 1..(L - 1), t[i] = t[j] PROVE i = j
      BY <2>4, <2>b DEF IsInjective
    <3>1. PICK x : x = IF i <= L - k THEN i + k ELSE i - (L - k)
      OBVIOUS
    <3>2. PICK y : y = IF j <= L - k THEN j + k ELSE j - (L - k)
      OBVIOUS
    <3>3. x \in 1..L /\ y \in 1..L /\ s[x] = s[y]
      BY <2>c, <2>d, <3>1, <3>2
    <3>4. x = y
      BY <1>1, <2>6, <2>a, <3>3 DEF IsInjective
    <3>. QED BY <2>b, <3>1, <3>2, <3>4
  <2>. QED BY <2>2, <2>3, <2>4, <2>5, <2>6, <1>1, <1>2, <1>3 DEF s
<1>. QED BY <1>4, <1>5

(* The types of frames.                                                     *)
LEMMA OrderTypes ==
  ASSUME NEW m \in Orders
  PROVE  /\ m.type \in {"dispatch", "cancel", "reconcile"}
         /\ m.type \in {"dispatch", "cancel"} => m.attempt \in Attempts
         /\ m.type = "reconcile" => m.id \in Nat \X Workers /\ m.fences \subseteq Attempts
  BY DEF Orders

LEMMA FrameTypes ==
  ASSUME NEW m \in Frames
  PROVE  /\ m.type \in {"hello", "ack", "evidence", "cancel_ack", "answer"}
         /\ m.type \in {"ack", "evidence", "cancel_ack"} => m.attempt \in Attempts
         /\ m.type = "ack" => m.outcome \in {"accepted", "duplicate", "throttled"}
         /\ m.type = "evidence" => m.outcome \in Outcomes
         /\ m.type = "cancel_ack" => m.stopped \in BOOLEAN
         /\ m.type = "answer" => /\ DOMAIN m.entries \subseteq Attempts
                                 /\ m.entries \in [DOMAIN m.entries -> Dispositions]
  BY DEF Frames

LEMMA FramesMade ==
  /\ [type |-> "hello"] \in Frames
  /\ \A a \in Attempts :
       /\ \A o \in {"accepted", "duplicate", "throttled"} : DispatchAck(a, o) \in Frames
       /\ \A o \in Outcomes : Evidence(a, o) \in Frames
       /\ \A b \in BOOLEAN : CancelAck(a, b) \in Frames
       /\ [type |-> "dispatch", attempt |-> a] \in Orders
       /\ [type |-> "cancel", attempt |-> a] \in Orders
  /\ \A id \in Nat \X Workers, fences \in SUBSET Attempts :
       /\ [type |-> "reconcile", id |-> id, fences |-> fences] \in Orders
       /\ \A entries \in [fences -> Dispositions] :
            [type |-> "answer", id |-> id, entries |-> entries] \in Frames
  BY DEF Frames, Orders, DispatchAck, Evidence, CancelAck

(* What a reaction of a worker sends, if there is somebody to send it to.   *)
Sent(w, more) ==
  /\ toController' \in [Workers -> Seq(Frames)]
  /\ \A v \in Workers \ {w} : toController'[v] = toController[v]
  /\ IF Attached(w) THEN Pushed(toController'[w], toController[w], more)
     ELSE toController'[w] = toController[w]

LEMMA Sends ==
  ASSUME Typed, NEW w \in Workers, NEW x \in Frames, NEW y \in Frames
  PROVE  /\ ToController(w, <<x>>) => Sent(w, <<x>>)
         /\ ToController(w, <<x, y>>) => Sent(w, <<x, y>>)
<1>1. toController \in [Workers -> Seq(Frames)] /\ toController[w] \in Seq(Frames)
  BY DEF Typed
<1>2. \A more \in {<<x>>, <<x, y>>} :
        /\ toController[w] \o more \in Seq(Frames)
        /\ Pushed(toController[w] \o more, toController[w], more)
  <2>1. /\ toController[w] \o <<x>> \in Seq(Frames)
        /\ Pushed(toController[w] \o <<x>>, toController[w], <<x>>)
        /\ toController[w] \o <<x, y>> \in Seq(Frames)
        /\ Pushed(toController[w] \o <<x, y>>, toController[w], <<x, y>>)
    BY <1>1, Push, Zenon
  <2>. QED BY <2>1, Zenon
<1>3. ASSUME NEW more \in {<<x>>, <<x, y>>}, ToController(w, more) PROVE Sent(w, more)
  <2>1. CASE Attached(w)
    <3>1. toController' = [toController EXCEPT ![w] = toController[w] \o more]
      BY <2>1, <1>3, Zenon DEF ToController
    <3> DEFINE q == toController[w] \o more
    <3>2. q \in Seq(Frames) /\ Pushed(q, toController[w], more)
      BY <1>2
    <3> HIDE DEF q
    <3>3. /\ toController' \in [Workers -> Seq(Frames)] /\ toController'[w] = q
          /\ \A v \in Workers \ {w} : toController'[v] = toController[v]
      BY <3>1, <3>2, <1>1 DEF q
    <3>. QED BY <3>2, <3>3, <2>1 DEF Sent
  <2>2. CASE ~Attached(w)
    <3>1. toController' = toController
      BY <2>2, <1>3, Zenon DEF ToController
    <3>. QED BY <3>1, <1>1, <2>2 DEF Sent
  <2>. QED BY <2>1, <2>2
<1>. QED BY <1>3

Stops(m, a) == m.type = "cancel" /\ m.attempt = a

(* What a worker does with the first frame of its queue.                    *)
LEMMA Reaction ==
  ASSUME Typed, NEW w \in Workers, WorkerHandlesFrame(w)
  PROVE  /\ life[w] = "connected" /\ 1 \in DOMAIN toWorker[w] /\ toWorker[w][1] \in Orders
         /\ toWorker' \in [Workers -> Seq(Orders)]
         /\ Popped(toWorker'[w], toWorker[w])
         /\ \A v \in Workers \ {w} : toWorker'[v] = toWorker[v]
         /\ UNCHANGED <<adapterVars, life, completions, performed, askVars>>
         /\ LET m == toWorker[w][1]
            IN  \/ \E a \in Attempts : Starts(m, a) /\ Knows(w, a) /\ Duplicate(w, a)
                \/ \E a \in Attempts : Starts(m, a) /\ ~Knows(w, a) /\ Throttle(w, a)
                \/ \E a \in Attempts : Starts(m, a) /\ ~Knows(w, a) /\ Accept(w, a)
                \/ \E a \in Attempts : Stops(m, a) /\ HandleCancel(w, a)
                \/ m.type = "reconcile" /\ HandleReconcile(w, m)
<1>1. toWorker \in [Workers -> Seq(Orders)] /\ toWorker[w] \in Seq(Orders) /\ toWorker[w] # <<>>
  BY DEF Typed, WorkerHandlesFrame
<1>2. /\ Tail(toWorker[w]) \in Seq(Orders) /\ Head(toWorker[w]) = toWorker[w][1]
      /\ toWorker[w][1] \in Orders /\ Popped(Tail(toWorker[w]), toWorker[w])
  BY <1>1, Pop, Zenon
<1>3. 1 \in DOMAIN toWorker[w]
  BY <1>1
<1>4. toWorker' = [toWorker EXCEPT ![w] = Tail(toWorker[w])]
  BY DEF WorkerHandlesFrame
<1> DEFINE m == toWorker[w][1]
           a == m.attempt
           q == Tail(toWorker[w])
<1>5. q \in Seq(Orders) /\ Popped(q, toWorker[w])
  BY <1>2
<1>6. toWorker' \in [Workers -> Seq(Orders)] /\ toWorker'[w] = q
      /\ \A v \in Workers \ {w} : toWorker'[v] = toWorker[v]
  <2> HIDE DEF q
  <2>1. toWorker' = [toWorker EXCEPT ![w] = q]
    BY <1>4 DEF q
  <2>. QED BY <2>1, <1>1, <1>5
<1>7. m.type \in {"dispatch", "cancel"} => a \in Attempts
  BY <1>2, OrderTypes
<1>8. \/ m.type = "dispatch" /\ HandleDispatch(w, a)
      \/ m.type = "cancel" /\ HandleCancel(w, a)
      \/ m.type = "reconcile" /\ HandleReconcile(w, m)
  BY <1>2, Zenon DEF WorkerHandlesFrame
<1>9. HandleDispatch(w, a) => \/ Knows(w, a) /\ Duplicate(w, a)
                              \/ ~Knows(w, a) /\ Throttle(w, a)
                              \/ ~Knows(w, a) /\ Accept(w, a)
  BY DEF HandleDispatch
<1>10. life[w] = "connected" /\ UNCHANGED <<adapterVars, life, completions, performed, askVars>>
  BY DEF WorkerHandlesFrame
<1>11. \/ \E b \in Attempts : Starts(m, b) /\ Knows(w, b) /\ Duplicate(w, b)
       \/ \E b \in Attempts : Starts(m, b) /\ ~Knows(w, b) /\ Throttle(w, b)
       \/ \E b \in Attempts : Starts(m, b) /\ ~Knows(w, b) /\ Accept(w, b)
       \/ \E b \in Attempts : Stops(m, b) /\ HandleCancel(w, b)
       \/ m.type = "reconcile" /\ HandleReconcile(w, m)
  <2>1. m.type \in {"dispatch", "cancel"} => \E b \in Attempts : b = a
    BY <1>7
  <2>. QED BY <2>1, <1>8, <1>9 DEF Starts, Stops
<1>. QED BY <1>2, <1>3, <1>5, <1>6, <1>10, <1>11

LEMMA Duplicates ==
  ASSUME Typed, NEW w \in Workers, NEW a \in Attempts, Duplicate(w, a)
  PROVE  /\ UNCHANGED <<effect, order, working, evicted>>
         /\ \E h \in Holders(w, Key[a]) :
              \/ /\ effect[h] \in Finished /\ UNCHANGED deferred
                 /\ Sent(w, <<Evidence(a, effect[h]), DispatchAck(a, "duplicate")>>)
              \/ /\ effect[h] \notin Finished /\ deferred' = [deferred EXCEPT ![h] = a]
                 /\ Sent(w, <<DispatchAck(a, "duplicate")>>)
<1>1. PICK h \in Holders(w, Key[a]) :
        /\ IF effect[h] \in Finished
           THEN /\ ToController(w, <<Evidence(a, effect[h]), DispatchAck(a, "duplicate")>>)
                /\ UNCHANGED deferred
           ELSE /\ ToController(w, <<DispatchAck(a, "duplicate")>>)
                /\ deferred' = [deferred EXCEPT ![h] = a]
        /\ UNCHANGED <<effect, order, working, evicted>>
  BY Zenon DEF Duplicate
<1>2. DispatchAck(a, "duplicate") \in Frames
  BY FramesMade
<1>3. effect[h] \in Finished => Evidence(a, effect[h]) \in Frames
  BY FramesMade DEF Finished, Outcomes
<1>. QED BY <1>1, <1>2, <1>3, Sends, Zenon

LEMMA Throttles ==
  ASSUME Typed, NEW w \in Workers, NEW a \in Attempts, Throttle(w, a)
  PROVE  /\ UNCHANGED <<effect, deferred, order, working, evicted>>
         /\ Sent(w, <<DispatchAck(a, "throttled")>>)
<1>1. DispatchAck(a, "throttled") \in Frames
  BY FramesMade
<1>. QED BY <1>1, Sends, Zenon DEF Throttle

LEMMA Accepts ==
  ASSUME Typed, NEW w \in Workers, NEW a \in Attempts, Accept(w, a)
  PROVE  /\ \A b \in Attempts : effect'[b] = IF b = a THEN "running"
                                           ELSE IF b \in Victims(w) THEN "none" ELSE effect[b]
         /\ \A b \in Attempts : deferred'[b] = IF b \in Victims(w) THEN NoAttempt ELSE deferred[b]
         /\ effect' \in [Attempts -> EffectStates]
         /\ deferred' \in [Attempts -> Attempts \cup {NoAttempt}]
         /\ order' \in [Workers -> Seq(Attempts)]
         /\ Pushed(order'[w], Kept(w), <<a>>) /\ \A v \in Workers \ {w} : order'[v] = order[v]
         /\ working' = working \cup {a} /\ evicted' = evicted \cup (Victims(w) \X {a})
         /\ Sent(w, <<DispatchAck(a, "accepted")>>)
<1>1. DispatchAck(a, "accepted") \in Frames
  BY FramesMade
<1>2. Sent(w, <<DispatchAck(a, "accepted")>>)
  BY <1>1, Sends, Zenon DEF Accept
<1>3. effect \in [Attempts -> EffectStates] /\ deferred \in [Attempts -> Attempts \cup {NoAttempt}]
      /\ order \in [Workers -> Seq(Attempts)]
  BY DEF Typed, TypeOK
<1>4. Kept(w) \in Seq(Attempts)
  BY KeptEntries
<1> DEFINE q == Append(Kept(w), a)
<1>5. q \in Seq(Attempts) /\ Pushed(q, Kept(w), <<a>>)
  BY <1>4, Push
<1> HIDE DEF q
<1>6. order' = [order EXCEPT ![w] = q]
  BY DEF Accept, q
<1>7. order' \in [Workers -> Seq(Attempts)] /\ order'[w] = q
      /\ \A v \in Workers \ {w} : order'[v] = order[v]
  BY <1>3, <1>5, <1>6
<1>8. effect' = [b \in Attempts |-> IF b = a THEN "running" ELSE IF b \in Victims(w) THEN "none"
                                    ELSE effect[b]]
  BY DEF Accept
<1>9. deferred' = [b \in Attempts |-> IF b \in Victims(w) THEN NoAttempt ELSE deferred[b]]
  BY DEF Accept
<1>10. effect' \in [Attempts -> EffectStates]
  BY <1>3, <1>8 DEF EffectStates
<1>11. deferred' \in [Attempts -> Attempts \cup {NoAttempt}]
  BY <1>3, <1>9
<1>12. working' = working \cup {a} /\ evicted' = evicted \cup (Victims(w) \X {a})
  BY DEF Accept
<1>. QED BY <1>2, <1>5, <1>7, <1>8, <1>9, <1>10, <1>11, <1>12

LEMMA Cancels ==
  ASSUME Typed, NEW w \in Workers, NEW a \in Attempts, HandleCancel(w, a)
  PROVE  /\ UNCHANGED <<deferred, order, working, evicted>>
         /\ \/ effect[a] = "none" /\ UNCHANGED effect /\ Sent(w, <<CancelAck(a, FALSE)>>)
            \/ /\ effect[a] \in Running /\ effect' = [effect EXCEPT ![a] = "stopping"]
               /\ Sent(w, <<Evidence(a, "stopped"), CancelAck(a, TRUE)>>)
            \/ /\ effect[a] \notin Running \cup {"none"} /\ UNCHANGED effect
               /\ Sent(w, <<Evidence(a, "stopped"), CancelAck(a, FALSE)>>)
<1>1. CancelAck(a, FALSE) \in Frames /\ CancelAck(a, TRUE) \in Frames /\ Evidence(a, "stopped") \in Frames
  BY FramesMade DEF Outcomes
<1>2. CASE effect[a] = "none"
  <2>1. ToController(w, <<CancelAck(a, FALSE)>>) /\ UNCHANGED <<effect, deferred, order, working, evicted>>
    BY <1>2 DEF HandleCancel, Running
  <2>. QED BY <2>1, <1>2, <1>1, Sends, Zenon
<1>3. CASE effect[a] \in Running
  <2>1. /\ ToController(w, <<Evidence(a, "stopped"), CancelAck(a, TRUE)>>)
        /\ effect' = [effect EXCEPT ![a] = "stopping"] /\ UNCHANGED <<deferred, order, working, evicted>>
    BY <1>3 DEF HandleCancel, Running
  <2>. QED BY <2>1, <1>3, <1>1, Sends, Zenon
<1>4. CASE effect[a] \notin Running \cup {"none"}
  <2>1. /\ ToController(w, <<Evidence(a, "stopped"), CancelAck(a, FALSE)>>)
        /\ UNCHANGED <<effect, deferred, order, working, evicted>>
    BY <1>4 DEF HandleCancel, Running
  <2>. QED BY <2>1, <1>4, <1>1, Sends, Zenon
<1>. QED BY <1>2, <1>3, <1>4

AnswerTo(m) == [type |-> "answer", id |-> m.id,
            entries |-> [a \in m.fences |-> Disposition(effect[a])]]

LEMMA Answers ==
  ASSUME Typed, NEW w \in Workers, NEW m \in Orders, m.type = "reconcile", HandleReconcile(w, m)
  PROVE  /\ UNCHANGED <<effect, deferred, order, working, evicted>>
         /\ AnswerTo(m) \in Frames /\ Sent(w, <<AnswerTo(m)>>)
<1>1. m.id \in Nat \X Workers /\ m.fences \in SUBSET Attempts
  BY OrderTypes
<1>2. [a \in m.fences |-> Disposition(effect[a])] \in [m.fences -> Dispositions]
  <2>1. \A s \in EffectStates : Disposition(s) \in Dispositions
    BY DEF EffectStates, Disposition, Dispositions, Running, Finished
  <2>. QED BY <2>1, <1>1 DEF Typed, TypeOK
<1>3. AnswerTo(m) \in Frames
  BY <1>1, <1>2, FramesMade, Zenon DEF AnswerTo
<1>4. ToController(w, <<AnswerTo(m)>>) /\ UNCHANGED <<effect, deferred, order, working, evicted>>
  BY Zenon DEF HandleReconcile, AnswerTo
<1>. QED BY <1>3, <1>4, Sends, Zenon

(* A finished thread's result is taken up by its worker.                    *)
LEMMA Drains ==
  ASSUME Typed, NEW w \in Workers, DrainCompletion(w)
  PROVE  LET c == completions[w][1]
             a == c.attempt
         IN  /\ life[w] = "connected" /\ 1 \in DOMAIN completions[w]
             /\ c \in Completions
             /\ completions' \in [Workers -> Seq(Completions)]
             /\ Popped(completions'[w], completions[w])
             /\ \A v \in Workers \ {w} : completions'[v] = completions[v]
             /\ UNCHANGED <<adapterVars, toWorker, life, order, working, performed, evicted, askVars>>
             /\ \/ /\ Publishes(a, c.how) /\ effect' = [effect EXCEPT ![a] = c.how]
                   /\ deferred' = [deferred EXCEPT ![a] = NoAttempt]
                   /\ \/ deferred[a] = NoAttempt /\ Sent(w, <<Evidence(a, c.how)>>)
                      \/ /\ deferred[a] \in Attempts
                         /\ Sent(w, <<Evidence(a, c.how), Evidence(deferred[a], c.how)>>)
                \/ /\ ~Publishes(a, c.how) /\ effect' = [effect EXCEPT ![a] = "stopped"]
                   /\ UNCHANGED <<toController, deferred>>
<1> DEFINE c == completions[w][1]
           a == c.attempt
           q == Tail(completions[w])
<1>1. completions \in [Workers -> Seq(Completions)] /\ completions[w] \in Seq(Completions)
      /\ completions[w] # <<>>
  BY DEF Typed, DrainCompletion
<1>2. q \in Seq(Completions) /\ Head(completions[w]) = c
      /\ c \in Completions /\ Popped(q, completions[w])
  BY <1>1, Pop, Zenon
<1>3. 1 \in DOMAIN completions[w]
  BY <1>1
<1>4. a \in Attempts /\ c.how \in Outcomes
  BY <1>2 DEF Completions
<1>5. completions' = [completions EXCEPT ![w] = q]
  BY DEF DrainCompletion
<1>6. /\ life[w] = "connected"
      /\ UNCHANGED <<adapterVars, toWorker, life, order, working, performed, evicted, askVars>>
  BY DEF DrainCompletion
<1> DEFINE asking == IF deferred[a] = NoAttempt THEN <<>> ELSE <<Evidence(deferred[a], c.how)>>
<1>7. IF Publishes(a, c.how)
      THEN /\ effect' = [effect EXCEPT ![a] = c.how]
           /\ ToController(w, <<Evidence(a, c.how)>> \o asking)
           /\ deferred' = [deferred EXCEPT ![a] = NoAttempt]
      ELSE /\ effect' = [effect EXCEPT ![a] = "stopped"]
           /\ UNCHANGED <<toController, deferred>>
  BY <1>2, Zenon DEF DrainCompletion
<1>8. deferred[a] \in Attempts \cup {NoAttempt}
  BY <1>4 DEF Typed, TypeOK
<1>9. Evidence(a, c.how) \in Frames /\ (deferred[a] \in Attempts => Evidence(deferred[a], c.how) \in Frames)
  BY <1>4, FramesMade
<1>10. ASSUME ToController(w, <<Evidence(a, c.how)>> \o asking)
       PROVE  \/ deferred[a] = NoAttempt /\ Sent(w, <<Evidence(a, c.how)>>)
              \/ /\ deferred[a] \in Attempts
                 /\ Sent(w, <<Evidence(a, c.how), Evidence(deferred[a], c.how)>>)
  <2> DEFINE x == Evidence(a, c.how)
             y == Evidence(deferred[a], c.how)
  <2> HIDE DEF x, y
  <2>1. CASE deferred[a] = NoAttempt
    <3>1. <<x>> \o asking = <<x>>
      BY <2>1
    <3>. QED BY <3>1, <2>1, <1>9, <1>10, Sends DEF x
  <2>2. CASE deferred[a] # NoAttempt
    <3>1. asking = <<y>>
      BY <2>2, Zenon DEF y
    <3>2. <<x>> \o <<y>> = <<x, y>>
      BY Pair
    <3>3. deferred[a] \in Attempts
      BY <2>2, <1>8
    <3>. QED BY <3>1, <3>2, <3>3, <1>9, <1>10, Sends DEF x, y
  <2>. QED BY <2>1, <2>2
<1>11. completions' \in [Workers -> Seq(Completions)] /\ completions'[w] = q
       /\ \A v \in Workers \ {w} : completions'[v] = completions[v]
  <2> HIDE DEF q
  <2>. QED BY <1>1, <1>2, <1>5
<1> HIDE DEF asking
<1>. QED BY <1>2, <1>3, <1>6, <1>7, <1>10, <1>11, Zenon

(* What the adapter does with the first frame of a connection.              *)
LEMMA Receipt ==
  ASSUME Typed, NEW i \in DOMAIN connections, HandleFrame(i)
  PROVE  LET w == connections[i]
             m == toController[w][1]
         IN  /\ w \in Workers /\ Attached(w) /\ 1 \in DOMAIN toController[w] /\ m \in Frames
             /\ toController' \in [Workers -> Seq(Frames)]
             /\ Popped(toController'[w], toController[w])
             /\ \A v \in Workers \ {w} : toController'[v] = toController[v]
             /\ UNCHANGED <<connections, requests, toWorker, workerVars, carrier, asked>>
             /\ \/ m.type = "hello" /\ HandleHello(i)
                \/ m.type = "ack" /\ m.attempt \in Attempts /\ HandleDispatchAck(i, m)
                \/ m.type = "evidence" /\ m.attempt \in Attempts /\ HandleEvidence(i, m)
                \/ m.type = "cancel_ack" /\ m.attempt \in Attempts /\ HandleCancelAck(i, m)
                \/ m.type = "answer" /\ HandleReconcileResponse(i, m)
<1> DEFINE w == connections[i]
           m == toController[w][1]
           q == Tail(toController[w])
<1>1. w \in Workers /\ Attached(w)
  BY DEF Typed, TypeOK, Attached, ToSet
<1>2. toController \in [Workers -> Seq(Frames)] /\ toController[w] \in Seq(Frames) /\ toController[w] # <<>>
  BY <1>1 DEF Typed, HandleFrame
<1>3. q \in Seq(Frames) /\ Head(toController[w]) = m /\ m \in Frames /\ Popped(q, toController[w])
  BY <1>2, Pop, Zenon
<1>4. 1 \in DOMAIN toController[w]
  BY <1>2
<1>5. toController' = [toController EXCEPT ![w] = q]
  BY DEF HandleFrame
<1>6. toController' \in [Workers -> Seq(Frames)] /\ toController'[w] = q
      /\ \A v \in Workers \ {w} : toController'[v] = toController[v]
  <2> HIDE DEF q, w
  <2>. QED BY <1>1, <1>2, <1>3, <1>5
<1>7. \/ m.type = "hello" /\ HandleHello(i)
      \/ m.type = "ack" /\ HandleDispatchAck(i, m)
      \/ m.type = "evidence" /\ HandleEvidence(i, m)
      \/ m.type = "cancel_ack" /\ HandleCancelAck(i, m)
      \/ m.type = "answer" /\ HandleReconcileResponse(i, m)
  BY <1>3, Zenon DEF HandleFrame
<1>8. m.type \in {"ack", "evidence", "cancel_ack"} => m.attempt \in Attempts
  BY <1>3, FrameTypes
<1>9. UNCHANGED <<connections, requests, toWorker, workerVars, carrier, asked>>
  BY DEF HandleFrame
<1>. QED BY <1>1, <1>3, <1>4, <1>6, <1>7, <1>8, <1>9

(* An attempt is forgotten by the connection that carried it, or nothing    *)
(* changes.                                                                 *)
LEMMA Forgets ==
  ASSUME Typed, NEW a \in Attempts, NEW i \in DOMAIN connections, Forget(a, i)
  PROVE  /\ route' \in [Attempts -> Nat] /\ inFlight' \in [Workers -> Nat]
         /\ \A b \in Attempts \ {a} : route'[b] = route[b]
         /\ \/ UNCHANGED <<route, inFlight>>
            \/ /\ route[a] = i /\ route'[a] = 0
               /\ \A v \in Workers : inFlight'[v] =
                    IF v # connections[i] THEN inFlight[v]
                    ELSE IF inFlight[v] > 0 THEN inFlight[v] - 1 ELSE 0
<1> DEFINE w == connections[i]
           n == IF inFlight[w] > 0 THEN inFlight[w] - 1 ELSE 0
<1>1. /\ w \in Workers /\ route \in [Attempts -> Nat] /\ inFlight \in [Workers -> Nat]
      /\ n \in Nat
  <2>1. w \in Workers /\ route \in [Attempts -> Nat] /\ inFlight \in [Workers -> Nat]
    BY ConnectionTypes
  <2>2. inFlight[w] \in Nat
    BY <2>1
  <2>. QED BY <2>1, <2>2
<1>2. CASE route[a] = i
  <2>1. route' = [route EXCEPT ![a] = 0] /\ inFlight' = [inFlight EXCEPT ![w] = n]
    BY <1>2 DEF Forget
  <2>2. route' \in [Attempts -> Nat] /\ route'[a] = 0 /\ \A b \in Attempts \ {a} : route'[b] = route[b]
    BY <2>1, <1>1
  <2> HIDE DEF w, n
  <2>3. inFlight' \in [Workers -> Nat] /\ inFlight'[w] = n /\ \A v \in Workers \ {w} : inFlight'[v] = inFlight[v]
    BY <2>1, <1>1
  <2>. QED BY <2>2, <2>3, <1>2 DEF w, n
<1>3. CASE route[a] # i
  BY <1>3, <1>1, Zenon DEF Forget
<1>. QED BY <1>2, <1>3

LEMMA InitPlane == Init => PlaneInv
<1> SUFFICES ASSUME Init PROVE PlaneInv
  OBVIOUS
<1> USE DEF Init
<1>1. \A a \in Attempts : carrier[a] = NoWorker /\ effect[a] = "none" /\ deferred[a] = NoAttempt
                         /\ route[a] = 0
  OBVIOUS
<1>2. \A w \in Workers : /\ DOMAIN toWorker[w] = {} /\ DOMAIN toController[w] = {}
                         /\ DOMAIN completions[w] = {} /\ DOMAIN order[w] = {}
                         /\ toController[w] = <<>>
  OBVIOUS
<1>3. DOMAIN connections = {} /\ \A w \in Workers : ~Attached(w)
  BY DEF Attached, ToSet
<1>4. Typed
  <2>1. TypeOK
    BY PlaneAssumption, <1>3 DEF TypeOK, EffectStates, IsInjective
  <2>. QED BY <2>1, FS_EmptySet DEF Typed
<1>5. Wires
  <2>1. \A w \in Workers : Carried(w) = {}
    BY <1>1 DEF Carried
  <2>. QED BY <2>1, <1>1, <1>2, <1>3, FS_EmptySet DEF Wires, Wired, RoutesLeadToTheCarrier
<1>6. Issued = {}
  BY <1>1 DEF Issued
<1>7. Addressed
  BY <1>1, <1>2, <1>6 DEF Addressed, IsInjective
<1>8. Fresh
  <2>1. \A a \in Attempts : Untouched(a)
    BY <1>1, <1>2, PlaneAssumption DEF Untouched, Silent, Unheard
  <2>. QED BY <2>1, <1>2 DEF Fresh
<1>9. Routed
  BY <1>1, <1>2, <1>3 DEF Routed, Waiting
<1>10. Deferred
  BY <1>1 DEF Deferred
<1>11. Worked
  BY <1>1, <1>2 DEF Worked, Begun
<1>12. Told /\ Answered /\ First
  BY <1>2, <1>6 DEF Told, Answered, First
<1>. QED BY <1>4, <1>5, <1>7, <1>8, <1>9, <1>10, <1>11, <1>12 DEF PlaneInv

(* Types are kept. What the workers react to is typed by where it came from: *)
(* what they hold was issued.                                               *)
LEMMA ReactionIsTyped ==
  ASSUME Typed, Addressed, NEW w \in Workers, WorkerHandlesFrame(w)
  PROVE  Typed'
<1> DEFINE m == toWorker[w][1]
           Goal == /\ toController' \in [Workers -> Seq(Frames)]
                   /\ effect' \in [Attempts -> EffectStates]
                   /\ deferred' \in [Attempts -> Attempts \cup {NoAttempt}]
                   /\ order' \in [Workers -> Seq(Attempts)]
                   /\ working' \subseteq Issued /\ evicted' \subseteq Issued \X Issued
<1>1. /\ toWorker' \in [Workers -> Seq(Orders)] /\ m \in Orders /\ 1 \in DOMAIN toWorker[w]
      /\ UNCHANGED <<adapterVars, life, completions, performed, askVars>>
  BY Reaction, Zenon
<1>2. Issued' = Issued
  BY <1>1 DEF Issued, askVars
<1>3. Typed /\ TypeOK
  BY DEF Typed
<1>4. SUFFICES Goal
  BY <1>1, <1>2, <1>3 DEF Typed, TypeOK, adapterVars, askVars
<1>5. /\ effect \in [Attempts -> EffectStates] /\ order \in [Workers -> Seq(Attempts)]
      /\ deferred \in [Attempts -> Attempts \cup {NoAttempt}]
      /\ working \subseteq Issued /\ evicted \subseteq Issued \X Issued
  BY DEF Typed, TypeOK
<1>6. ASSUME NEW a \in Attempts, Duplicate(w, a) PROVE Goal
  <2>1. /\ UNCHANGED <<effect, order, working, evicted>>
        /\ \E h \in Holders(w, Key[a]) :
             \/ /\ effect[h] \in Finished /\ UNCHANGED deferred
                /\ Sent(w, <<Evidence(a, effect[h]), DispatchAck(a, "duplicate")>>)
             \/ /\ effect[h] \notin Finished /\ deferred' = [deferred EXCEPT ![h] = a]
                /\ Sent(w, <<DispatchAck(a, "duplicate")>>)
    BY <1>6, Duplicates, Zenon
  <2>2. toController' \in [Workers -> Seq(Frames)]
    BY <2>1, Zenon DEF Sent
  <2>3. \E h \in Attempts : deferred' = deferred \/ deferred' = [deferred EXCEPT ![h] = a]
    BY <2>1 DEF Holders
  <2>. QED BY <2>1, <2>2, <2>3, <1>5
<1>7. ASSUME NEW a \in Attempts, Throttle(w, a) PROVE Goal
  <2>1. /\ UNCHANGED <<effect, deferred, order, working, evicted>>
        /\ Sent(w, <<DispatchAck(a, "throttled")>>)
    BY <1>7, Throttles, Zenon
  <2>. QED BY <2>1, <1>5 DEF Sent
<1>8. ASSUME NEW a \in Attempts, Starts(m, a), Accept(w, a) PROVE Goal
  <2>1. /\ effect' \in [Attempts -> EffectStates]
        /\ deferred' \in [Attempts -> Attempts \cup {NoAttempt}]
        /\ order' \in [Workers -> Seq(Attempts)]
        /\ working' = working \cup {a} /\ evicted' = evicted \cup (Victims(w) \X {a})
        /\ Sent(w, <<DispatchAck(a, "accepted")>>)
    BY <1>8, Accepts, Zenon
  <2>2. carrier[a] = w
    BY <1>1, <1>8 DEF Addressed, Ours, Starts
  <2>3. a \in Issued
    BY <2>2, <1>8, PlaneAssumption DEF Issued
  <2>4. Victims(w) \subseteq Issued
    <3>1. \A n \in DOMAIN order[w] : order[w][n] \in Attempts /\ carrier[order[w][n]] = w
      BY <1>5 DEF Addressed
    <3>2. Room(w) \subseteq DOMAIN order[w]
      BY <1>5, KeptEntries
    <3>. QED BY <3>1, <3>2, PlaneAssumption DEF Victims, Issued
  <2>. QED BY <2>1, <2>3, <2>4, <1>5 DEF Sent
<1>9. ASSUME NEW a \in Attempts, HandleCancel(w, a) PROVE Goal
  <2>1. /\ UNCHANGED <<deferred, order, working, evicted>>
        /\ \/ effect[a] = "none" /\ UNCHANGED effect /\ Sent(w, <<CancelAck(a, FALSE)>>)
           \/ /\ effect[a] \in Running /\ effect' = [effect EXCEPT ![a] = "stopping"]
              /\ Sent(w, <<Evidence(a, "stopped"), CancelAck(a, TRUE)>>)
           \/ /\ effect[a] \notin Running \cup {"none"} /\ UNCHANGED effect
              /\ Sent(w, <<Evidence(a, "stopped"), CancelAck(a, FALSE)>>)
    BY <1>9, Cancels, Zenon
  <2>2. effect' \in [Attempts -> EffectStates]
    BY <2>1, <1>5 DEF EffectStates
  <2>3. toController' \in [Workers -> Seq(Frames)]
    BY <2>1, Zenon DEF Sent
  <2>. QED BY <2>1, <2>2, <2>3, <1>5
<1>10. ASSUME m.type = "reconcile", HandleReconcile(w, m) PROVE Goal
  <2>1. UNCHANGED <<effect, deferred, order, working, evicted>> /\ Sent(w, <<AnswerTo(m)>>)
    BY <1>1, <1>10, Answers, Zenon
  <2>. QED BY <2>1, <1>5 DEF Sent
<1> HIDE DEF Goal
<1>. QED BY <1>6, <1>7, <1>8, <1>9, <1>10, Reaction, Zenon

LEMMA ReceiptIsTyped ==
  ASSUME Typed, NEW i \in DOMAIN connections, HandleFrame(i)
  PROVE  Typed'
<1> DEFINE w == connections[i]
           m == toController[w][1]
           Goal == /\ helloed' \in [Workers -> BOOLEAN] /\ inFlight' \in [Workers -> Nat]
                   /\ route' \in [Attempts -> Nat]
                   /\ reported' \subseteq [attempt : Attempts, outcome : Outcomes]
                   /\ answered' \subseteq [attempt : Attempts, is : Dispositions]
<1>1. /\ w \in Workers /\ m \in Frames /\ toController' \in [Workers -> Seq(Frames)]
      /\ UNCHANGED <<connections, requests, toWorker, workerVars, carrier, asked>>
  BY Receipt, Zenon
<1>2. Issued' = Issued
  BY <1>1 DEF Issued
<1>3. /\ helloed \in [Workers -> BOOLEAN] /\ inFlight \in [Workers -> Nat]
      /\ route \in [Attempts -> Nat] /\ reported \subseteq [attempt : Attempts, outcome : Outcomes]
      /\ answered \subseteq [attempt : Attempts, is : Dispositions]
  BY DEF Typed, TypeOK
<1>4. SUFFICES Goal
  <2>1. Typed /\ TypeOK
    BY DEF Typed
  <2>. QED BY <1>1, <1>2, <2>1 DEF Typed, TypeOK, workerVars
<1>5. CASE HandleHello(i)
  BY <1>5, <1>1, <1>3 DEF HandleHello
<1>6. CASE m.attempt \in Attempts /\ HandleDispatchAck(i, m)
  BY <1>6, <1>3, Forgets DEF HandleDispatchAck
<1>7. CASE m.type = "evidence" /\ m.attempt \in Attempts /\ HandleEvidence(i, m)
  <2>1. route' \in [Attempts -> Nat] /\ inFlight' \in [Workers -> Nat]
        /\ reported' = reported \cup {ReportOf(m.attempt, m.outcome)}
        /\ UNCHANGED <<helloed, pending, answered>>
    BY <1>7, Forgets DEF HandleEvidence
  <2>2. m.outcome \in Outcomes
    BY <1>1, <1>7, FrameTypes
  <2>3. ReportOf(m.attempt, m.outcome) \in [attempt : Attempts, outcome : Outcomes]
    BY <2>2, <1>7 DEF ReportOf
  <2>. QED BY <2>1, <2>3, <1>3
<1>8. CASE m.attempt \in Attempts /\ HandleCancelAck(i, m)
  BY <1>8, <1>3, Forgets DEF HandleCancelAck
<1>9. CASE m.type = "answer" /\ HandleReconcileResponse(i, m)
  <2>1. UNCHANGED <<helloed, route, inFlight>>
    BY <1>9 DEF HandleReconcileResponse
  <2>2. DOMAIN m.entries \subseteq Attempts /\ m.entries \in [DOMAIN m.entries -> Dispositions]
    BY <1>1, <1>9, FrameTypes
  <2>3. \A a \in DOMAIN m.entries : m.entries[a] \in Finished =>
          ReportOf(a, m.entries[a]) \in [attempt : Attempts, outcome : Outcomes]
    BY <2>2 DEF ReportOf, Finished, Outcomes
  <2>4. \A a \in DOMAIN m.entries :
          [attempt |-> a, is |-> m.entries[a]] \in [attempt : Attempts, is : Dispositions]
    BY <2>2
  <2>5. /\ reported' \subseteq reported \cup
             {ReportOf(a, m.entries[a]) : a \in {b \in DOMAIN m.entries : m.entries[b] \in Finished}}
        /\ answered' \subseteq answered \cup
             {[attempt |-> a, is |-> m.entries[a]] : a \in DOMAIN m.entries}
    BY <1>9 DEF HandleReconcileResponse
  <2>6. reported' \subseteq [attempt : Attempts, outcome : Outcomes]
    BY <2>3, <2>5, <1>3
  <2>7. answered' \subseteq [attempt : Attempts, is : Dispositions]
    BY <2>4, <2>5, <1>3
  <2>. QED BY <2>1, <2>6, <2>7, <1>3
<1> HIDE DEF Goal
<1>. QED BY <1>5, <1>6, <1>7, <1>8, <1>9, Receipt, Zenon

(* A drop takes its connection out of the sequence.                         *)
LEMMA DropShortens ==
  ASSUME NEW i, Drop(i)
  PROVE  connections' = RemoveAt(connections, i)
<1>. QED BY Zenon DEF Drop

(* A dropped connection leaves the others, in their order.                  *)
LEMMA Drops ==
  ASSUME Typed, NEW i \in DOMAIN connections, Drop(i)
  PROVE  LET w == connections[i]
         IN  /\ w \in Workers
             /\ connections' \in Seq(Workers) /\ IsInjective(connections')
             /\ \A v \in Workers : Attached(v)' <=> Attached(v) /\ v # w
             /\ \A k \in DOMAIN connections \ {i} :
                  /\ Reindexed(k, i) \in DOMAIN connections' \ {0}
                  /\ connections'[Reindexed(k, i)] = connections[k]
<1>0. PICK t : t = RemoveAt(connections, i)
  OBVIOUS
<1> DEFINE w == connections[i]
           s == connections
<1>1. s \in Seq(Workers) /\ IsInjective(s) /\ DOMAIN s = 1..Len(s) /\ Len(s) \in Nat /\ w \in Workers
      /\ i \in 1..Len(s)
  BY ConnectionTypes
<1>2. connections' = t
  BY <1>0, DropShortens, Zenon
<1>3. /\ t \in Seq(Workers) /\ Len(t) = Len(s) - 1
      /\ \A n \in 1..(Len(s) - 1) : t[n] = s[IF n < i THEN n ELSE n + 1]
  BY <1>0, <1>1, Removed
<1>4. DOMAIN t = 1..(Len(s) - 1)
  BY <1>3, <1>1
<1>5. IsInjective(t)
  <2> SUFFICES ASSUME NEW m \in DOMAIN t, NEW n \in DOMAIN t, t[m] = t[n] PROVE m = n
    BY Zenon DEF IsInjective
  <2> HIDE DEF s
  <2>0. m \in 1..(Len(s) - 1) /\ n \in 1..(Len(s) - 1)
    BY <1>4
  <2> DEFINE f(k) == IF k < i THEN k ELSE k + 1
  <2>1. PICK L \in Nat : L = Len(s)
    BY <1>1
  <2>2. t[m] = s[f(m)] /\ t[n] = s[f(n)]
    BY <2>0, <1>3
  <2>3. m \in 1..(L - 1) /\ n \in 1..(L - 1) /\ i \in 1..L
    BY <2>0, <2>1, <1>1
  <2>4. f(m) \in 1..L /\ f(n) \in 1..L /\ (f(m) = f(n) => m = n)
    BY <2>3
  <2> HIDE DEF f
  <2>5. f(m) \in DOMAIN s /\ f(n) \in DOMAIN s /\ s[f(m)] = s[f(n)]
    BY <1>1, <2>1, <2>2, <2>4
  <2>6. f(m) = f(n)
    BY <1>1, <2>5 DEF IsInjective
  <2>. QED BY <2>6, <2>4
<1>6. ASSUME NEW k \in DOMAIN s \ {i}
      PROVE  Reindexed(k, i) \in DOMAIN t \ {0} /\ t[Reindexed(k, i)] = s[k]
  BY <1>1, <1>3, <1>4 DEF Reindexed
<1>7. ASSUME NEW v \in Workers PROVE Attached(v)' <=> Attached(v) /\ v # w
  <2>1. ASSUME Attached(v)' PROVE Attached(v) /\ v # w
    <3>1. PICK n \in 1..(Len(s) - 1) : v = t[n]
      BY <2>1, <1>2, <1>4 DEF Attached, ToSet
    <3> DEFINE k == IF n < i THEN n ELSE n + 1
    <3>2. k \in 1..Len(s) /\ k # i /\ v = s[k]
      BY <3>1, <1>3, <1>1
    <3>. QED BY <3>2, <1>1 DEF Attached, ToSet, IsInjective
  <2>2. ASSUME Attached(v), v # w PROVE Attached(v)'
    <3>1. PICK k \in DOMAIN s : v = s[k]
      BY <2>2 DEF Attached, ToSet
    <3>2. k # i
      BY <3>1, <2>2
    <3>. QED BY <3>1, <3>2, <1>6, <1>2 DEF Attached, ToSet
  <2>. QED BY <2>1, <2>2
<1>. QED BY <1>1, <1>2, <1>3, <1>5, <1>6, <1>7

LEMMA TypesAreKept ==
  ASSUME Typed, Wires, Addressed, Next
  PROVE  Typed'
<1>1. Typed /\ TypeOK
  BY DEF Typed
<1>2. ASSUME NEW a \in Attempts, Dispatch(a) PROVE Typed'
  <2>1. PICK i \in DOMAIN connections :
          LET w == connections[i]
          IN  /\ inFlight' = [inFlight EXCEPT ![w] = @ + 1]
              /\ route' = [route EXCEPT ![a] = i]
              /\ carrier' = [carrier EXCEPT ![a] = w]
              /\ toWorker' = [toWorker EXCEPT ![w] =
                                Append(@, [type |-> "dispatch", attempt |-> a])]
    BY <1>2, Zenon DEF Dispatch, TakeSlot
  <2> DEFINE w == connections[i]
             q == Append(toWorker[w], [type |-> "dispatch", attempt |-> a])
             n == inFlight[w] + 1
  <2>2. w \in Workers /\ i \in Nat
    BY <1>1, ConnectionTypes
  <2>3. /\ connections \in Seq(Workers) /\ inFlight \in [Workers -> Nat]
        /\ route \in [Attempts -> Nat] /\ carrier \in [Attempts -> Workers \cup {NoWorker}]
        /\ toWorker \in [Workers -> Seq(Orders)]
    BY <1>1 DEF Typed, TypeOK
  <2>4. q \in Seq(Orders)
    <3>1. toWorker[w] \in Seq(Orders) /\ [type |-> "dispatch", attempt |-> a] \in Orders
      BY <2>2, <2>3, FramesMade
    <3>. QED BY <3>1, Push
  <2>5. n \in Nat
    BY <2>2, <2>3
  <2> HIDE DEF w, q, n
  <2>6. inFlight' = [inFlight EXCEPT ![w] = n] /\ carrier' = [carrier EXCEPT ![a] = w]
        /\ toWorker' = [toWorker EXCEPT ![w] = q] /\ route' = [route EXCEPT ![a] = i]
    BY <2>1 DEF w, q, n
  <2>7. /\ inFlight' \in [Workers -> Nat] /\ route' \in [Attempts -> Nat]
        /\ carrier' \in [Attempts -> Workers \cup {NoWorker}] /\ toWorker' \in [Workers -> Seq(Orders)]
    <3>1. inFlight' \in [Workers -> Nat]
      BY <2>2, <2>3, <2>5, <2>6
    <3>2. route' \in [Attempts -> Nat]
      BY <2>2, <2>3, <2>6
    <3>3. carrier' \in [Attempts -> Workers \cup {NoWorker}]
      BY <2>2, <2>3, <2>6
    <3>4. toWorker' \in [Workers -> Seq(Orders)]
      BY <2>2, <2>3, <2>4, <2>6
    <3>. QED BY <3>1, <3>2, <3>3, <3>4
  <2>8. Issued \subseteq Issued'
    BY <2>2, <2>3, <2>6, PlaneAssumption DEF Issued
  <2>9. UNCHANGED <<connections, helloed, pending, requests, toController, workerVars,
                    asked, reported, answered>>
    BY <1>2 DEF Dispatch
  <2>. QED BY <1>1, <2>7, <2>8, <2>9 DEF Typed, TypeOK, workerVars
<1>3. ASSUME NEW a \in Attempts, Cancel(a) PROVE Typed'
  <2> DEFINE w == connections[route[a]]
             q == Append(toWorker[w], [type |-> "cancel", attempt |-> a])
  <2>1. /\ asked' = asked \cup {a} /\ toWorker' = [toWorker EXCEPT ![w] = q] /\ a \in Issued
        /\ UNCHANGED <<adapterVars, toController, workerVars, carrier, reported, answered>>
    BY <1>3 DEF Cancel
  <2>2. toWorker \in [Workers -> Seq(Orders)]
    BY DEF Typed
  <2>3. toWorker' \in [Workers -> Seq(Orders)]
    <3>1. w \in Workers => q \in Seq(Orders)
      <4>1. w \in Workers => toWorker[w] \in Seq(Orders)
        BY <2>2
      <4>2. [type |-> "cancel", attempt |-> a] \in Orders
        BY FramesMade
      <4>. QED BY <4>1, <4>2, Push
    <3> HIDE DEF q, w
    <3>. QED BY <3>1, <2>1, <2>2
  <2>4. IsFiniteSet(asked')
    BY <2>1, FS_AddElement DEF Typed
  <2>5. Issued' = Issued
    BY <2>1 DEF Issued
  <2>. QED BY <1>1, <2>1, <2>3, <2>4, <2>5 DEF Typed, TypeOK, workerVars, adapterVars
<1>4. ASSUME NEW a \in Attempts, EffectEnds(a) PROVE Typed'
  <2>1. PICK how \in Outcomes :
          /\ completions' = [completions EXCEPT ![carrier[a]] =
                               Append(@, [attempt |-> a, how |-> how])]
          /\ performed' = IF how = "completed" THEN performed \cup {a} ELSE performed
    BY <1>4 DEF EffectEnds, Outcomes
  <2> DEFINE w == carrier[a]
             q == Append(completions[w], [attempt |-> a, how |-> how])
  <2>2. a \in working /\ working' = working \ {a}
        /\ UNCHANGED <<adapterVars, toWorker, toController, life, effect, deferred, order,
                       evicted, askVars>>
    BY <1>4 DEF EffectEnds
  <2>3. a \in Issued /\ w \in Workers
    BY <2>2, <1>1 DEF TypeOK, Issued
  <2>4. q \in Seq(Completions)
    <3>1. completions[w] \in Seq(Completions) /\ [attempt |-> a, how |-> how] \in Completions
      BY <2>3, <1>1 DEF Typed, Completions
    <3>. QED BY <3>1, Push
  <2>5. completions' \in [Workers -> Seq(Completions)]
    <3>1. completions \in [Workers -> Seq(Completions)] /\ completions' = [completions EXCEPT ![w] = q]
      BY <2>1 DEF Typed
    <3> HIDE DEF w, q
    <3>. QED BY <3>1, <2>4
  <2>6. performed' \subseteq Issued /\ working' \subseteq Issued /\ Issued' = Issued
    BY <2>1, <2>2, <2>3, <1>1 DEF TypeOK, Issued, askVars
  <2>. QED BY <1>1, <2>2, <2>5, <2>6 DEF Typed, TypeOK, adapterVars, askVars
<1>5. CASE Reconcile
  <2>1. /\ requests' = requests + 1 /\ Cardinality(asked) + requests < MaxCalls
        /\ toWorker' = [w \in Workers |->
             IF AskedOf(w) = {} THEN toWorker[w]
             ELSE Append(toWorker[w],
                         [type |-> "reconcile", id |-> Request(w), fences |-> AskedOf(w)])]
        /\ UNCHANGED <<connections, helloed, inFlight, route, toController, workerVars, askVars>>
    BY <1>5 DEF Reconcile
  <2>2. requests' \in 0..MaxCalls
    <3>1. Cardinality(asked) \in Nat /\ requests \in 0..MaxCalls
      BY <1>1, FS_CardinalityType DEF Typed, TypeOK
    <3>. QED BY <2>1, <3>1, PlaneAssumption
  <2>3. ASSUME NEW w \in Workers
        PROVE  Append(toWorker[w], [type |-> "reconcile", id |-> Request(w), fences |-> AskedOf(w)])
                 \in Seq(Orders)
    <3>1. Request(w) \in Nat \X Workers /\ AskedOf(w) \in SUBSET Attempts
      BY <1>1 DEF Request, AskedOf, Outstanding, Issued, TypeOK
    <3>2. [type |-> "reconcile", id |-> Request(w), fences |-> AskedOf(w)] \in Orders
      BY <3>1, FramesMade, Zenon
    <3>3. toWorker[w] \in Seq(Orders)
      BY <1>1 DEF Typed
    <3>. QED BY <3>2, <3>3, Push
  <2>4. toWorker' \in [Workers -> Seq(Orders)]
    <3>1. toWorker \in [Workers -> Seq(Orders)]
      BY DEF Typed
    <3>. QED BY <2>1, <2>3, <3>1
  <2>5. Issued' = Issued
    BY <2>1 DEF Issued, askVars
  <2>. QED BY <1>1, <2>1, <2>2, <2>4, <2>5 DEF Typed, TypeOK, workerVars, askVars
<1>6. CASE ReconcileReturns
  <2>1. Issued' = Issued
    BY <1>6 DEF ReconcileReturns, askVars, Issued
  <2>. QED BY <1>1, <1>6, <2>1 DEF Typed, TypeOK, ReconcileReturns, workerVars, askVars
<1>7. ASSUME NEW i \in DOMAIN connections, HandleFrame(i) PROVE Typed'
  BY <1>7, ReceiptIsTyped
<1>8. ASSUME NEW i \in DOMAIN connections, Drop(i) PROVE Typed'
  <2> DEFINE w == connections[i]
  <2>1. w \in Workers /\ connections' \in Seq(Workers) /\ IsInjective(connections')
    BY <1>8, Drops, Zenon
  <2>2. \A a \in Attempts : Reindexed(route[a], i) \in Nat
    BY <1>1 DEF TypeOK, Reindexed
  <2>3. /\ route' = [a \in Attempts |-> Reindexed(route[a], i)]
        /\ helloed' = [helloed EXCEPT ![w] = FALSE] /\ inFlight' = [inFlight EXCEPT ![w] = 0]
        /\ toController' = [toController EXCEPT ![w] = <<>>]
        /\ UNCHANGED <<requests, toWorker, workerVars, askVars>>
    BY <1>8 DEF Drop
  <2>4. route' \in [Attempts -> Nat] /\ helloed' \in [Workers -> BOOLEAN]
        /\ inFlight' \in [Workers -> Nat] /\ toController' \in [Workers -> Seq(Frames)]
    <3>1. /\ helloed \in [Workers -> BOOLEAN] /\ inFlight \in [Workers -> Nat]
          /\ toController \in [Workers -> Seq(Frames)] /\ <<>> \in Seq(Frames)
      BY <1>1, ConnectionTypes
    <3> HIDE DEF w
    <3>. QED BY <2>1, <2>2, <2>3, <3>1
  <2>5. Issued' = Issued
    BY <2>3 DEF Issued, askVars
  <2>. QED BY <1>1, <2>1, <2>3, <2>4, <2>5 DEF Typed, TypeOK, workerVars, askVars
<1>9. ASSUME NEW w \in Workers, Attach(w) PROVE Typed'
  <2> DEFINE q == Append(connections, w)
  <2>1. /\ life' = [life EXCEPT ![w] = "connected"] /\ connections' = q /\ life[w] = "unborn"
        /\ toController' = [toController EXCEPT ![w] = <<[type |-> "hello"]>>]
        /\ UNCHANGED <<helloed, inFlight, route, pending, requests, toWorker, effect, deferred,
                       order, working, completions, performed, evicted, askVars>>
    BY <1>9 DEF Attach
  <2>2. /\ connections \in Seq(Workers) /\ IsInjective(connections)
        /\ life \in [Workers -> {"unborn", "connected", "gone"}]
        /\ toController \in [Workers -> Seq(Frames)]
    BY <1>1 DEF Typed, TypeOK
  <2>3. ~Attached(w)
    BY <2>1 DEF Wires, Wired
  <2>4. q \in Seq(Workers) /\ Pushed(q, connections, <<w>>)
    BY <2>2, Push
  <2>5. IsInjective(q)
    <3>1. \A n \in 1..Len(connections) : connections[n] # w
      BY <2>2, <2>3 DEF Attached, ToSet
    <3>2. DOMAIN q = 1..(Len(connections) + 1) /\ q[Len(connections) + 1] = w
          /\ \A n \in 1..Len(connections) : q[n] = connections[n]
      BY <2>2
    <3> HIDE DEF q
    <3>3. PICK L \in Nat : L = Len(connections)
      BY <2>2
    <3>4. \A n, m \in 1..L : connections[n] = connections[m] => n = m
      BY <1>1, <3>3, ConnectionTypes DEF IsInjective
    <3>5. \A n \in 1..(L + 1) : n = L + 1 \/ n \in 1..L
      BY <3>3
    <3>6. ASSUME NEW n \in 1..(L + 1), NEW m \in 1..(L + 1), q[n] = q[m] PROVE n = m
      <4>1. CASE n \in 1..L /\ m \in 1..L
        BY <3>2, <3>3, <3>4, <3>6, <4>1
      <4>2. CASE n = L + 1 /\ m \in 1..L
        BY <3>1, <3>2, <3>3, <3>6, <4>2
      <4>3. CASE m = L + 1 /\ n \in 1..L
        BY <3>1, <3>2, <3>3, <3>6, <4>3
      <4>. QED BY <3>5, <4>1, <4>2, <4>3
    <3>. QED BY <3>2, <3>3, <3>6 DEF IsInjective
  <2>6. toController' \in [Workers -> Seq(Frames)] /\ life' \in [Workers -> {"unborn", "connected", "gone"}]
    <3>1. <<[type |-> "hello"]>> \in Seq(Frames)
      BY FramesMade
    <3>. QED BY <3>1, <2>1, <2>2
  <2>7. Issued' = Issued
    BY <2>1 DEF Issued, askVars
  <2>. QED BY <1>1, <2>1, <2>4, <2>5, <2>6, <2>7 DEF Typed, TypeOK, askVars
<1>10. ASSUME NEW w \in Workers, WorkerDies(w) PROVE Typed'
  <2>1. PICK n \in 0..Len(toController[w]) :
          toController' = [toController EXCEPT ![w] = SubSeq(@, 1, n)]
    BY <1>10 DEF WorkerDies
  <2> DEFINE q == SubSeq(toController[w], 1, n)
  <2>2. /\ life' = [life EXCEPT ![w] = "gone"]
        /\ working' = {a \in working : carrier[a] # w}
        /\ completions' = [completions EXCEPT ![w] = <<>>]
        /\ effect' = [a \in Attempts |-> IF carrier[a] = w THEN "none" ELSE effect[a]]
        /\ deferred' = [a \in Attempts |-> IF carrier[a] = w THEN NoAttempt ELSE deferred[a]]
        /\ order' = [order EXCEPT ![w] = <<>>]
        /\ toWorker' = [toWorker EXCEPT ![w] = <<>>]
        /\ UNCHANGED <<adapterVars, performed, evicted, askVars>>
    BY <1>10 DEF WorkerDies
  <2>3. /\ toController \in [Workers -> Seq(Frames)] /\ toWorker \in [Workers -> Seq(Orders)]
        /\ completions \in [Workers -> Seq(Completions)] /\ order \in [Workers -> Seq(Attempts)]
        /\ effect \in [Attempts -> EffectStates]
        /\ deferred \in [Attempts -> Attempts \cup {NoAttempt}]
        /\ life \in [Workers -> {"unborn", "connected", "gone"}]
    BY <1>1 DEF Typed, TypeOK
  <2>4. q \in Seq(Frames)
    BY <2>3, Cut
  <2>5. toController' \in [Workers -> Seq(Frames)]
    <3>1. toController' = [toController EXCEPT ![w] = q]
      BY <2>1
    <3> HIDE DEF q
    <3>. QED BY <3>1, <2>3, <2>4
  <2>6. /\ toWorker' \in [Workers -> Seq(Orders)] /\ completions' \in [Workers -> Seq(Completions)]
        /\ order' \in [Workers -> Seq(Attempts)]
        /\ life' \in [Workers -> {"unborn", "connected", "gone"}]
    BY <2>2, <2>3
  <2>7. /\ effect' \in [Attempts -> EffectStates]
        /\ deferred' \in [Attempts -> Attempts \cup {NoAttempt}]
    BY <2>2, <2>3 DEF EffectStates
  <2>8. Issued' = Issued /\ working' \subseteq working
    BY <2>2 DEF Issued, askVars
  <2>. QED BY <1>1, <2>2, <2>5, <2>6, <2>7, <2>8 DEF Typed, TypeOK, adapterVars, askVars
<1>11. ASSUME NEW w \in Workers, DrainCompletion(w) PROVE Typed'
  <2> DEFINE c == completions[w][1]
             a == c.attempt
  <2>1. /\ c \in Completions /\ completions' \in [Workers -> Seq(Completions)]
        /\ UNCHANGED <<adapterVars, toWorker, life, order, working, performed, evicted, askVars>>
    BY <1>11, Drains, Zenon
  <2>2. \/ /\ effect' = [effect EXCEPT ![a] = c.how] /\ deferred' = [deferred EXCEPT ![a] = NoAttempt]
           /\ Sent(w, <<Evidence(a, c.how)>>) \/ Sent(w, <<Evidence(a, c.how), Evidence(deferred[a], c.how)>>)
        \/ effect' = [effect EXCEPT ![a] = "stopped"] /\ UNCHANGED <<toController, deferred>>
    BY <1>11, Drains, Zenon
  <2>3. toController' \in [Workers -> Seq(Frames)]
    BY <2>2, <1>1 DEF Typed, Sent
  <2>4. a \in Attempts /\ c.how \in EffectStates
    BY <2>1 DEF Completions, Outcomes, EffectStates
  <2>5. effect' \in [Attempts -> EffectStates] /\ deferred' \in [Attempts -> Attempts \cup {NoAttempt}]
    <3>1. effect \in [Attempts -> EffectStates] /\ deferred \in [Attempts -> Attempts \cup {NoAttempt}]
          /\ "stopped" \in EffectStates
      BY <1>1 DEF Typed, TypeOK, EffectStates
    <3> HIDE DEF a, c
    <3>. QED BY <2>2, <2>4, <3>1
  <2>6. Issued' = Issued
    BY <2>1 DEF Issued, askVars
  <2>. QED BY <1>1, <2>1, <2>3, <2>5, <2>6 DEF Typed, TypeOK, adapterVars, askVars
<1>. QED BY <1>2, <1>3, <1>4, <1>5, <1>6, <1>7, <1>8, <1>9, <1>10, <1>11, ReactionIsTyped DEF Next

(* The adapter's tables.                                                    *)

(* A connection that only loses frames, or gets others than a hello.        *)
LEMMA WiredStays ==
  ASSUME NEW v \in Workers, Typed, Wired(v),
         Attached(v)' <=> Attached(v), helloed'[v] = helloed[v], inFlight'[v] = inFlight[v],
         Carried(v)' = Carried(v), life[v] # "unborn" => life'[v] # "unborn",
         \A n \in DOMAIN toController'[v] :
           \/ toController'[v][n].type # "hello"
           \/ n \in DOMAIN toController[v] /\ toController'[v][n] = toController[v][n],
         ~Attached(v) => toController'[v] = <<>>
  PROVE  Wired(v)'
  BY DEF Wired

LEMMA SentIsWired ==
  ASSUME Typed, Wires, NEW w \in Workers, NEW more \in Seq(Frames), Sent(w, more),
         \A n \in 1..Len(more) : more[n].type # "hello",
         UNCHANGED <<adapterVars, life, carrier>>
  PROVE  Wires'
<1>1. RoutesLeadToTheCarrier'
  BY DEF Wires, RoutesLeadToTheCarrier, adapterVars
<1>2. ASSUME NEW v \in Workers PROVE Wired(v)'
  <2>1. toController \in [Workers -> Seq(Frames)] /\ toController' \in [Workers -> Seq(Frames)]
    BY DEF Typed, Sent
  <2>2. Wired(v)
    BY DEF Wires
  <2>3. Attached(v)' <=> Attached(v)
    BY DEF Attached, adapterVars
  <2>4. Carried(v)' = Carried(v)
    BY DEF Carried, adapterVars
  <2>5. \A n \in DOMAIN toController'[v] :
           \/ toController'[v][n].type # "hello"
           \/ n \in DOMAIN toController[v] /\ toController'[v][n] = toController[v][n]
    <3>1. CASE toController'[v] = toController[v]
      BY <3>1
    <3>2. CASE v = w /\ Pushed(toController'[v], toController[v], more)
      <4> DEFINE p == toController[v]
                 q == toController'[v]
      <4>1. p \in Seq(Frames) /\ q \in Seq(Frames) /\ Pushed(q, p, more)
        BY <2>1, <3>2
      <4> HIDE DEF p, q
      <4>2. ASSUME NEW n \in DOMAIN q, n \notin DOMAIN p PROVE q[n].type # "hello"
        <5>1. n - Len(p) \in 1..Len(more) /\ q[Len(p) + (n - Len(p))] = more[n - Len(p)]
          BY <4>1, <4>2 DEF Pushed
        <5>2. Len(p) + (n - Len(p)) = n
          BY <4>1
        <5>. QED BY <5>1, <5>2
      <4>3. \A n \in DOMAIN p : q[n] = p[n]
        <5>1. DOMAIN p = 1..Len(p)
          BY <4>1
        <5>2. \A n \in 1..Len(p) : q[n] = p[n]
          BY <4>1, Zenon DEF Pushed
        <5>. QED BY <5>1, <5>2
      <4>. QED BY <4>2, <4>3 DEF p, q
    <3>. QED BY <3>1, <3>2 DEF Sent
  <2>6. ~Attached(v) => toController'[v] = <<>>
    BY <2>2 DEF Sent, Wired
  <2>. QED BY <2>2, <2>3, <2>4, <2>5, <2>6, WiredStays DEF adapterVars
<1>. QED BY <1>1, <1>2 DEF Wires

LEMMA WiresUnchanged ==
  ASSUME Wires, UNCHANGED <<connections, helloed, inFlight, route, carrier, life, toController>>
  PROVE  Wires'
<1>1. RoutesLeadToTheCarrier'
  BY DEF Wires, RoutesLeadToTheCarrier
<1>2. ASSUME NEW v \in Workers PROVE Wired(v)'
  <2>1. Wired(v) /\ (Attached(v)' <=> Attached(v)) /\ Carried(v)' = Carried(v)
    BY DEF Wires, Attached, Carried
  <2>. QED BY <2>1 DEF Wired
<1>. QED BY <1>1, <1>2 DEF Wires

LEMMA DispatchIsWired ==
  ASSUME Typed, Wires, NEW a \in Attempts, Dispatch(a)
  PROVE  Wires'
<1>1. PICK i \in DOMAIN connections :
        LET w == connections[i]
        IN  /\ Candidate(i)
            /\ inFlight' = [inFlight EXCEPT ![w] = @ + 1]
            /\ route' = [route EXCEPT ![a] = i]
            /\ carrier' = [carrier EXCEPT ![a] = w]
  BY Zenon DEF Dispatch, TakeSlot
<1>2. carrier[a] = NoWorker /\ UNCHANGED <<connections, helloed, life, toController>>
  BY DEF Dispatch, workerVars
<1>3. /\ connections \in Seq(Workers) /\ inFlight \in [Workers -> Nat] /\ IsInjective(connections)
      /\ route \in [Attempts -> Nat] /\ carrier \in [Attempts -> Workers \cup {NoWorker}]
      /\ DOMAIN connections = 1..Len(connections)
  BY ConnectionTypes
<1>4. PICK w \in Workers : w = connections[i] /\ i \in Nat \ {0}
  BY <1>3
<1>5. route[a] = 0
  BY <1>2, <1>3, PlaneAssumption DEF Wires, RoutesLeadToTheCarrier
<1>6. RoutesLeadToTheCarrier'
  BY <1>1, <1>2, <1>3, <1>4 DEF Wires, RoutesLeadToTheCarrier
<1>7. /\ Carried(w)' = Carried(w) \cup {a} /\ a \notin Carried(w)
      /\ inFlight'[w] = inFlight[w] + 1
  BY <1>1, <1>3, <1>4, <1>5 DEF Carried
<1>8. Attached(w) /\ helloed[w]
  BY <1>1, <1>4 DEF Candidate, Attached, ToSet
<1>9. Wired(w)'
  <2>1. IsFiniteSet(Carried(w)) /\ inFlight[w] = Cardinality(Carried(w)) /\ Wired(w)
    BY <1>4 DEF Wires, Wired
  <2>2. IsFiniteSet(Carried(w)') /\ inFlight'[w] = Cardinality(Carried(w)')
    BY <1>7, <2>1, FS_AddElement
  <2>. QED BY <2>1, <2>2, <1>2, <1>8 DEF Wired, Attached
<1>10. ASSUME NEW v \in Workers \ {w} PROVE Wired(v)'
  <2>1. Carried(v)' = Carried(v) /\ inFlight'[v] = inFlight[v] /\ Wired(v)
    BY <1>1, <1>2, <1>3, <1>4, <1>5 DEF Carried, Wires
  <2>. QED BY <2>1, <1>2 DEF Wired, Attached
<1>. QED BY <1>6, <1>9, <1>10 DEF Wires

LEMMA ReceiptIsWired ==
  ASSUME Typed, Wires, NEW i \in DOMAIN connections, HandleFrame(i)
  PROVE  Wires'
<1>0. PICK w \in Workers : w = connections[i]
  BY DEF Typed, TypeOK
<1> DEFINE m == toController[w][1]
<1>1. /\ Attached(w) /\ 1 \in DOMAIN toController[w]
      /\ toController' \in [Workers -> Seq(Frames)]
      /\ Popped(toController'[w], toController[w])
      /\ \A v \in Workers \ {w} : toController'[v] = toController[v]
      /\ UNCHANGED <<connections, requests, toWorker, workerVars, carrier, asked>>
  BY <1>0, Receipt
<1>2. \/ m.type = "hello" /\ HandleHello(i)
      \/ UNCHANGED <<helloed, route, inFlight>>
      \/ UNCHANGED helloed /\ \E a \in Attempts : Forget(a, i)
  <2>1. ASSUME m.attempt \in Attempts, HandleDispatchAck(i, m)
        PROVE  UNCHANGED helloed /\ (Forget(m.attempt, i) \/ UNCHANGED <<route, inFlight>>)
    BY <2>1 DEF HandleDispatchAck
  <2>2. ASSUME m.attempt \in Attempts, HandleCancelAck(i, m)
        PROVE  UNCHANGED helloed /\ (Forget(m.attempt, i) \/ UNCHANGED <<route, inFlight>>)
    BY <2>2 DEF HandleCancelAck
  <2>3. ASSUME m.attempt \in Attempts, HandleEvidence(i, m)
        PROVE  UNCHANGED helloed /\ Forget(m.attempt, i)
    BY <2>3 DEF HandleEvidence
  <2>4. ASSUME HandleReconcileResponse(i, m) PROVE UNCHANGED <<helloed, route, inFlight>>
    BY <2>4 DEF HandleReconcileResponse
  <2>. QED BY <2>1, <2>2, <2>3, <2>4, <1>0, Receipt
<1>3. /\ toController \in [Workers -> Seq(Frames)] /\ inFlight \in [Workers -> Nat]
      /\ route \in [Attempts -> Nat] /\ helloed \in [Workers -> BOOLEAN]
      /\ connections \in Seq(Workers)
  BY DEF Typed, TypeOK
<1> HIDE DEF m
<1>4. \A v \in Workers : Wired(v) /\ (Attached(v)' <=> Attached(v)) /\ life'[v] = life[v]
  BY <1>1 DEF Wires, Attached, workerVars
<1>5. \A n \in DOMAIN toController'[w] : toController'[w][n].type # "hello"
  <2> DEFINE p == toController[w]
             q == toController'[w]
  <2>1. p \in Seq(Frames) /\ q \in Seq(Frames) /\ Popped(q, p)
    BY <1>1, <1>3
  <2>2. \A n \in DOMAIN p : p[n].type = "hello" => n = 1
    BY <1>1, <1>4 DEF Wired
  <2> HIDE DEF p, q
  <2>3. ASSUME NEW n \in DOMAIN q PROVE q[n].type # "hello"
    <3>1. q[n] = p[n + 1] /\ n + 1 \in DOMAIN p /\ n + 1 # 1
      BY <2>1 DEF Popped
    <3>. QED BY <3>1, <2>2
  <2>. QED BY <2>3 DEF q
<1>6. CASE m.type = "hello" /\ HandleHello(i)
  <2>1. /\ helloed' = [helloed EXCEPT ![w] = TRUE] /\ inFlight' = [inFlight EXCEPT ![w] = 0]
        /\ UNCHANGED route
    BY <1>6, <1>0 DEF HandleHello
  <2>2. \A v \in Workers : Carried(v)' = Carried(v)
    BY <2>1, <1>1 DEF Carried
  <2>3. Carried(w) = {} /\ IsFiniteSet(Carried(w))
    BY <1>1, <1>4, <1>6 DEF Wired, m
  <2>4. Wired(w)'
    BY <2>1, <2>2, <2>3, <1>1, <1>3, <1>4, <1>5, FS_EmptySet DEF Wired
  <2>5. \A v \in Workers \ {w} : helloed'[v] = helloed[v] /\ inFlight'[v] = inFlight[v]
    BY <2>1, <1>1, <1>3
  <2>6. ASSUME NEW v \in Workers \ {w} PROVE Wired(v)'
    BY <2>2, <2>5, <1>1, <1>4 DEF Wired
  <2>7. RoutesLeadToTheCarrier'
    BY <2>1, <1>1 DEF Wires, RoutesLeadToTheCarrier
  <2>. QED BY <2>4, <2>6, <2>7 DEF Wires
<1>7. CASE UNCHANGED <<helloed, route, inFlight>>
  <2>1. \A v \in Workers : Carried(v)' = Carried(v)
    BY <1>7, <1>1 DEF Carried
  <2>2. RoutesLeadToTheCarrier'
    BY <1>7, <1>1 DEF Wires, RoutesLeadToTheCarrier
  <2>3. ASSUME NEW v \in Workers PROVE Wired(v)'
    <3>1. CASE v = w
      BY <3>1, <2>1, <1>7, <1>1, <1>4, <1>5 DEF Wired
    <3>2. CASE v # w
      BY <3>2, <2>1, <1>7, <1>1, <1>4 DEF Wired
    <3>. QED BY <3>1, <3>2
  <2>. QED BY <2>2, <2>3 DEF Wires
<1>8. ASSUME NEW a \in Attempts, Forget(a, i), UNCHANGED helloed, route[a] = i, route'[a] = 0,
             \A b \in Attempts \ {a} : route'[b] = route[b],
             \A v \in Workers : inFlight'[v] =
                    IF v # connections[i] THEN inFlight[v]
                    ELSE IF inFlight[v] > 0 THEN inFlight[v] - 1 ELSE 0
      PROVE  Wires'
  <2>0. i # 0
    BY <1>3
  <2>1. i # 0 /\ carrier[a] = w
    <3>1. route[a] # 0
      BY <1>8, <2>0
    <3>2. connections[route[a]] = carrier[a]
      BY <3>1 DEF Wires, RoutesLeadToTheCarrier
    <3>. QED BY <2>0, <3>2, <1>8, <1>0
  <2>2. RoutesLeadToTheCarrier'
    BY <1>8, <1>1 DEF Wires, RoutesLeadToTheCarrier
  <2>3. Carried(w)' = Carried(w) \ {a} /\ a \in Carried(w)
    BY <1>8, <1>1, <2>1 DEF Carried
  <2>4. Wired(w)'
    <3>1. IsFiniteSet(Carried(w)) /\ inFlight[w] = Cardinality(Carried(w))
      BY <1>1, <1>4 DEF Wired
    <3>2. IsFiniteSet(Carried(w)') /\ Cardinality(Carried(w)') = Cardinality(Carried(w)) - 1
      BY <2>3, <3>1, FS_RemoveElement
    <3>3. Cardinality(Carried(w)') \in Nat
      BY <3>2, FS_CardinalityType
    <3>4. inFlight'[w] = inFlight[w] - 1
      BY <1>8, <3>1, <3>2, <3>3, <1>0, <1>3
    <3>. QED BY <3>1, <3>2, <3>4, <2>3, <1>1, <1>4, <1>5, <1>8 DEF Wired
  <2>5. ASSUME NEW v \in Workers \ {w} PROVE Wired(v)'
    <3>1. Carried(v)' = Carried(v)
      BY <2>1, <1>1, <1>8 DEF Carried
    <3>2. inFlight'[v] = inFlight[v]
      BY <1>8, <1>0
    <3>3. Wired(v)
      BY <1>1 DEF Wires
    <3>4. UNCHANGED helloed /\ toController'[v] = toController[v] /\ life'[v] = life[v]
          /\ (Attached(v)' <=> Attached(v))
      BY <1>1, <1>4, <1>8
    <3>. QED BY <3>1, <3>2, <3>3, <3>4 DEF Wired
  <2>. QED BY <2>2, <2>4, <2>5 DEF Wires
<1>9. ASSUME NEW a \in Attempts, Forget(a, i), UNCHANGED helloed PROVE Wires'
  BY <1>7, <1>8, <1>9, Forgets
<1>. QED BY <1>2, <1>6, <1>7, <1>9

(* What workers send is never a hello.                                      *)
LEMMA TypesMade ==
  /\ \A a \in Attempts :
       /\ \A o \in {"accepted", "duplicate", "throttled"} : DispatchAck(a, o).type = "ack"
       /\ \A o \in Outcomes : Evidence(a, o).type = "evidence"
       /\ \A b \in BOOLEAN : CancelAck(a, b).type = "cancel_ack"
  /\ \A m \in Orders : AnswerTo(m).type = "answer"
  BY DEF DispatchAck, Evidence, CancelAck, AnswerTo

LEMMA NoHellos ==
  ASSUME NEW x \in Frames, NEW y \in Frames, x.type # "hello", y.type # "hello"
  PROVE  /\ <<x>> \in Seq(Frames) /\ <<x, y>> \in Seq(Frames)
         /\ \A n \in 1..Len(<<x>>) : <<x>>[n].type # "hello"
         /\ \A n \in 1..Len(<<x, y>>) : <<x, y>>[n].type # "hello"
<1>1. <<x>> \in Seq(Frames) /\ <<x, y>> \in Seq(Frames)
  OBVIOUS
<1>2. Len(<<x>>) = 1 /\ <<x>>[1] = x
  OBVIOUS
<1>3. Len(<<x, y>>) = 2 /\ <<x, y>>[1] = x /\ <<x, y>>[2] = y
  OBVIOUS
<1>4. \A n \in 1..2 : n = 1 \/ n = 2
  OBVIOUS
<1>. QED BY <1>1, <1>2, <1>3, <1>4

LEMMA ReactionSends ==
  ASSUME Typed, NEW w \in Workers, WorkerHandlesFrame(w)
  PROVE  \E more \in Seq(Frames) : Sent(w, more) /\ \A n \in 1..Len(more) : more[n].type # "hello"
<1> DEFINE Goal == \E more \in Seq(Frames) :
                     Sent(w, more) /\ \A n \in 1..Len(more) : more[n].type # "hello"
           m == toWorker[w][1]
<1>1. ASSUME NEW x \in Frames, x.type # "hello", Sent(w, <<x>>) PROVE Goal
  BY <1>1, NoHellos
<1>2. ASSUME NEW x \in Frames, NEW y \in Frames, x.type # "hello", y.type # "hello", Sent(w, <<x, y>>)
      PROVE  Goal
  BY <1>2, NoHellos
<1> HIDE DEF Goal
<1>3. ASSUME NEW a \in Attempts, Duplicate(w, a) PROVE Goal
  <2>1. PICK h \in Holders(w, Key[a]) :
          \/ effect[h] \in Finished /\ Sent(w, <<Evidence(a, effect[h]), DispatchAck(a, "duplicate")>>)
          \/ Sent(w, <<DispatchAck(a, "duplicate")>>)
    BY <1>3, Duplicates, Zenon
  <2>2. DispatchAck(a, "duplicate") \in Frames /\ DispatchAck(a, "duplicate").type = "ack"
    BY FramesMade, TypesMade
  <2>3. effect[h] \in Finished => Evidence(a, effect[h]) \in Frames /\ Evidence(a, effect[h]).type = "evidence"
    BY FramesMade, TypesMade DEF Finished, Outcomes
  <2>. QED BY <2>1, <2>2, <2>3, <1>1, <1>2
<1>4. ASSUME NEW a \in Attempts, Throttle(w, a) PROVE Goal
  <2>1. Sent(w, <<DispatchAck(a, "throttled")>>)
    BY <1>4, Throttles, Zenon
  <2>2. DispatchAck(a, "throttled") \in Frames /\ DispatchAck(a, "throttled").type = "ack"
    BY FramesMade, TypesMade
  <2>. QED BY <2>1, <2>2, <1>1
<1>5. ASSUME NEW a \in Attempts, Accept(w, a) PROVE Goal
  <2>1. Sent(w, <<DispatchAck(a, "accepted")>>)
    BY <1>5, Accepts, Zenon
  <2>2. DispatchAck(a, "accepted") \in Frames /\ DispatchAck(a, "accepted").type = "ack"
    BY FramesMade, TypesMade
  <2>. QED BY <2>1, <2>2, <1>1
<1>6. ASSUME NEW a \in Attempts, HandleCancel(w, a) PROVE Goal
  <2>1. \/ Sent(w, <<CancelAck(a, FALSE)>>)
        \/ Sent(w, <<Evidence(a, "stopped"), CancelAck(a, TRUE)>>)
        \/ Sent(w, <<Evidence(a, "stopped"), CancelAck(a, FALSE)>>)
    BY <1>6, Cancels, Zenon
  <2>2. /\ Evidence(a, "stopped") \in Frames /\ Evidence(a, "stopped").type = "evidence"
        /\ \A b \in BOOLEAN : CancelAck(a, b) \in Frames /\ CancelAck(a, b).type = "cancel_ack"
    BY FramesMade, TypesMade DEF Outcomes
  <2>. QED BY <2>1, <2>2, <1>1, <1>2
<1>7. ASSUME m \in Orders, m.type = "reconcile", HandleReconcile(w, m) PROVE Goal
  <2>1. AnswerTo(m) \in Frames /\ Sent(w, <<AnswerTo(m)>>) /\ AnswerTo(m).type = "answer"
    BY <1>7, Answers, TypesMade
  <2>. QED BY <2>1, <1>1
<1>. QED BY <1>3, <1>4, <1>5, <1>6, <1>7, Reaction, Zenon DEF Goal

LEMMA DrainSends ==
  ASSUME Typed, NEW w \in Workers, DrainCompletion(w)
  PROVE  \/ UNCHANGED toController
         \/ \E more \in Seq(Frames) : Sent(w, more) /\ \A n \in 1..Len(more) : more[n].type # "hello"
<1> DEFINE c == completions[w][1]
           a == c.attempt
<1>1. c \in Completions
  BY Drains, Zenon
<1>2. a \in Attempts /\ c.how \in Outcomes
  BY <1>1 DEF Completions
<1>3. \/ UNCHANGED toController
      \/ Sent(w, <<Evidence(a, c.how)>>)
      \/ deferred[a] \in Attempts /\ Sent(w, <<Evidence(a, c.how), Evidence(deferred[a], c.how)>>)
  BY Drains, Zenon
<1>4. \A b \in Attempts : Evidence(b, c.how) \in Frames /\ Evidence(b, c.how).type = "evidence"
  BY <1>2, FramesMade, TypesMade
<1>5. Evidence(a, c.how) \in Frames /\ Evidence(a, c.how).type # "hello"
  BY <1>2, <1>4
<1> HIDE DEF c, a
<1>6. CASE Sent(w, <<Evidence(a, c.how)>>)
  BY <1>5, <1>6, NoHellos
<1>7. CASE deferred[a] \in Attempts /\ Sent(w, <<Evidence(a, c.how), Evidence(deferred[a], c.how)>>)
  BY <1>4, <1>5, <1>7, NoHellos
<1>. QED BY <1>3, <1>6, <1>7

LEMMA WiresAreKept ==
  ASSUME Typed, Wires, Addressed, Next
  PROVE  Wires'
<1>1. ASSUME NEW a \in Attempts, Cancel(a) PROVE Wires'
  BY <1>1, WiresUnchanged DEF Cancel, adapterVars, workerVars
<1>2. ASSUME NEW a \in Attempts, EffectEnds(a) PROVE Wires'
  BY <1>2, WiresUnchanged DEF EffectEnds, adapterVars, askVars
<1>3. CASE Reconcile
  BY <1>3, WiresUnchanged DEF Reconcile, workerVars, askVars
<1>4. CASE ReconcileReturns
  BY <1>4, WiresUnchanged DEF ReconcileReturns, workerVars, askVars
<1>5. ASSUME NEW i \in DOMAIN connections, Drop(i) PROVE Wires'
  <2>0. PICK w \in Workers : w = connections[i]
    BY DEF Typed, TypeOK
  <2>1. /\ \A v \in Workers : Attached(v)' <=> Attached(v) /\ v # w
        /\ \A k \in DOMAIN connections \ {i} :
             /\ Reindexed(k, i) \in DOMAIN connections' \ {0}
             /\ connections'[Reindexed(k, i)] = connections[k]
    BY <1>5, <2>0, Drops
  <2>2. /\ route' = [a \in Attempts |-> Reindexed(route[a], i)]
        /\ helloed' = [helloed EXCEPT ![w] = FALSE] /\ inFlight' = [inFlight EXCEPT ![w] = 0]
        /\ toController' = [toController EXCEPT ![w] = <<>>]
        /\ UNCHANGED <<life, carrier>>
    BY <1>5, <2>0 DEF Drop, workerVars, askVars
  <2>3. /\ connections \in Seq(Workers) /\ IsInjective(connections) /\ route \in [Attempts -> Nat]
        /\ helloed \in [Workers -> BOOLEAN] /\ inFlight \in [Workers -> Nat]
        /\ toController \in [Workers -> Seq(Frames)] /\ i \in DOMAIN connections
    BY DEF Typed, TypeOK
  <2>4. ASSUME NEW a \in Attempts, route'[a] # 0
        PROVE  /\ route[a] \in DOMAIN connections \ {i} /\ route[a] # 0
               /\ route'[a] = Reindexed(route[a], i)
    BY <2>2, <2>3, <2>4 DEF Reindexed, Wires, RoutesLeadToTheCarrier
  <2>5. RoutesLeadToTheCarrier'
    BY <2>1, <2>2, <2>4 DEF Wires, RoutesLeadToTheCarrier
  <2>6. \A a \in Attempts : carrier[a] = w /\ route[a] # 0 => route[a] = i
    BY <2>0, <2>3 DEF Wires, RoutesLeadToTheCarrier, IsInjective
  <2>7. \A a \in Attempts : route[a] # 0 /\ route[a] # i => route'[a] # 0
    BY <2>1, <2>2 DEF Wires, RoutesLeadToTheCarrier
  <2>8. \A a \in Attempts : carrier[a] # w /\ route[a] # 0 => route[a] # i
    BY <2>0 DEF Wires, RoutesLeadToTheCarrier
  <2>9. Carried(w)' = {} /\ \A v \in Workers \ {w} : Carried(v)' = Carried(v)
    <3>1. Carried(w)' = {}
      BY <2>2, <2>4, <2>6 DEF Carried
    <3>2. ASSUME NEW v \in Workers \ {w} PROVE Carried(v)' = Carried(v)
      BY <2>2, <2>4, <2>7, <2>8 DEF Carried
    <3>. QED BY <3>1, <3>2
  <2>10. Wired(w)'
    BY <2>1, <2>2, <2>3, <2>9, FS_EmptySet DEF Wired
  <2>11. ASSUME NEW v \in Workers \ {w} PROVE Wired(v)'
    <3>1. /\ helloed'[v] = helloed[v] /\ inFlight'[v] = inFlight[v]
          /\ toController'[v] = toController[v] /\ Wired(v)
      BY <2>2, <2>3 DEF Wires
    <3>. QED BY <3>1, <2>1, <2>2, <2>9 DEF Wired
  <2>. QED BY <2>5, <2>10, <2>11 DEF Wires
<1>6. ASSUME NEW w \in Workers, Attach(w) PROVE Wires'
  <2>1. /\ life' = [life EXCEPT ![w] = "connected"] /\ connections' = Append(connections, w)
        /\ toController' = [toController EXCEPT ![w] = <<[type |-> "hello"]>>]
        /\ life[w] = "unborn" /\ UNCHANGED <<helloed, inFlight, route, carrier>>
    BY <1>6 DEF Attach, askVars
  <2>2. connections \in Seq(Workers) /\ life \in [Workers -> {"unborn", "connected", "gone"}]
        /\ toController \in [Workers -> Seq(Frames)]
    BY DEF Typed, TypeOK
  <2>3. ~Attached(w) /\ \A v \in Workers : Wired(v)
    BY <2>1 DEF Wires, Wired
  <2>4. /\ DOMAIN connections' = 1..(Len(connections) + 1)
        /\ DOMAIN connections = 1..Len(connections) /\ Len(connections) \in Nat
        /\ connections'[Len(connections) + 1] = w
        /\ \A n \in DOMAIN connections : connections'[n] = connections[n]
    BY <2>1, <2>2
  <2>5. \A v \in Workers : Attached(v)' <=> Attached(v) \/ v = w
    BY <2>4 DEF Attached, ToSet
  <2>6. RoutesLeadToTheCarrier'
    BY <2>1, <2>4 DEF Wires, RoutesLeadToTheCarrier
  <2>7. \A v \in Workers : Carried(v)' = Carried(v)
    BY <2>1 DEF Carried
  <2>8. Wired(w)'
    <3>1. toController'[w] = <<[type |-> "hello"]>> /\ DOMAIN toController'[w] = {1}
      BY <2>1, <2>2
    <3>2. life'[w] = "connected"
      BY <2>1, <2>2
    <3>3. ~helloed'[w] /\ Carried(w)' = Carried(w) /\ inFlight'[w] = inFlight[w] /\ Wired(w)
      BY <2>1, <2>3, <2>7 DEF Wired
    <3>. QED BY <3>1, <3>2, <3>3, <2>3, <2>5 DEF Wired
  <2>9. ASSUME NEW v \in Workers \ {w} PROVE Wired(v)'
    <3>1. toController'[v] = toController[v] /\ life'[v] = life[v] /\ helloed'[v] = helloed[v]
          /\ inFlight'[v] = inFlight[v] /\ Wired(v)
      BY <2>1, <2>2, <2>3
    <3>. QED BY <3>1, <2>5, <2>7 DEF Wired
  <2>. QED BY <2>6, <2>8, <2>9 DEF Wires
<1>7. ASSUME NEW w \in Workers, WorkerDies(w) PROVE Wires'
  <2>1. PICK n \in 0..Len(toController[w]) :
          toController' = [toController EXCEPT ![w] = SubSeq(@, 1, n)]
    BY <1>7 DEF WorkerDies
  <2>2. life' = [life EXCEPT ![w] = "gone"] /\ UNCHANGED <<adapterVars, carrier>>
    BY <1>7 DEF WorkerDies, askVars
  <2>3. toController \in [Workers -> Seq(Frames)] /\ life \in [Workers -> {"unborn", "connected", "gone"}]
    BY DEF Typed, TypeOK
  <2> DEFINE q == SubSeq(toController[w], 1, n)
  <2>4. q \in Seq(Frames) /\ Len(q) = n /\ \A k \in 1..n : q[k] = toController[w][k]
    BY <2>3, Cut
  <2>5. toController'[w] = q /\ \A v \in Workers \ {w} : toController'[v] = toController[v]
    BY <2>1, <2>3
  <2> HIDE DEF q
  <2>6. RoutesLeadToTheCarrier'
    BY <2>2 DEF Wires, RoutesLeadToTheCarrier, adapterVars
  <2>7. ASSUME NEW v \in Workers PROVE Wired(v)'
    <3>1. Wired(v) /\ (Attached(v)' <=> Attached(v)) /\ Carried(v)' = Carried(v)
          /\ helloed'[v] = helloed[v] /\ inFlight'[v] = inFlight[v]
      BY <2>2 DEF Wires, Attached, Carried, adapterVars
    <3>2. life[v] # "unborn" => life'[v] # "unborn"
      BY <2>2, <2>3
    <3>3. \A k \in DOMAIN toController'[v] :
            k \in DOMAIN toController[v] /\ toController'[v][k] = toController[v][k]
      BY <2>3, <2>4, <2>5
    <3>4. ~Attached(v) => toController'[v] = <<>>
      <4>1. CASE v = w
        <5>1. ~Attached(w) => toController[w] = <<>>
          BY DEF Wires, Wired
        <5>2. toController[w] = <<>> => Len(q) = 0
          BY <2>4
        <5>3. Len(q) = 0 => q = <<>>
          BY <2>4
        <5>. QED BY <5>1, <5>2, <5>3, <4>1, <2>5
      <4>2. CASE v # w
        BY <4>2, <2>5, <3>1 DEF Wired
      <4>. QED BY <4>1, <4>2
    <3>. QED BY <3>1, <3>2, <3>3, <3>4, WiredStays
  <2>. QED BY <2>6, <2>7 DEF Wires
<1>8. ASSUME NEW w \in Workers, WorkerHandlesFrame(w) PROVE Wires'
  <2>1. UNCHANGED <<adapterVars, life, carrier>> /\ toWorker[w][1] \in Orders
    BY <1>8, Reaction, Zenon DEF askVars
  <2>2. \E more \in Seq(Frames) : Sent(w, more) /\ \A n \in 1..Len(more) : more[n].type # "hello"
    BY <1>8, ReactionSends
  <2>. QED BY <2>1, <2>2, SentIsWired
<1>9. ASSUME NEW w \in Workers, DrainCompletion(w) PROVE Wires'
  <2>1. UNCHANGED <<adapterVars, life, carrier>>
    BY <1>9, Drains, Zenon DEF askVars
  <2>2. \/ UNCHANGED toController
        \/ \E more \in Seq(Frames) : Sent(w, more) /\ \A n \in 1..Len(more) : more[n].type # "hello"
    BY <1>9, DrainSends
  <2>. QED BY <2>1, <2>2, SentIsWired, WiresUnchanged DEF adapterVars
<1>. QED BY <1>1, <1>2, <1>3, <1>4, <1>5, <1>6, <1>7, <1>8, <1>9, DispatchIsWired,
            ReceiptIsWired DEF Next

-----------------------------------------------------------------------------
(* Where what is in a queue after a step comes from.                        *)

LEMMA PushedFrom ==
  ASSUME NEW S, NEW p \in Seq(S), NEW q \in Seq(S), NEW more, Len(more) \in Nat, Pushed(q, p, more)
  PROVE  /\ \A n \in DOMAIN p : n \in DOMAIN q /\ q[n] = p[n] /\ n <= Len(p)
         /\ \A k \in 1..Len(more) : Len(p) + k \in DOMAIN q /\ q[Len(p) + k] = more[k]
         /\ \A n \in DOMAIN q \ DOMAIN p :
              n - Len(p) \in 1..Len(more) /\ q[n] = more[n - Len(p)] /\ n > Len(p)
<1>1. /\ DOMAIN p = 1..Len(p) /\ DOMAIN q = 1..Len(q) /\ Len(p) \in Nat
      /\ Len(q) = Len(p) + Len(more)
  BY DEF Pushed
<1>2. \A n \in DOMAIN p : n \in DOMAIN q /\ q[n] = p[n] /\ n <= Len(p)
  BY <1>1 DEF Pushed
<1>3. \A k \in 1..Len(more) : Len(p) + k \in DOMAIN q /\ q[Len(p) + k] = more[k]
  BY <1>1 DEF Pushed
<1>4. ASSUME NEW n \in DOMAIN q \ DOMAIN p
      PROVE  n - Len(p) \in 1..Len(more) /\ q[n] = more[n - Len(p)] /\ n > Len(p)
  <2>1. n - Len(p) \in 1..Len(more) /\ Len(p) + (n - Len(p)) = n /\ n > Len(p)
    BY <1>1
  <2>. QED BY <2>1, <1>3
<1>. QED BY <1>2, <1>3, <1>4

LEMMA PoppedFrom ==
  ASSUME NEW S, NEW p \in Seq(S), NEW q \in Seq(S), Popped(q, p)
  PROVE  /\ 1 \in DOMAIN p
         /\ \A n \in DOMAIN q : n \in Nat /\ n + 1 \in DOMAIN p /\ q[n] = p[n + 1]
         /\ \A n \in DOMAIN p : n = 1 \/ (n - 1 \in DOMAIN q /\ q[n - 1] = p[n] /\ n > 1)
<1>1. /\ DOMAIN p = 1..Len(p) /\ DOMAIN q = 1..Len(q) /\ Len(p) \in Nat \ {0}
      /\ Len(q) = Len(p) - 1
  BY DEF Popped
<1>2. \A n \in DOMAIN q : n \in Nat /\ n + 1 \in DOMAIN p /\ q[n] = p[n + 1]
  BY <1>1 DEF Popped
<1>3. ASSUME NEW n \in DOMAIN p, n # 1 PROVE n - 1 \in DOMAIN q /\ q[n - 1] = p[n] /\ n > 1
  <2>1. n - 1 \in DOMAIN q /\ (n - 1) + 1 = n /\ n > 1
    BY <1>1, <1>3
  <2>. QED BY <2>1, <1>2
<1>. QED BY <1>1, <1>2, <1>3

(* One frame sent, and two.                                                 *)
LEMMA SentOne ==
  ASSUME Typed, NEW w \in Workers, NEW x \in Frames, Sent(w, <<x>>)
  PROVE  /\ \A v \in Workers : \A n \in DOMAIN toController[v] :
              n \in DOMAIN toController'[v] /\ toController'[v][n] = toController[v][n]
         /\ Attached(w) => LET l == Len(toController[w])
                           IN  /\ l + 1 \in DOMAIN toController'[w] /\ toController'[w][l + 1] = x
                               /\ \A n \in DOMAIN toController[w] : n < l + 1
         /\ \A v \in Workers : \A n \in DOMAIN toController'[v] \ DOMAIN toController[v] :
              /\ v = w /\ Attached(w) /\ n = Len(toController[w]) + 1
              /\ toController'[v][n] = x
<1> DEFINE p == toController[w]
           q == toController'[w]
<1>1. p \in Seq(Frames) /\ q \in Seq(Frames)
  BY DEF Typed, Sent
<1>2. Len(<<x>>) = 1 /\ <<x>>[1] = x
  OBVIOUS
<1>3. \A v \in Workers \ {w} : toController'[v] = toController[v]
  BY DEF Sent
<1>4. CASE Attached(w)
  <2>1. Pushed(q, p, <<x>>)
    BY <1>4 DEF Sent
  <2>2. /\ \A n \in DOMAIN p : n \in DOMAIN q /\ q[n] = p[n] /\ n <= Len(p)
        /\ \A k \in 1..Len(<<x>>) : Len(p) + k \in DOMAIN q /\ q[Len(p) + k] = <<x>>[k]
        /\ \A n \in DOMAIN q \ DOMAIN p :
             n - Len(p) \in 1..Len(<<x>>) /\ q[n] = <<x>>[n - Len(p)] /\ n > Len(p)
    <3> HIDE DEF p, q
    <3>. QED BY <2>1, <1>1, <1>2, PushedFrom
  <2>3. DOMAIN p = 1..Len(p) /\ DOMAIN q = 1..Len(q) /\ Len(p) \in Nat
    BY <1>1
  <2>4. Len(p) + 1 \in DOMAIN q /\ q[Len(p) + 1] = x
    BY <2>2, <1>2
  <2>5. \A n \in DOMAIN p : n < Len(p) + 1
    BY <2>3
  <2>6. ASSUME NEW n \in DOMAIN q \ DOMAIN p PROVE n = Len(p) + 1 /\ q[n] = x
    <3>1. PICK k : k = n - Len(p)
      OBVIOUS
    <3>2. k \in 1..Len(<<x>>) /\ q[n] = <<x>>[k] /\ n > Len(p)
      BY <2>2, <3>1
    <3>3. k = 1
      BY <1>2, <3>2
    <3>4. n \in Nat /\ Len(p) \in Nat
      BY <1>1
    <3> HIDE DEF p, q
    <3>5. n = Len(p) + 1
      BY <3>1, <3>3, <3>4
    <3>. QED BY <1>2, <3>2, <3>3, <3>5
  <2>. QED BY <2>2, <2>4, <2>5, <2>6, <1>3, <1>4
<1>5. CASE ~Attached(w)
  BY <1>5, <1>3 DEF Sent
<1>. QED BY <1>4, <1>5

LEMMA SentTwo ==
  ASSUME Typed, NEW w \in Workers, NEW x \in Frames, NEW y \in Frames, Sent(w, <<x, y>>)
  PROVE  /\ \A v \in Workers : \A n \in DOMAIN toController[v] :
              n \in DOMAIN toController'[v] /\ toController'[v][n] = toController[v][n]
         /\ Attached(w) => LET l == Len(toController[w])
                           IN  /\ l + 1 \in DOMAIN toController'[w] /\ toController'[w][l + 1] = x
                               /\ l + 2 \in DOMAIN toController'[w] /\ toController'[w][l + 2] = y
                               /\ \A n \in DOMAIN toController[w] : n < l + 1
         /\ \A v \in Workers : \A n \in DOMAIN toController'[v] \ DOMAIN toController[v] :
              /\ v = w /\ Attached(w)
              /\ \/ n = Len(toController[w]) + 1 /\ toController'[v][n] = x
                 \/ n = Len(toController[w]) + 2 /\ toController'[v][n] = y
<1> DEFINE p == toController[w]
           q == toController'[w]
<1>1. p \in Seq(Frames) /\ q \in Seq(Frames)
  BY DEF Typed, Sent
<1>2. Len(<<x, y>>) = 2 /\ <<x, y>>[1] = x /\ <<x, y>>[2] = y
  OBVIOUS
<1>3. \A v \in Workers \ {w} : toController'[v] = toController[v]
  BY DEF Sent
<1>4. CASE Attached(w)
  <2>1. Pushed(q, p, <<x, y>>)
    BY <1>4 DEF Sent
  <2>2. /\ \A n \in DOMAIN p : n \in DOMAIN q /\ q[n] = p[n] /\ n <= Len(p)
        /\ \A k \in 1..Len(<<x, y>>) : Len(p) + k \in DOMAIN q /\ q[Len(p) + k] = <<x, y>>[k]
        /\ \A n \in DOMAIN q \ DOMAIN p :
             n - Len(p) \in 1..Len(<<x, y>>) /\ q[n] = <<x, y>>[n - Len(p)] /\ n > Len(p)
    <3> HIDE DEF p, q
    <3>. QED BY <2>1, <1>1, <1>2, PushedFrom
  <2>3. DOMAIN p = 1..Len(p) /\ DOMAIN q = 1..Len(q) /\ Len(p) \in Nat
    BY <1>1
  <2>4. Len(p) + 1 \in DOMAIN q /\ q[Len(p) + 1] = x /\ Len(p) + 2 \in DOMAIN q /\ q[Len(p) + 2] = y
    BY <2>2, <1>2
  <2>5. \A n \in DOMAIN p : n < Len(p) + 1
    BY <2>3
  <2>6. ASSUME NEW n \in DOMAIN q \ DOMAIN p
        PROVE  \/ n = Len(p) + 1 /\ q[n] = x
               \/ n = Len(p) + 2 /\ q[n] = y
    <3>1. PICK k : k = n - Len(p)
      OBVIOUS
    <3>2. k \in 1..Len(<<x, y>>) /\ q[n] = <<x, y>>[k] /\ n > Len(p)
      BY <2>2, <3>1
    <3>3. k = 1 \/ k = 2
      BY <1>2, <3>2
    <3>4. n \in Nat /\ Len(p) \in Nat
      BY <1>1
    <3> HIDE DEF p, q
    <3>5. n = Len(p) + k
      BY <3>1, <3>3, <3>4
    <3>. QED BY <1>2, <3>2, <3>3, <3>5
  <2>. QED BY <2>2, <2>4, <2>5, <2>6, <1>3, <1>4
<1>5. CASE ~Attached(w)
  BY <1>5, <1>3 DEF Sent
<1>. QED BY <1>4, <1>5

(* What the orchestrator's calls put in the queues of workers.              *)
LEMMA Dispatched ==
  ASSUME Typed, NEW a \in Attempts, Dispatch(a)
  PROVE  /\ carrier[a] = NoWorker
         /\ UNCHANGED <<connections, helloed, pending, requests, toController, workerVars,
                        asked, reported, answered>>
         /\ \E w \in Workers :
              /\ Attached(w) /\ carrier'[a] = w /\ route'[a] # 0
              /\ \A b \in Attempts \ {a} : carrier'[b] = carrier[b] /\ route'[b] = route[b]
              /\ \A v \in Workers : \A n \in DOMAIN toWorker[v] :
                   n \in DOMAIN toWorker'[v] /\ toWorker'[v][n] = toWorker[v][n]
              /\ \A n \in DOMAIN toWorker[w] : n < Len(toWorker[w]) + 1
              /\ \A v \in Workers : \A n \in DOMAIN toWorker'[v] \ DOMAIN toWorker[v] :
                   /\ v = w /\ n = Len(toWorker[w]) + 1
                   /\ toWorker'[v][n] = [type |-> "dispatch", attempt |-> a]
<1>1. PICK i \in DOMAIN connections :
        LET w == connections[i]
        IN  /\ route' = [route EXCEPT ![a] = i]
            /\ carrier' = [carrier EXCEPT ![a] = w]
            /\ toWorker' = [toWorker EXCEPT ![w] =
                              Append(@, [type |-> "dispatch", attempt |-> a])]
  BY Zenon DEF Dispatch
<1>2. /\ connections \in Seq(Workers) /\ route \in [Attempts -> Nat]
      /\ carrier \in [Attempts -> Workers \cup {NoWorker}] /\ toWorker \in [Workers -> Seq(Orders)]
  BY DEF Typed, TypeOK
<1>3. PICK w \in Workers : w = connections[i] /\ i # 0 /\ Attached(w)
  BY <1>2 DEF Attached, ToSet
<1> DEFINE x == [type |-> "dispatch", attempt |-> a]
           p == toWorker[w]
           q == Append(p, x)
<1>4. x \in Orders /\ p \in Seq(Orders)
  BY <1>2, FramesMade
<1> HIDE DEF x, p
<1>5. /\ q \in Seq(Orders) /\ \A n \in DOMAIN p : n \in DOMAIN q /\ q[n] = p[n] /\ n < Len(p) + 1
      /\ \A n \in DOMAIN q \ DOMAIN p : n = Len(p) + 1 /\ q[n] = x
  BY <1>4
<1> HIDE DEF q
<1>6. toWorker'[w] = q /\ \A v \in Workers \ {w} : toWorker'[v] = toWorker[v]
  <2>1. toWorker' = [toWorker EXCEPT ![w] = q]
    BY <1>1, <1>3 DEF q, p, x
  <2>. QED BY <2>1, <1>2
<1>7. carrier'[a] = w /\ route'[a] # 0
      /\ \A b \in Attempts \ {a} : carrier'[b] = carrier[b] /\ route'[b] = route[b]
  BY <1>1, <1>2, <1>3
<1>8. /\ carrier[a] = NoWorker
      /\ UNCHANGED <<connections, helloed, pending, requests, toController, workerVars,
                     asked, reported, answered>>
  BY DEF Dispatch
<1>. QED BY <1>3, <1>5, <1>6, <1>7, <1>8 DEF p, x

LEMMA Cancelled ==
  ASSUME Typed, Wires, NEW a \in Attempts, Cancel(a)
  PROVE  /\ asked' = asked \cup {a} /\ a \in Issued
         /\ UNCHANGED <<adapterVars, toController, workerVars, carrier, reported, answered>>
         /\ \A v \in Workers : \A n \in DOMAIN toWorker[v] :
              n \in DOMAIN toWorker'[v] /\ toWorker'[v][n] = toWorker[v][n]
         /\ \A v \in Workers : \A n \in DOMAIN toWorker'[v] \ DOMAIN toWorker[v] :
              /\ v = carrier[a] /\ n = Len(toWorker[v]) + 1
              /\ toWorker'[v][n] = [type |-> "cancel", attempt |-> a]
<1>1. /\ asked' = asked \cup {a} /\ a \in Issued /\ route[a] # 0
      /\ toWorker' = [toWorker EXCEPT ![connections[route[a]]] =
                        Append(@, [type |-> "cancel", attempt |-> a])]
      /\ UNCHANGED <<adapterVars, toController, workerVars, carrier, reported, answered>>
  BY DEF Cancel
<1>2. toWorker \in [Workers -> Seq(Orders)] /\ carrier \in [Attempts -> Workers \cup {NoWorker}]
  BY DEF Typed, TypeOK
<1>3. PICK w \in Workers : w = carrier[a] /\ w = connections[route[a]]
  BY <1>1, <1>2 DEF Wires, RoutesLeadToTheCarrier, Issued
<1> DEFINE x == [type |-> "cancel", attempt |-> a]
           p == toWorker[w]
           q == Append(p, x)
<1>4. x \in Orders /\ p \in Seq(Orders)
  BY <1>2, FramesMade
<1> HIDE DEF x, p
<1>5. /\ q \in Seq(Orders) /\ \A n \in DOMAIN p : n \in DOMAIN q /\ q[n] = p[n]
      /\ \A n \in DOMAIN q \ DOMAIN p : n = Len(p) + 1 /\ q[n] = x
  BY <1>4
<1> HIDE DEF q
<1>6. toWorker'[w] = q /\ \A v \in Workers \ {w} : toWorker'[v] = toWorker[v]
  <2>1. toWorker' = [toWorker EXCEPT ![w] = q]
    BY <1>1, <1>3 DEF q, p, x
  <2>. QED BY <2>1, <1>2
<1>. QED BY <1>1, <1>3, <1>5, <1>6 DEF p, x

LEMMA Requested ==
  ASSUME Typed, Wires, Reconcile
  PROVE  /\ UNCHANGED <<connections, helloed, inFlight, route, toController, workerVars, askVars>>
         /\ \A v \in Workers : \A n \in DOMAIN toWorker[v] :
              n \in DOMAIN toWorker'[v] /\ toWorker'[v][n] = toWorker[v][n]
         /\ \A v \in Workers : \A n \in DOMAIN toWorker'[v] \ DOMAIN toWorker[v] :
              /\ n = Len(toWorker[v]) + 1
              /\ \A k \in DOMAIN toWorker[v] : k < n
              /\ toWorker'[v][n].type = "reconcile"
              /\ \A a \in toWorker'[v][n].fences : carrier[a] = v
<1>1. /\ UNCHANGED <<connections, helloed, inFlight, route, toController, workerVars, askVars>>
      /\ toWorker' = [w \in Workers |->
             IF AskedOf(w) = {} THEN toWorker[w]
             ELSE Append(toWorker[w],
                         [type |-> "reconcile", id |-> Request(w), fences |-> AskedOf(w)])]
  BY DEF Reconcile
<1>2. toWorker \in [Workers -> Seq(Orders)]
  BY DEF Typed
<1>3. ASSUME NEW v \in Workers
      PROVE  /\ \A n \in DOMAIN toWorker[v] :
                  n \in DOMAIN toWorker'[v] /\ toWorker'[v][n] = toWorker[v][n]
             /\ \A n \in DOMAIN toWorker'[v] \ DOMAIN toWorker[v] :
                  /\ n = Len(toWorker[v]) + 1
                  /\ \A k \in DOMAIN toWorker[v] : k < n
                  /\ toWorker'[v][n].type = "reconcile"
                  /\ \A a \in toWorker'[v][n].fences : carrier[a] = v
  <2> DEFINE x == [type |-> "reconcile", id |-> Request(v), fences |-> AskedOf(v)]
             p == toWorker[v]
             q == Append(p, x)
  <2>1. x \in Orders /\ p \in Seq(Orders)
    <3>1. Request(v) \in Nat \X Workers /\ AskedOf(v) \in SUBSET Attempts
      BY DEF Request, AskedOf, Outstanding, Issued, Typed, TypeOK
    <3>. QED BY <3>1, <1>2, FramesMade, Zenon
  <2>2. x.type = "reconcile" /\ \A a \in x.fences : carrier[a] = v
    BY DEF AskedOf, Outstanding, Issued, Wires, RoutesLeadToTheCarrier
  <2> HIDE DEF x, p
  <2>3. /\ q \in Seq(Orders) /\ \A n \in DOMAIN p : n \in DOMAIN q /\ q[n] = p[n] /\ n < Len(p) + 1
        /\ \A n \in DOMAIN q \ DOMAIN p : n = Len(p) + 1 /\ q[n] = x
    BY <2>1
  <2> HIDE DEF q
  <2>4. toWorker'[v] \in {p, q}
    BY <1>1 DEF p, q, x
  <2>. QED BY <2>2, <2>3, <2>4 DEF p
<1>. QED BY <1>1, <1>3

(* What a worker leaves when it dies, and what arrives of what it sent.     *)
LEMMA Dies ==
  ASSUME Typed, NEW w \in Workers, WorkerDies(w)
  PROVE  /\ life[w] = "connected" /\ UNCHANGED <<adapterVars, performed, evicted, askVars>>
         /\ life'[w] = "gone" /\ working' = {a \in working : carrier[a] # w}
         /\ DOMAIN toWorker'[w] = {} /\ DOMAIN completions'[w] = {} /\ DOMAIN order'[w] = {}
         /\ \A v \in Workers \ {w} :
              /\ life'[v] = life[v] /\ toWorker'[v] = toWorker[v]
              /\ completions'[v] = completions[v] /\ order'[v] = order[v]
         /\ \A a \in Attempts :
              /\ effect'[a] = IF carrier[a] = w THEN "none" ELSE effect[a]
              /\ deferred'[a] = IF carrier[a] = w THEN NoAttempt ELSE deferred[a]
         /\ \A v \in Workers : \A n \in DOMAIN toController'[v] :
              /\ n \in DOMAIN toController[v] /\ toController'[v][n] = toController[v][n]
              /\ \A k \in DOMAIN toController[v] : k <= n => k \in DOMAIN toController'[v]
         /\ \A v \in Workers \ {w} : toController'[v] = toController[v]
<1>1. PICK n \in 0..Len(toController[w]) :
        toController' = [toController EXCEPT ![w] = SubSeq(@, 1, n)]
  BY DEF WorkerDies
<1>2. /\ life[w] = "connected" /\ life' = [life EXCEPT ![w] = "gone"]
      /\ working' = {a \in working : carrier[a] # w}
      /\ completions' = [completions EXCEPT ![w] = <<>>]
      /\ effect' = [a \in Attempts |-> IF carrier[a] = w THEN "none" ELSE effect[a]]
      /\ deferred' = [a \in Attempts |-> IF carrier[a] = w THEN NoAttempt ELSE deferred[a]]
      /\ order' = [order EXCEPT ![w] = <<>>]
      /\ toWorker' = [toWorker EXCEPT ![w] = <<>>]
      /\ UNCHANGED <<adapterVars, performed, evicted, askVars>>
  BY DEF WorkerDies
<1>3. /\ toController \in [Workers -> Seq(Frames)] /\ toWorker \in [Workers -> Seq(Orders)]
      /\ completions \in [Workers -> Seq(Completions)] /\ order \in [Workers -> Seq(Attempts)]
      /\ life \in [Workers -> {"unborn", "connected", "gone"}]
  BY DEF Typed, TypeOK
<1> DEFINE q == SubSeq(toController[w], 1, n)
<1>4. q \in Seq(Frames) /\ Len(q) = n /\ \A k \in 1..n : q[k] = toController[w][k]
  BY <1>3, Cut
<1> HIDE DEF q
<1>5. toController'[w] = q /\ \A v \in Workers \ {w} : toController'[v] = toController[v]
  BY <1>1, <1>3 DEF q
<1>6. \A k \in DOMAIN q :
        /\ k \in DOMAIN toController[w] /\ q[k] = toController[w][k]
        /\ \A j \in DOMAIN toController[w] : j <= k => j \in DOMAIN q
  BY <1>3, <1>4
<1>7. /\ DOMAIN toWorker'[w] = {} /\ DOMAIN completions'[w] = {} /\ DOMAIN order'[w] = {}
      /\ life'[w] = "gone"
      /\ \A v \in Workers \ {w} :
           /\ life'[v] = life[v] /\ toWorker'[v] = toWorker[v]
           /\ completions'[v] = completions[v] /\ order'[v] = order[v]
  BY <1>2, <1>3
<1>8. \A a \in Attempts :
        /\ effect'[a] = IF carrier[a] = w THEN "none" ELSE effect[a]
        /\ deferred'[a] = IF carrier[a] = w THEN NoAttempt ELSE deferred[a]
  BY <1>2
<1>9. \A v \in Workers : \A k \in DOMAIN toController'[v] :
        /\ k \in DOMAIN toController[v] /\ toController'[v][k] = toController[v][k]
        /\ \A j \in DOMAIN toController[v] : j <= k => j \in DOMAIN toController'[v]
  BY <1>5, <1>6
<1>. QED BY <1>2, <1>5, <1>7, <1>8, <1>9

(* What a thread leaves when it ends.                                       *)
LEMMA Ended ==
  ASSUME Typed, NEW a \in Attempts, EffectEnds(a)
  PROVE  /\ a \in working /\ working' = working \ {a} /\ carrier[a] \in Workers
         /\ UNCHANGED <<adapterVars, toWorker, toController, life, effect, deferred, order,
                        evicted, askVars>>
         /\ \E how \in Outcomes :
              /\ how = "stopped" => effect[a] = "stopping"
              /\ performed' = IF how = "completed" THEN performed \cup {a} ELSE performed
              /\ \A v \in Workers : \A n \in DOMAIN completions[v] :
                   n \in DOMAIN completions'[v] /\ completions'[v][n] = completions[v][n]
              /\ \A v \in Workers : \A n \in DOMAIN completions'[v] \ DOMAIN completions[v] :
                   /\ v = carrier[a] /\ n = Len(completions[v]) + 1
                   /\ completions'[v][n] = [attempt |-> a, how |-> how]
<1>1. PICK how \in Outcomes :
        /\ how = "stopped" => effect[a] = "stopping"
        /\ completions' = [completions EXCEPT ![carrier[a]] =
                             Append(@, [attempt |-> a, how |-> how])]
        /\ performed' = IF how = "completed" THEN performed \cup {a} ELSE performed
  BY DEF EffectEnds, Outcomes
<1>2. /\ a \in working /\ working' = working \ {a}
      /\ UNCHANGED <<adapterVars, toWorker, toController, life, effect, deferred, order,
                     evicted, askVars>>
  BY DEF EffectEnds
<1>3. completions \in [Workers -> Seq(Completions)] /\ working \subseteq Issued
      /\ carrier \in [Attempts -> Workers \cup {NoWorker}]
  BY DEF Typed, TypeOK
<1>4. PICK w \in Workers : w = carrier[a]
  BY <1>2, <1>3 DEF Issued
<1> DEFINE x == [attempt |-> a, how |-> how]
           p == completions[w]
           q == Append(p, x)
<1>5. x \in Completions /\ p \in Seq(Completions)
  BY <1>3 DEF Completions
<1> HIDE DEF x, p
<1>6. /\ q \in Seq(Completions) /\ \A n \in DOMAIN p : n \in DOMAIN q /\ q[n] = p[n]
      /\ \A n \in DOMAIN q \ DOMAIN p : n = Len(p) + 1 /\ q[n] = x
  BY <1>5
<1> HIDE DEF q
<1>7. completions'[w] = q /\ \A v \in Workers \ {w} : completions'[v] = completions[v]
  <2>1. completions' = [completions EXCEPT ![w] = q]
    BY <1>1, <1>4 DEF q, p, x
  <2>. QED BY <2>1, <1>3
<1>8. /\ \A v \in Workers : \A n \in DOMAIN completions[v] :
           n \in DOMAIN completions'[v] /\ completions'[v][n] = completions[v][n]
      /\ \A v \in Workers : \A n \in DOMAIN completions'[v] \ DOMAIN completions[v] :
           /\ v = carrier[a] /\ n = Len(completions[v]) + 1
           /\ completions'[v][n] = x
  BY <1>4, <1>6, <1>7 DEF p
<1>. QED BY <1>1, <1>2, <1>4, <1>8 DEF x

LEMMA Attaches ==
  ASSUME Typed, Wires, NEW w \in Workers, Attach(w)
  PROVE  /\ life[w] = "unborn" /\ ~Attached(w)
         /\ UNCHANGED <<helloed, inFlight, route, pending, requests, toWorker, effect, deferred,
                        order, working, completions, performed, evicted, askVars>>
         /\ life'[w] = "connected" /\ \A v \in Workers \ {w} : life'[v] = life[v]
         /\ \A v \in Workers : Attached(v)' <=> Attached(v) \/ v = w
         /\ \A v \in Workers \ {w} : toController'[v] = toController[v]
         /\ DOMAIN toController'[w] = {1} /\ toController'[w][1] = [type |-> "hello"]
<1>1. /\ life[w] = "unborn" /\ life' = [life EXCEPT ![w] = "connected"]
      /\ connections' = Append(connections, w)
      /\ toController' = [toController EXCEPT ![w] = <<[type |-> "hello"]>>]
      /\ UNCHANGED <<helloed, inFlight, route, pending, requests, toWorker, effect, deferred,
                     order, working, completions, performed, evicted, askVars>>
  BY DEF Attach
<1>2. connections \in Seq(Workers) /\ life \in [Workers -> {"unborn", "connected", "gone"}]
      /\ toController \in [Workers -> Seq(Frames)]
  BY DEF Typed, TypeOK
<1>3. ~Attached(w)
  BY <1>1 DEF Wires, Wired
<1>4. /\ DOMAIN connections' = 1..(Len(connections) + 1)
      /\ DOMAIN connections = 1..Len(connections) /\ Len(connections) \in Nat
      /\ connections'[Len(connections) + 1] = w
      /\ \A n \in DOMAIN connections : connections'[n] = connections[n]
  BY <1>1, <1>2
<1>5. \A v \in Workers : Attached(v)' <=> Attached(v) \/ v = w
  BY <1>4 DEF Attached, ToSet
<1>6. /\ life'[w] = "connected" /\ \A v \in Workers \ {w} : life'[v] = life[v]
      /\ \A v \in Workers \ {w} : toController'[v] = toController[v]
  BY <1>1, <1>2
<1>7. toController'[w] = <<[type |-> "hello"]>>
  BY <1>1, <1>2
<1>. QED BY <1>1, <1>3, <1>5, <1>6, <1>7

(* A drop loses the frames of its connection and nothing else of what the   *)
(* workers and their queues hold.                                           *)
LEMMA DropLoses ==
  ASSUME Typed, NEW i \in DOMAIN connections, Drop(i)
  PROVE  /\ UNCHANGED <<toWorker, workerVars, askVars>>
         /\ \E w \in Workers :
              /\ w = connections[i]
              /\ DOMAIN toController'[w] = {}
              /\ \A v \in Workers \ {w} : toController'[v] = toController[v]
              /\ \A v \in Workers : Attached(v)' <=> Attached(v) /\ v # w
<1>1. PICK w \in Workers : w = connections[i]
  BY DEF Typed, TypeOK
<1>2. \A v \in Workers : Attached(v)' <=> Attached(v) /\ v # w
  BY <1>1, Drops
<1>3. toController' = [toController EXCEPT ![w] = <<>>] /\ UNCHANGED <<toWorker, workerVars, askVars>>
  BY <1>1 DEF Drop
<1>4. toController \in [Workers -> Seq(Frames)]
  BY DEF Typed
<1>5. DOMAIN toController'[w] = {} /\ \A v \in Workers \ {w} : toController'[v] = toController[v]
  BY <1>3, <1>4
<1>. QED BY <1>1, <1>2, <1>3, <1>5

(* What the adapter takes from a connection was in front.                   *)
LEMMA Received ==
  ASSUME Typed, NEW i \in DOMAIN connections, HandleFrame(i)
  PROVE  /\ UNCHANGED <<connections, requests, toWorker, workerVars, carrier, asked>>
         /\ \E w \in Workers :
              /\ w = connections[i] /\ Attached(w) /\ 1 \in DOMAIN toController[w]
              /\ \A v \in Workers \ {w} : toController'[v] = toController[v]
              /\ \A n \in DOMAIN toController'[w] :
                   /\ n \in Nat /\ n + 1 \in DOMAIN toController[w]
                   /\ toController'[w][n] = toController[w][n + 1]
              /\ \A n \in DOMAIN toController[w] : n = 1 \/
                   /\ n - 1 \in DOMAIN toController'[w] /\ n > 1
                   /\ toController'[w][n - 1] = toController[w][n]
<1>1. PICK w \in Workers : w = connections[i]
  BY DEF Typed, TypeOK
<1>2. /\ Attached(w) /\ toController' \in [Workers -> Seq(Frames)]
      /\ Popped(toController'[w], toController[w])
      /\ \A v \in Workers \ {w} : toController'[v] = toController[v]
      /\ UNCHANGED <<connections, requests, toWorker, workerVars, carrier, asked>>
  BY <1>1, Receipt
<1> DEFINE p == toController[w]
           q == toController'[w]
<1>3. p \in Seq(Frames) /\ q \in Seq(Frames) /\ Popped(q, p)
  BY <1>2 DEF Typed
<1>4. /\ 1 \in DOMAIN p
      /\ \A n \in DOMAIN q : n \in Nat /\ n + 1 \in DOMAIN p /\ q[n] = p[n + 1]
      /\ \A n \in DOMAIN p : n = 1 \/ (n - 1 \in DOMAIN q /\ q[n - 1] = p[n] /\ n > 1)
  <2> HIDE DEF p, q
  <2>. QED BY <1>3, PoppedFrom
<1>. QED BY <1>1, <1>2, <1>4

(* The same of a worker and its queue, and of the results of its threads.   *)
LEMMA Taken ==
  ASSUME Typed, NEW w \in Workers, WorkerHandlesFrame(w)
  PROVE  /\ 1 \in DOMAIN toWorker[w]
         /\ \A v \in Workers \ {w} : toWorker'[v] = toWorker[v]
         /\ \A n \in DOMAIN toWorker'[w] :
              /\ n \in Nat /\ n + 1 \in DOMAIN toWorker[w] /\ toWorker'[w][n] = toWorker[w][n + 1]
<1>1. /\ toWorker' \in [Workers -> Seq(Orders)] /\ Popped(toWorker'[w], toWorker[w])
      /\ \A v \in Workers \ {w} : toWorker'[v] = toWorker[v]
  BY Reaction, Zenon
<1> DEFINE p == toWorker[w]
           q == toWorker'[w]
<1>2. p \in Seq(Orders) /\ q \in Seq(Orders) /\ Popped(q, p)
  BY <1>1 DEF Typed
<1>3. 1 \in DOMAIN p /\ \A n \in DOMAIN q : n \in Nat /\ n + 1 \in DOMAIN p /\ q[n] = p[n + 1]
  <2> HIDE DEF p, q
  <2>. QED BY <1>2, PoppedFrom
<1>. QED BY <1>1, <1>3

LEMMA Drained ==
  ASSUME Typed, NEW w \in Workers, DrainCompletion(w)
  PROVE  /\ 1 \in DOMAIN completions[w] /\ completions[w][1] \in Completions
         /\ \A v \in Workers \ {w} : completions'[v] = completions[v]
         /\ \A n \in DOMAIN completions'[w] :
              /\ n \in Nat /\ n + 1 \in DOMAIN completions[w]
              /\ completions'[w][n] = completions[w][n + 1]
<1>1. /\ completions' \in [Workers -> Seq(Completions)] /\ Popped(completions'[w], completions[w])
      /\ \A v \in Workers \ {w} : completions'[v] = completions[v]
      /\ completions[w][1] \in Completions
  BY Drains, Zenon
<1> DEFINE p == completions[w]
           q == completions'[w]
<1>2. p \in Seq(Completions) /\ q \in Seq(Completions) /\ Popped(q, p)
  BY <1>1 DEF Typed
<1>3. 1 \in DOMAIN p /\ \A n \in DOMAIN q : n \in Nat /\ n + 1 \in DOMAIN p /\ q[n] = p[n + 1]
  <2> HIDE DEF p, q
  <2>. QED BY <1>2, PoppedFrom
<1>. QED BY <1>1, <1>3

-----------------------------------------------------------------------------
(* Whose frames, entries and results are.                                   *)

LEMMA OrdersFrom ==
  ASSUME Typed, Wires, Next
  PROVE  /\ \A b \in Attempts : carrier[b] # NoWorker => carrier'[b] = carrier[b]
         /\ asked \subseteq asked'
         /\ \A v \in Workers : \A n \in DOMAIN toWorker'[v] :
              \/ \E k \in DOMAIN toWorker[v] : toWorker'[v][n] = toWorker[v][k]
              \/ \E a \in Attempts :
                   /\ carrier[a] = NoWorker /\ carrier'[a] = v
                   /\ toWorker'[v][n] = [type |-> "dispatch", attempt |-> a]
              \/ \E a \in asked' :
                   v = carrier[a] /\ toWorker'[v][n] = [type |-> "cancel", attempt |-> a]
              \/ /\ toWorker'[v][n].type = "reconcile"
                 /\ \A a \in toWorker'[v][n].fences : carrier[a] = v
<1> DEFINE From(v, n) == \E k \in DOMAIN toWorker[v] : toWorker'[v][n] = toWorker[v][k]
           Given(v, n) == \E a \in Attempts :
                            /\ carrier[a] = NoWorker /\ carrier'[a] = v
                            /\ toWorker'[v][n] = [type |-> "dispatch", attempt |-> a]
           Stopped(v, n) == \E a \in asked' :
                              /\ v = carrier[a]
                              /\ toWorker'[v][n] = [type |-> "cancel", attempt |-> a]
           Query(v, n) == /\ toWorker'[v][n].type = "reconcile"
                          /\ \A a \in toWorker'[v][n].fences : carrier[a] = v
           Stays(b) == carrier[b] # NoWorker => carrier'[b] = carrier[b]
           Goal == /\ \A b \in Attempts : Stays(b)
                   /\ asked \subseteq asked'
                   /\ \A v \in Workers : \A n \in DOMAIN toWorker'[v] :
                        From(v, n) \/ Given(v, n) \/ Stopped(v, n) \/ Query(v, n)
<1>1. ASSUME NEW a \in Attempts, Dispatch(a) PROVE Goal
  <2>1. PICK w \in Workers :
          /\ carrier'[a] = w
          /\ \A b \in Attempts \ {a} : carrier'[b] = carrier[b]
          /\ \A v \in Workers : \A n \in DOMAIN toWorker[v] : toWorker'[v][n] = toWorker[v][n]
          /\ \A v \in Workers : \A n \in DOMAIN toWorker'[v] \ DOMAIN toWorker[v] :
               v = w /\ toWorker'[v][n] = [type |-> "dispatch", attempt |-> a]
    <3> HIDE DEF Goal
    <3>. QED BY <1>1, Dispatched
  <2>2. carrier[a] = NoWorker /\ asked' = asked
    <3> HIDE DEF Goal
    <3>. QED BY <1>1, Dispatched
  <2>3. ASSUME NEW b \in Attempts PROVE Stays(b)
    BY <2>1, <2>2
  <2>4. ASSUME NEW v \in Workers, NEW n \in DOMAIN toWorker'[v] PROVE From(v, n) \/ Given(v, n)
    <3>1. CASE n \in DOMAIN toWorker[v]
      BY <2>1, <3>1
    <3>2. CASE n \notin DOMAIN toWorker[v]
      BY <2>1, <2>2, <3>2
    <3>. QED BY <3>1, <3>2
  <2> HIDE DEF From, Given, Stopped, Query, Stays
  <2>. QED BY <2>2, <2>3, <2>4
<1>2. ASSUME NEW a \in Attempts, Cancel(a) PROVE Goal
  <2>1. /\ \A v \in Workers : \A n \in DOMAIN toWorker[v] : toWorker'[v][n] = toWorker[v][n]
        /\ \A v \in Workers : \A n \in DOMAIN toWorker'[v] \ DOMAIN toWorker[v] :
             v = carrier[a] /\ toWorker'[v][n] = [type |-> "cancel", attempt |-> a]
    <3> HIDE DEF Goal
    <3>. QED BY <1>2, Cancelled
  <2>2. asked' = asked \cup {a} /\ carrier' = carrier
    <3> HIDE DEF Goal
    <3>. QED BY <1>2, Cancelled
  <2>3. ASSUME NEW v \in Workers, NEW n \in DOMAIN toWorker'[v]
        PROVE  From(v, n) \/ Stopped(v, n)
    <3>1. CASE n \in DOMAIN toWorker[v]
      BY <2>1, <3>1
    <3>2. CASE n \notin DOMAIN toWorker[v]
      BY <2>1, <2>2, <3>2
    <3>. QED BY <3>1, <3>2
  <2>4. \A b \in Attempts : Stays(b)
    BY <2>2
  <2> HIDE DEF From, Given, Stopped, Query, Stays
  <2>. QED BY <2>2, <2>3, <2>4
<1>3. ASSUME Reconcile PROVE Goal
  BY <1>3, Requested DEF askVars
<1>4. ASSUME UNCHANGED <<toWorker, carrier, asked>> PROVE Goal
  BY <1>4
<1>5. ASSUME NEW w \in Workers, WorkerDies(w) PROVE Goal
  BY <1>5, Dies DEF askVars
<1>6. ASSUME NEW w \in Workers, WorkerHandlesFrame(w) PROVE Goal
  <2>1. UNCHANGED <<carrier, asked>>
    BY <1>6, Reaction, Zenon DEF askVars
  <2>. QED BY <2>1, <1>6, Taken
<1> HIDE DEF Goal
<1>7. ASSUME NEW a \in Attempts, EffectEnds(a) PROVE Goal
  BY <1>4, <1>7 DEF EffectEnds, askVars
<1>8. ASSUME ReconcileReturns PROVE Goal
  BY <1>4, <1>8 DEF ReconcileReturns, askVars
<1>9. ASSUME NEW i \in DOMAIN connections, HandleFrame(i) PROVE Goal
  BY <1>4, <1>9 DEF HandleFrame
<1>10. ASSUME NEW i \in DOMAIN connections, Drop(i) PROVE Goal
  BY <1>4, <1>10 DEF Drop, askVars
<1>11. ASSUME NEW w \in Workers, Attach(w) PROVE Goal
  BY <1>4, <1>11 DEF Attach, askVars
<1>12. ASSUME NEW w \in Workers, DrainCompletion(w) PROVE Goal
  BY <1>4, <1>12 DEF DrainCompletion, askVars
<1>13. Goal
  BY <1>1, <1>2, <1>3, <1>5, <1>6, <1>7, <1>8, <1>9, <1>10, <1>11, <1>12 DEF Next
<1>. QED BY <1>13, Zenon DEF Goal

(* No attempt becomes new.                                                  *)
LEMMA NewFades ==
  ASSUME Typed, Wires, Next, NEW b \in Attempts, ~New(b)
  PROVE  ~New(b)'
<1>1. carrier'[b] = carrier[b] /\ carrier[b] # NoWorker /\ carrier[b] \in Workers
  BY OrdersFrom DEF New, Typed, TypeOK
<1>2. SUFFICES ASSUME Waiting(b)' PROVE FALSE
  BY <1>1, PlaneAssumption DEF New
<1>3. PICK v \in Workers : \E n \in DOMAIN toWorker'[v] :
        toWorker'[v][n].type = "dispatch" /\ toWorker'[v][n].attempt = b
  BY <1>2 DEF Waiting, Starts
<1> PICK n \in DOMAIN toWorker'[v] :
      toWorker'[v][n].type = "dispatch" /\ toWorker'[v][n].attempt = b
  BY <1>3
<1> DEFINE m == toWorker'[v][n]
<1>4. \/ \E k \in DOMAIN toWorker[v] : m = toWorker[v][k]
      \/ \E a \in Attempts : carrier[a] = NoWorker /\ m = [type |-> "dispatch", attempt |-> a]
      \/ \E a \in asked' : m = [type |-> "cancel", attempt |-> a]
      \/ m.type = "reconcile"
  BY OrdersFrom
<1>5. m.type = "dispatch" /\ m.attempt = b
  OBVIOUS
<1> HIDE DEF m
<1>6. ~\E a \in asked' : m = [type |-> "cancel", attempt |-> a]
  BY <1>5
<1>7. CASE \E k \in DOMAIN toWorker[v] : m = toWorker[v][k]
  BY <1>5, <1>7 DEF New, Waiting, Starts
<1>8. CASE \E a \in Attempts : carrier[a] = NoWorker /\ m = [type |-> "dispatch", attempt |-> a]
  BY <1>1, <1>5, <1>8
<1>. QED BY <1>4, <1>5, <1>6, <1>7, <1>8

LEMMA OursAreKept ==
  ASSUME Typed, Wires, Addressed, Next, Typed'
  PROVE  \A v \in Workers : \A n \in DOMAIN toWorker'[v] : Ours(v, toWorker[v][n])'
<1> SUFFICES ASSUME NEW v \in Workers, NEW n \in DOMAIN toWorker'[v]
             PROVE  Ours(v, toWorker[v][n])'
  OBVIOUS
<1> DEFINE m == toWorker'[v][n]
<1>1. SUFFICES /\ m.type \in {"dispatch", "cancel"} => carrier'[m.attempt] = v
               /\ m.type = "cancel" => m.attempt \in asked'
               /\ m.type = "reconcile" => \A a \in m.fences : carrier'[a] = v
  BY DEF Ours
<1>2. v # NoWorker
  BY PlaneAssumption
<1>3. CASE \E k \in DOMAIN toWorker[v] : m = toWorker[v][k]
  <2>1. PICK k \in DOMAIN toWorker[v] : m = toWorker[v][k]
    BY <1>3
  <2>2. toWorker[v] \in Seq(Orders) /\ toWorker[v][k] \in Orders
    BY <2>1 DEF Typed
  <2>3. /\ m.type \in {"dispatch", "cancel"} => m.attempt \in Attempts
        /\ m.type = "reconcile" => m.fences \subseteq Attempts
    BY <2>1, <2>2, OrderTypes
  <2>4. /\ m.type \in {"dispatch", "cancel"} => carrier[m.attempt] = v
        /\ m.type = "cancel" => m.attempt \in asked
        /\ m.type = "reconcile" => \A a \in m.fences : carrier[a] = v
    BY <2>1 DEF Addressed, Ours
  <2>. QED BY <2>3, <2>4, <1>2, OrdersFrom
<1>4. CASE \E a \in Attempts : /\ carrier[a] = NoWorker /\ carrier'[a] = v
                               /\ m = [type |-> "dispatch", attempt |-> a]
  BY <1>4
<1>5. CASE \E a \in asked' : v = carrier[a] /\ m = [type |-> "cancel", attempt |-> a]
  <2>1. PICK a \in asked' : v = carrier[a] /\ m = [type |-> "cancel", attempt |-> a]
    BY <1>5
  <2>2. asked' \subseteq Attempts
    BY DEF Typed, TypeOK, Issued
  <2>. QED BY <2>1, <2>2, <1>2, OrdersFrom
<1>6. CASE m.type = "reconcile" /\ \A a \in m.fences : carrier[a] = v
  <2>1. toWorker'[v] \in Seq(Orders) /\ m \in Orders
    BY DEF Typed
  <2>2. m.fences \subseteq Attempts
    BY <2>1, <1>6, OrderTypes
  <2>. QED BY <2>2, <1>6, <1>2, OrdersFrom
<1>. QED BY <1>3, <1>4, <1>5, <1>6, OrdersFrom

-----------------------------------------------------------------------------
(* New frames.                                                              *)

(* Frames of a set are put behind those of a worker, and nothing else.      *)
Grew(w, new) ==
  /\ \A v \in Workers : \A n \in DOMAIN toController[v] :
       n \in DOMAIN toController'[v] /\ toController'[v][n] = toController[v][n]
  /\ \A v \in Workers : \A n \in DOMAIN toController'[v] \ DOMAIN toController[v] :
       v = w /\ Attached(w) /\ toController'[v][n] \in new

(* What is sent is all that is new on its way.                              *)
LEMMA Grows ==
  ASSUME Typed, NEW w \in Workers, NEW x \in Frames, NEW y \in Frames
  PROVE  /\ Sent(w, <<x>>) => Grew(w, {x})
         /\ Sent(w, <<x, y>>) => Grew(w, {x, y})
<1>1. ASSUME Sent(w, <<x>>) PROVE Grew(w, {x})
  BY <1>1, SentOne DEF Grew
<1>2. ASSUME Sent(w, <<x, y>>) PROVE Grew(w, {x, y})
  BY <1>2, SentTwo DEF Grew
<1>. QED BY <1>1, <1>2

(* Why a worker sends a frame when it handles one,                          *)
Replies(w, x) ==
  LET m == toWorker[w][1]
  IN  \/ \E a \in Attempts : Starts(m, a) /\ x.type = "ack" /\ x.attempt = a
      \/ \E a \in Attempts :
           /\ Starts(m, a) /\ x.type = "evidence" /\ x.attempt = a
           /\ \E h \in Holders(w, Key[a]) : effect[h] \in Finished /\ x.outcome = effect[h]
      \/ \E a \in Attempts :
           /\ Stops(m, a) /\ effect[a] # "none"
           /\ x.type = "evidence" /\ x.attempt = a /\ x.outcome = "stopped"
      \/ \E a \in Attempts :
           /\ Stops(m, a) /\ x.type = "cancel_ack" /\ x.attempt = a
           /\ x.stopped => effect[a] \in Running
      \/ m.type = "reconcile" /\ x = AnswerTo(m)

(* and when it takes up a result.                                           *)
Announces(w, x) ==
  LET c == completions[w][1]
  IN  /\ Publishes(c.attempt, c.how) /\ x.type = "evidence" /\ x.outcome = c.how
      /\ \/ x.attempt = c.attempt
         \/ x.attempt = deferred[c.attempt] /\ x.attempt \in Attempts

LEMMA ReactionGrows ==
  ASSUME Typed, NEW w \in Workers, WorkerHandlesFrame(w)
  PROVE  \E new \in SUBSET Frames : Grew(w, new) /\ \A x \in new : Replies(w, x)
<1> DEFINE Goal == \E new \in SUBSET Frames : Grew(w, new) /\ \A x \in new : Replies(w, x)
<1>1. toWorker[w][1] \in Orders
  BY Reaction, Zenon
<1> DEFINE m == toWorker[w][1]
<1>2. ASSUME NEW x \in Frames, Replies(w, x), Sent(w, <<x>>) PROVE Goal
  <2>1. Grew(w, {x})
    BY <1>2, Grows, Zenon
  <2>. QED BY <2>1, <1>2
<1>3. ASSUME NEW x \in Frames, NEW y \in Frames, Replies(w, x), Replies(w, y), Sent(w, <<x, y>>)
      PROVE Goal
  <2>1. Grew(w, {x, y})
    BY <1>3, Grows, Zenon
  <2>. QED BY <2>1, <1>3
<1> HIDE DEF Goal
<1>4. ASSUME NEW a \in Attempts, NEW o \in {"accepted", "duplicate", "throttled"}, Starts(m, a)
      PROVE  DispatchAck(a, o) \in Frames /\ Replies(w, DispatchAck(a, o))
  <2>1. DispatchAck(a, o).type = "ack" /\ DispatchAck(a, o).attempt = a
    BY DEF DispatchAck
  <2>. QED BY <2>1, <1>4, FramesMade DEF Replies
<1>5. ASSUME NEW a \in Attempts, Starts(m, a), NEW h \in Holders(w, Key[a]), effect[h] \in Finished
      PROVE  Evidence(a, effect[h]) \in Frames /\ Replies(w, Evidence(a, effect[h]))
  <2>1. /\ Evidence(a, effect[h]).type = "evidence" /\ Evidence(a, effect[h]).attempt = a
        /\ Evidence(a, effect[h]).outcome = effect[h] /\ effect[h] \in Outcomes
    BY <1>5 DEF Evidence, Finished, Outcomes
  <2>. QED BY <2>1, <1>5, FramesMade DEF Replies
<1>6. ASSUME NEW a \in Attempts, Starts(m, a), Duplicate(w, a) PROVE Goal
  <2>1. PICK h \in Holders(w, Key[a]) :
          \/ effect[h] \in Finished /\ Sent(w, <<Evidence(a, effect[h]), DispatchAck(a, "duplicate")>>)
          \/ Sent(w, <<DispatchAck(a, "duplicate")>>)
    BY <1>6, Duplicates, Zenon
  <2>2. DispatchAck(a, "duplicate") \in Frames /\ Replies(w, DispatchAck(a, "duplicate"))
    BY <1>4, <1>6
  <2>3. CASE Sent(w, <<DispatchAck(a, "duplicate")>>)
    BY <2>2, <2>3, <1>2, Zenon
  <2>4. CASE effect[h] \in Finished /\ Sent(w, <<Evidence(a, effect[h]), DispatchAck(a, "duplicate")>>)
    <3>1. Evidence(a, effect[h]) \in Frames /\ Replies(w, Evidence(a, effect[h]))
      BY <2>4, <1>5, <1>6, Zenon
    <3>. QED BY <3>1, <2>2, <2>4, <1>3, Zenon
  <2>. QED BY <2>1, <2>3, <2>4, Zenon
<1>7. ASSUME NEW a \in Attempts, Starts(m, a), Throttle(w, a) PROVE Goal
  <2>1. Sent(w, <<DispatchAck(a, "throttled")>>)
    BY <1>7, Throttles, Zenon
  <2>2. DispatchAck(a, "throttled") \in Frames /\ Replies(w, DispatchAck(a, "throttled"))
    BY <1>4, <1>7
  <2>. QED BY <2>1, <2>2, <1>2, Zenon
<1>8. ASSUME NEW a \in Attempts, Starts(m, a), Accept(w, a) PROVE Goal
  <2>1. Sent(w, <<DispatchAck(a, "accepted")>>)
    BY <1>8, Accepts, Zenon
  <2>2. DispatchAck(a, "accepted") \in Frames /\ Replies(w, DispatchAck(a, "accepted"))
    BY <1>4, <1>8
  <2>. QED BY <2>1, <2>2, <1>2, Zenon
<1>9. ASSUME NEW a \in Attempts, Stops(m, a), HandleCancel(w, a) PROVE Goal
  <2>1. /\ CancelAck(a, FALSE) \in Frames /\ Replies(w, CancelAck(a, FALSE))
        /\ CancelAck(a, TRUE) \in Frames
        /\ effect[a] \in Running => Replies(w, CancelAck(a, TRUE))
    <3>1. \A b \in BOOLEAN : /\ CancelAck(a, b).type = "cancel_ack" /\ CancelAck(a, b).attempt = a
                             /\ CancelAck(a, b).stopped = b
      BY DEF CancelAck
    <3>. QED BY <3>1, <1>9, FramesMade DEF Replies
  <2>2. /\ Evidence(a, "stopped") \in Frames
        /\ effect[a] # "none" => Replies(w, Evidence(a, "stopped"))
    <3>1. /\ Evidence(a, "stopped").type = "evidence" /\ Evidence(a, "stopped").attempt = a
          /\ Evidence(a, "stopped").outcome = "stopped" /\ "stopped" \in Outcomes
      BY DEF Evidence, Outcomes
    <3>. QED BY <3>1, <1>9, FramesMade DEF Replies
  <2>3. "none" \notin Running
    BY DEF Running
  <2>4. CASE Sent(w, <<CancelAck(a, FALSE)>>)
    BY <2>1, <2>4, <1>2, Zenon
  <2>5. CASE effect[a] \in Running /\ Sent(w, <<Evidence(a, "stopped"), CancelAck(a, TRUE)>>)
    BY <2>1, <2>2, <2>3, <2>5, <1>3, Zenon
  <2>6. CASE effect[a] # "none" /\ Sent(w, <<Evidence(a, "stopped"), CancelAck(a, FALSE)>>)
    BY <2>1, <2>2, <2>6, <1>3, Zenon
  <2>7. \/ Sent(w, <<CancelAck(a, FALSE)>>)
        \/ effect[a] \in Running /\ Sent(w, <<Evidence(a, "stopped"), CancelAck(a, TRUE)>>)
        \/ /\ effect[a] \notin Running \cup {"none"}
           /\ Sent(w, <<Evidence(a, "stopped"), CancelAck(a, FALSE)>>)
    BY <1>9, Cancels, Zenon
  <2>. QED BY <2>4, <2>5, <2>6, <2>7
<1>10. ASSUME m.type = "reconcile", HandleReconcile(w, m) PROVE Goal
  <2>1. AnswerTo(m) \in Frames /\ Sent(w, <<AnswerTo(m)>>)
    BY <1>10, <1>1, Answers, Zenon
  <2>2. Replies(w, AnswerTo(m))
    BY <1>10 DEF Replies
  <2>. QED BY <2>1, <2>2, <1>2, Zenon
<1>11. Goal
  <2>1. \/ \E a \in Attempts : Starts(m, a) /\ Duplicate(w, a)
        \/ \E a \in Attempts : Starts(m, a) /\ Throttle(w, a)
        \/ \E a \in Attempts : Starts(m, a) /\ Accept(w, a)
        \/ \E a \in Attempts : Stops(m, a) /\ HandleCancel(w, a)
        \/ m.type = "reconcile" /\ HandleReconcile(w, m)
    BY Reaction, Zenon
  <2>. QED BY <2>1, <1>6, <1>7, <1>8, <1>9, <1>10, Zenon
<1>. QED BY <1>11, Zenon DEF Goal

LEMMA DrainGrows ==
  ASSUME Typed, NEW w \in Workers, DrainCompletion(w)
  PROVE  \E new \in SUBSET Frames : Grew(w, new) /\ \A x \in new : Announces(w, x)
<1> DEFINE Goal == \E new \in SUBSET Frames : Grew(w, new) /\ \A x \in new : Announces(w, x)
           c == completions[w][1]
           a == c.attempt
<1>1. c \in Completions
  BY Drains, Zenon
<1>2. a \in Attempts /\ c.how \in Outcomes
  BY <1>1 DEF Completions
<1>3. \/ UNCHANGED toController
      \/ Publishes(a, c.how) /\ Sent(w, <<Evidence(a, c.how)>>)
      \/ /\ Publishes(a, c.how) /\ deferred[a] \in Attempts
         /\ Sent(w, <<Evidence(a, c.how), Evidence(deferred[a], c.how)>>)
  BY Drains, Zenon
<1>4. \A b \in Attempts : /\ Evidence(b, c.how) \in Frames /\ Evidence(b, c.how).type = "evidence"
                          /\ Evidence(b, c.how).attempt = b /\ Evidence(b, c.how).outcome = c.how
  BY <1>2, FramesMade DEF Evidence
<1>5. /\ Evidence(a, c.how) \in Frames
      /\ Publishes(a, c.how) => Announces(w, Evidence(a, c.how))
  BY <1>2, <1>4 DEF Announces
<1>6. CASE UNCHANGED toController
  <2>1. Grew(w, {})
    BY <1>6 DEF Grew
  <2>. QED BY <2>1
<1>7. CASE Publishes(a, c.how) /\ Sent(w, <<Evidence(a, c.how)>>)
  <2>1. Grew(w, {Evidence(a, c.how)})
    BY <1>7, <1>5, Grows, Zenon
  <2>. QED BY <2>1, <1>5, <1>7
<1>8. CASE /\ Publishes(a, c.how) /\ deferred[a] \in Attempts
           /\ Sent(w, <<Evidence(a, c.how), Evidence(deferred[a], c.how)>>)
  <2>1. /\ Evidence(deferred[a], c.how) \in Frames
        /\ Announces(w, Evidence(deferred[a], c.how))
    BY <1>4, <1>8 DEF Announces
  <2>2. Grew(w, {Evidence(a, c.how), Evidence(deferred[a], c.how)})
    BY <1>5, <1>8, <2>1, Grows, Zenon
  <2>. QED BY <2>1, <2>2, <1>5, <1>8
<1>. QED BY <1>3, <1>6, <1>7, <1>8
(* Every frame on its way to the adapter was there, or is new.              *)
LEMMA FramesFrom ==
  ASSUME Typed, Wires, Next
  PROVE  \A v \in Workers : \A n \in DOMAIN toController'[v] :
           \/ \E k \in DOMAIN toController[v] : toController'[v][n] = toController[v][k]
           \/ toController'[v][n].type = "hello"
           \/ WorkerHandlesFrame(v) /\ Replies(v, toController'[v][n])
           \/ DrainCompletion(v) /\ Announces(v, toController'[v][n])
<1> DEFINE From(v, n) == \E k \in DOMAIN toController[v] : toController'[v][n] = toController[v][k]
           New1(v, n) == \/ WorkerHandlesFrame(v) /\ Replies(v, toController'[v][n])
                         \/ DrainCompletion(v) /\ Announces(v, toController'[v][n])
           Hello(v, n) == toController'[v][n].type = "hello"
           Goal == \A v \in Workers : \A n \in DOMAIN toController'[v] :
                     From(v, n) \/ Hello(v, n) \/ New1(v, n)
<1>1. ASSUME NEW w \in Workers, NEW new, Grew(w, new),
             \/ WorkerHandlesFrame(w) /\ \A x \in new : Replies(w, x)
             \/ DrainCompletion(w) /\ \A x \in new : Announces(w, x)
      PROVE  Goal
  <2> SUFFICES ASSUME NEW v \in Workers, NEW n \in DOMAIN toController'[v]
               PROVE  From(v, n) \/ New1(v, n)
    OBVIOUS
  <2>1. CASE n \in DOMAIN toController[v]
    BY <2>1, <1>1 DEF Grew
  <2>2. CASE n \notin DOMAIN toController[v]
    <3>1. v = w /\ toController'[v][n] \in new
      BY <2>2, <1>1 DEF Grew
    <3> HIDE DEF From
    <3>. QED BY <3>1, <1>1
  <2>. QED BY <2>1, <2>2
<1>2. ASSUME UNCHANGED toController PROVE Goal
  BY <1>2
<1>3. ASSUME NEW w \in Workers, WorkerDies(w) PROVE Goal
  <2>1. \A v \in Workers : \A n \in DOMAIN toController'[v] :
          n \in DOMAIN toController[v] /\ toController'[v][n] = toController[v][n]
    <3> HIDE DEF Goal
    <3>. QED BY <1>3, Dies
  <2>. QED BY <2>1
<1>4. ASSUME NEW i \in DOMAIN connections, HandleFrame(i) PROVE Goal
  <2>1. \E w \in Workers :
              /\ \A v \in Workers \ {w} : toController'[v] = toController[v]
              /\ \A n \in DOMAIN toController'[w] :
                   /\ n + 1 \in DOMAIN toController[w]
                   /\ toController'[w][n] = toController[w][n + 1]
    <3> HIDE DEF Goal
    <3>. QED BY <1>4, Received
  <2>. QED BY <2>1
<1>5. ASSUME NEW i \in DOMAIN connections, Drop(i) PROVE Goal
  <2>1. \E w \in Workers : /\ DOMAIN toController'[w] = {}
                           /\ \A v \in Workers \ {w} : toController'[v] = toController[v]
    <3> HIDE DEF Goal
    <3>. QED BY <1>5, DropLoses
  <2>. QED BY <2>1
<1>6. ASSUME NEW w \in Workers, Attach(w) PROVE Goal
  <2>1. /\ \A v \in Workers \ {w} : toController'[v] = toController[v]
        /\ DOMAIN toController'[w] = {1} /\ toController'[w][1] = [type |-> "hello"]
    <3> HIDE DEF Goal
    <3>. QED BY <1>6, Attaches
  <2>2. ASSUME NEW n \in DOMAIN toController'[w] PROVE Hello(w, n)
    BY <2>1
  <2>3. ASSUME NEW v \in Workers \ {w}, NEW n \in DOMAIN toController'[v] PROVE From(v, n)
    BY <2>1
  <2> HIDE DEF From, Hello, New1
  <2>. QED BY <2>2, <2>3
<1> HIDE DEF Goal
<1>7. ASSUME NEW w \in Workers, WorkerHandlesFrame(w) PROVE Goal
  BY <1>1, <1>7, ReactionGrows, Zenon
<1>8. ASSUME NEW w \in Workers, DrainCompletion(w) PROVE Goal
  BY <1>1, <1>8, DrainGrows, Zenon
<1>9. ASSUME NEW a \in Attempts, Dispatch(a) PROVE Goal
  BY <1>2, <1>9 DEF Dispatch
<1>10. ASSUME NEW a \in Attempts, Cancel(a) PROVE Goal
  BY <1>2, <1>10 DEF Cancel
<1>11. ASSUME NEW a \in Attempts, EffectEnds(a) PROVE Goal
  BY <1>2, <1>11 DEF EffectEnds
<1>12. ASSUME Reconcile PROVE Goal
  BY <1>2, <1>12 DEF Reconcile
<1>13. ASSUME ReconcileReturns PROVE Goal
  BY <1>2, <1>13 DEF ReconcileReturns
<1>14. Goal
  BY <1>3, <1>4, <1>5, <1>6, <1>7, <1>8, <1>9, <1>10, <1>11, <1>12, <1>13 DEF Next
<1>. QED BY <1>14, Zenon DEF Goal

-----------------------------------------------------------------------------
(* Whose frames, entries and results are.                                   *)

(* What a worker replies or announces is about attempts it carries.         *)
LEMMA TheirsAreKept ==
  ASSUME Typed, Wires, Addressed, Deferred, Next
  PROVE  \A v \in Workers : \A n \in DOMAIN toController'[v] : Theirs(v, toController[v][n])'
<1> SUFFICES ASSUME NEW v \in Workers, NEW n \in DOMAIN toController'[v]
             PROVE  Theirs(v, toController[v][n])'
  OBVIOUS
<1> DEFINE m == toController'[v][n]
<1>1. \A a \in Attempts : carrier[a] = v => carrier'[a] = v
  BY OrdersFrom, PlaneAssumption
<1>2. asked \subseteq asked' /\ asked \subseteq Attempts
  BY OrdersFrom DEF Typed, TypeOK, Issued
<1>3. SUFFICES /\ m.type \in {"ack", "evidence", "cancel_ack"} =>
                     m.attempt \in Attempts /\ carrier[m.attempt] = v
               /\ m.type = "evidence" /\ m.outcome = "stopped" => m.attempt \in asked
               /\ m.type = "answer" =>
                     \A a \in DOMAIN m.entries : a \in Attempts /\ carrier[a] = v
  BY <1>1, <1>2 DEF Theirs
<1>4. CASE \E k \in DOMAIN toController[v] : m = toController[v][k]
  <2>1. PICK k \in DOMAIN toController[v] : m = toController[v][k]
    BY <1>4
  <2>2. toController[v][k] \in Frames /\ Theirs(v, toController[v][k])
    BY DEF Typed, Addressed
  <2>. QED BY <2>1, <2>2, FrameTypes DEF Theirs
<1>5. CASE m.type = "hello"
  BY <1>5
<1>6. CASE WorkerHandlesFrame(v) /\ Replies(v, m)
  <2> DEFINE o == toWorker[v][1]
  <2>1. o \in Orders /\ Ours(v, o)
    <3>1. o \in Orders /\ 1 \in DOMAIN toWorker[v]
      BY <1>6, Reaction, Zenon
    <3>. QED BY <3>1 DEF Addressed
  <2> HIDE DEF m
  <2>2. CASE \E a \in Attempts : /\ Starts(o, a)
                                 /\ m.type = "ack" \/ (m.type = "evidence" /\ m.outcome \in Finished)
                                 /\ m.attempt = a
    BY <2>1, <2>2 DEF Starts, Ours, Finished
  <2>3. CASE \E a \in Attempts : /\ Stops(o, a)
                                 /\ m.type = "evidence" \/ m.type = "cancel_ack"
                                 /\ m.attempt = a
    BY <2>1, <2>3 DEF Stops, Ours
  <2>4. CASE o.type = "reconcile" /\ m = AnswerTo(o)
    <3>1. m.type = "answer" /\ DOMAIN m.entries = o.fences
      BY <2>4 DEF AnswerTo
    <3>. QED BY <3>1, <2>1, <2>4, OrderTypes DEF Ours
  <2>. QED BY <1>6, <2>2, <2>3, <2>4 DEF Replies
<1>7. CASE DrainCompletion(v) /\ Announces(v, m)
  <2> DEFINE c == completions[v][1]
  <2>1. 1 \in DOMAIN completions[v] /\ c \in Completions
    BY <1>7, Drained
  <2>2. c.attempt \in Attempts /\ carrier[c.attempt] = v
    BY <2>1 DEF Addressed, Completions
  <2>3. m.type = "evidence" /\ m.outcome # "stopped"
    BY <1>7 DEF Announces, Publishes
  <2>4. m.attempt \in Attempts /\ (m.attempt = c.attempt \/ m.attempt = deferred[c.attempt])
    BY <1>7, <2>2 DEF Announces
  <2> HIDE DEF m, c
  <2>5. carrier[m.attempt] = v
    BY <2>2, <2>4, PlaneAssumption DEF Deferred
  <2>. QED BY <2>3, <2>4, <2>5
<1>. QED BY <1>4, <1>5, <1>6, <1>7, FramesFrom
-----------------------------------------------------------------------------
(* What changes at the workers.                                             *)

(* Who changes the ledgers.                                                 *)
LEMMA LedgersStay ==
  ASSUME Next
  PROVE  \/ UNCHANGED <<effect, deferred, order, working, completions, performed, evicted>>
         \/ \E w \in Workers : WorkerHandlesFrame(w)
         \/ \E w \in Workers : DrainCompletion(w)
         \/ \E w \in Workers : WorkerDies(w)
         \/ \E a \in Attempts : EffectEnds(a)
<1> DEFINE Still == UNCHANGED <<effect, deferred, order, working, completions, performed, evicted>>
<1>1. ASSUME NEW a \in Attempts, Dispatch(a) PROVE Still
  BY <1>1 DEF Dispatch, workerVars
<1>2. ASSUME NEW a \in Attempts, Cancel(a) PROVE Still
  BY <1>2 DEF Cancel, workerVars
<1>3. ASSUME Reconcile PROVE Still
  BY <1>3 DEF Reconcile, workerVars
<1>4. ASSUME ReconcileReturns PROVE Still
  BY <1>4 DEF ReconcileReturns, workerVars
<1>5. ASSUME NEW i \in DOMAIN connections, HandleFrame(i) PROVE Still
  BY <1>5 DEF HandleFrame, workerVars
<1>6. ASSUME NEW i \in DOMAIN connections, Drop(i) PROVE Still
  BY <1>6 DEF Drop, workerVars
<1>7. ASSUME NEW w \in Workers, Attach(w) PROVE Still
  BY <1>7 DEF Attach
<1> HIDE DEF Still
<1>8. \/ Still
      \/ \E w \in Workers : WorkerHandlesFrame(w)
      \/ \E w \in Workers : DrainCompletion(w)
      \/ \E w \in Workers : WorkerDies(w)
      \/ \E a \in Attempts : EffectEnds(a)
  BY <1>1, <1>2, <1>3, <1>4, <1>5, <1>6, <1>7 DEF Next
<1>. QED BY <1>8 DEF Still

(* A worker takes an attempt up, with the room made for it;                 *)
Accepting(w, a) ==
  /\ WorkerHandlesFrame(w) /\ Starts(toWorker[w][1], a) /\ ~Knows(w, a) /\ Accept(w, a)
(* a retry of a key whose effect is at work waits for its outcome.          *)
Deferring(w, a, h) ==
  /\ WorkerHandlesFrame(w) /\ Starts(toWorker[w][1], a) /\ h \in Holders(w, Key[a])
  /\ effect[h] \notin Finished /\ deferred' = [deferred EXCEPT ![h] = a]
  /\ UNCHANGED <<effect, order, working, evicted>>
Stopping(w, a) ==
  /\ WorkerHandlesFrame(w) /\ Stops(toWorker[w][1], a) /\ effect[a] \in Running
  /\ effect' = [effect EXCEPT ![a] = "stopping"]
  /\ UNCHANGED <<deferred, order, working, evicted>>

(* How a frame changes the ledger of the worker that handles it.            *)
LEMMA ReactionChanges ==
  ASSUME Typed, NEW w \in Workers, WorkerHandlesFrame(w)
  PROVE  /\ UNCHANGED <<adapterVars, life, completions, performed, askVars>>
         /\ \/ UNCHANGED <<effect, deferred, order, working, evicted>>
            \/ \E a \in Attempts : Accepting(w, a)
            \/ \E a \in Attempts, h \in Attempts : Deferring(w, a, h)
            \/ \E a \in Attempts : Stopping(w, a)
<1> DEFINE m == toWorker[w][1]
           Still == UNCHANGED <<effect, deferred, order, working, evicted>>
           Goal == \/ Still
                   \/ \E a \in Attempts : Accepting(w, a)
                   \/ \E a \in Attempts, h \in Attempts : Deferring(w, a, h)
                   \/ \E a \in Attempts : Stopping(w, a)
<1>1. ASSUME NEW a \in Attempts, Starts(m, a), Duplicate(w, a) PROVE Goal
  <2>1. UNCHANGED <<effect, order, working, evicted>>
    BY <1>1, Duplicates, Zenon
  <2>2. PICK h \in Holders(w, Key[a]) :
          \/ UNCHANGED deferred
          \/ effect[h] \notin Finished /\ deferred' = [deferred EXCEPT ![h] = a]
    BY <1>1, Duplicates, Zenon
  <2>3. h \in Attempts
    BY DEF Holders
  <2>. QED BY <1>1, <2>1, <2>2, <2>3 DEF Deferring
<1>2. ASSUME NEW a \in Attempts, Throttle(w, a) PROVE Goal
  BY <1>2, Throttles, Zenon
<1>3. ASSUME NEW a \in Attempts, Starts(m, a), ~Knows(w, a), Accept(w, a) PROVE Goal
  BY <1>3 DEF Accepting
<1>4. ASSUME NEW a \in Attempts, Stops(m, a), HandleCancel(w, a) PROVE Goal
  <2>1. /\ UNCHANGED <<deferred, order, working, evicted>>
        /\ \/ UNCHANGED effect
           \/ effect[a] \in Running /\ effect' = [effect EXCEPT ![a] = "stopping"]
    BY <1>4, Cancels, Zenon
  <2>. QED BY <2>1, <1>4 DEF Stopping
<1>5. ASSUME m.type = "reconcile", HandleReconcile(w, m) PROVE Goal
  <2>1. m \in Orders
    BY Reaction, Zenon
  <2>2. Still
    BY <2>1, <1>5, Answers, Zenon
  <2>. QED BY <2>2
<1> HIDE DEF Goal
<1>6. Goal
  <2>1. \/ \E a \in Attempts : Starts(m, a) /\ Duplicate(w, a)
        \/ \E a \in Attempts : Throttle(w, a)
        \/ \E a \in Attempts : Starts(m, a) /\ ~Knows(w, a) /\ Accept(w, a)
        \/ \E a \in Attempts : Stops(m, a) /\ HandleCancel(w, a)
        \/ m.type = "reconcile" /\ HandleReconcile(w, m)
    BY Reaction, Zenon
  <2>. QED BY <2>1, <1>1, <1>2, <1>3, <1>4, <1>5, Zenon
<1>7. UNCHANGED <<adapterVars, life, completions, performed, askVars>>
  BY Reaction, Zenon
<1>. QED BY <1>6, <1>7 DEF Goal

(* What a step makes of an entry.                                           *)
LEMMA EffectsFrom ==
  ASSUME Typed, Addressed, Next, NEW b \in Attempts
  PROVE  \/ effect'[b] = effect[b]
         \/ effect'[b] = "running" /\ \E w \in Workers : Accepting(w, b)
         \/ effect'[b] = "none" /\ carrier[b] \in Workers /\ WorkerDies(carrier[b])
         \/ /\ effect'[b] = "none"
            /\ \E w \in Workers, a \in Attempts : Accepting(w, a) /\ b \in Victims(w) /\ a # b
         \/ effect'[b] = "stopping" /\ \E w \in Workers : Stopping(w, b)
         \/ /\ effect'[b] \in {"stopped", "completed", "failed"}
            /\ \E w \in Workers : DrainCompletion(w) /\ completions[w][1].attempt = b
               /\ IF Publishes(b, completions[w][1].how) THEN effect'[b] = completions[w][1].how
                  ELSE effect'[b] = "stopped"
<1> DEFINE Goal == \/ effect'[b] = effect[b]
                   \/ effect'[b] = "running" /\ \E w \in Workers : Accepting(w, b)
                   \/ effect'[b] = "none" /\ carrier[b] \in Workers /\ WorkerDies(carrier[b])
                   \/ /\ effect'[b] = "none"
                      /\ \E w \in Workers, a \in Attempts :
                           Accepting(w, a) /\ b \in Victims(w) /\ a # b
                   \/ effect'[b] = "stopping" /\ \E w \in Workers : Stopping(w, b)
                   \/ /\ effect'[b] \in {"stopped", "completed", "failed"}
                      /\ \E w \in Workers : DrainCompletion(w) /\ completions[w][1].attempt = b
                         /\ IF Publishes(b, completions[w][1].how)
                            THEN effect'[b] = completions[w][1].how ELSE effect'[b] = "stopped"
<1>0. effect \in [Attempts -> EffectStates]
  BY DEF Typed, TypeOK
<1>1. ASSUME NEW w \in Workers, NEW a \in Attempts, Accepting(w, a) PROVE Goal
  <2>1. effect'[b] = IF b = a THEN "running" ELSE IF b \in Victims(w) THEN "none" ELSE effect[b]
    <3>1. Accept(w, a)
      BY <1>1 DEF Accepting
    <3>. QED BY <3>1, Accepts, Zenon
  <2>. QED BY <2>1, <1>1
<1>2. ASSUME NEW w \in Workers, NEW a \in Attempts, Stopping(w, a) PROVE Goal
  <2>1. effect' = [effect EXCEPT ![a] = "stopping"]
    BY <1>2 DEF Stopping
  <2>. QED BY <2>1, <1>0, <1>2
<1>3. ASSUME NEW w \in Workers, WorkerHandlesFrame(w) PROVE Goal
  <2>1. \/ effect' = effect
        \/ \E a \in Attempts : Accepting(w, a)
        \/ \E a \in Attempts : Stopping(w, a)
    <3> HIDE DEF Goal
    <3>1. ASSUME NEW a \in Attempts, NEW h \in Attempts, Deferring(w, a, h) PROVE effect' = effect
      BY <3>1 DEF Deferring
    <3>2. \/ effect' = effect
          \/ \E a \in Attempts : Accepting(w, a)
          \/ \E a \in Attempts, h \in Attempts : Deferring(w, a, h)
          \/ \E a \in Attempts : Stopping(w, a)
      BY <1>3, ReactionChanges
    <3>. QED BY <3>1, <3>2
  <2>2. CASE effect' = effect
    BY <2>2
  <2>. QED BY <2>1, <2>2, <1>1, <1>2, Zenon
<1>4. ASSUME NEW w \in Workers, DrainCompletion(w) PROVE Goal
  <2> DEFINE c == completions[w][1]
  <2>1. PICK x \in Completions : x = c
    BY <1>4, Drained
  <2>2. \/ Publishes(x.attempt, x.how) /\ effect' = [effect EXCEPT ![x.attempt] = x.how]
        \/ ~Publishes(x.attempt, x.how) /\ effect' = [effect EXCEPT ![x.attempt] = "stopped"]
    BY <1>4, <2>1, Drains, Zenon
  <2>3. x.attempt \in Attempts /\ x.how \in Outcomes
    BY DEF Completions
  <2>4. CASE x.attempt = b
    <3>1. Publishes(x.attempt, x.how) => x.how \in {"completed", "failed"}
      BY <2>3 DEF Publishes, Outcomes
    <3>2. IF Publishes(b, x.how) THEN effect'[b] = x.how ELSE effect'[b] = "stopped"
      BY <2>2, <2>4, <1>0
    <3>. QED BY <3>1, <3>2, <2>1, <2>4, <1>4
  <2>5. CASE x.attempt # b
    BY <2>2, <2>3, <2>5, <1>0
  <2>. QED BY <2>4, <2>5
<1>5. ASSUME NEW w \in Workers, WorkerDies(w) PROVE Goal
  <2>1. effect'[b] = IF carrier[b] = w THEN "none" ELSE effect[b]
    <3> HIDE DEF Goal
    <3>. QED BY <1>5, Dies
  <2>. QED BY <2>1, <1>5
<1>6. ASSUME UNCHANGED effect PROVE Goal
  BY <1>6
<1> HIDE DEF Goal
<1>7. ASSUME NEW a \in Attempts, EffectEnds(a) PROVE Goal
  BY <1>6, <1>7 DEF EffectEnds
<1>8. Goal
  BY <1>3, <1>4, <1>5, <1>6, <1>7, LedgersStay
<1>. QED BY <1>8 DEF Goal

(* A result was left before, or a thread left it now.                       *)
LEMMA ResultsFrom ==
  ASSUME Typed, Next
  PROVE  \A v \in Workers : \A n \in DOMAIN completions'[v] :
           \/ \E k \in DOMAIN completions[v] : completions'[v][n] = completions[v][k]
           \/ \E a \in Attempts : EffectEnds(a) /\ completions'[v][n].attempt = a /\ carrier[a] = v
<1> DEFINE From(v, n) == \E k \in DOMAIN completions[v] : completions'[v][n] = completions[v][k]
           Left(v, n) == \E a \in Attempts : EffectEnds(a) /\ completions'[v][n].attempt = a
                                             /\ carrier[a] = v
           Goal == \A v \in Workers : \A n \in DOMAIN completions'[v] : From(v, n) \/ Left(v, n)
<1>1. ASSUME NEW w \in Workers, WorkerHandlesFrame(w) PROVE Goal
  <2>1. UNCHANGED completions
    <3> HIDE DEF Goal
    <3>. QED BY <1>1, ReactionChanges
  <2>. QED BY <2>1
<1>2. ASSUME NEW w \in Workers, DrainCompletion(w) PROVE Goal
  BY <1>2, Drained
<1>3. ASSUME NEW w \in Workers, WorkerDies(w) PROVE Goal
  BY <1>3, Dies
<1>4. ASSUME NEW a \in Attempts, EffectEnds(a) PROVE Goal
  <2>1. /\ \A v \in Workers : \A n \in DOMAIN completions[v] : completions'[v][n] = completions[v][n]
        /\ \A v \in Workers : \A n \in DOMAIN completions'[v] \ DOMAIN completions[v] :
             v = carrier[a] /\ completions'[v][n].attempt = a
    <3> HIDE DEF Goal
    <3>1. PICK how \in Outcomes :
            /\ \A v \in Workers : \A n \in DOMAIN completions[v] :
                 n \in DOMAIN completions'[v] /\ completions'[v][n] = completions[v][n]
            /\ \A v \in Workers : \A n \in DOMAIN completions'[v] \ DOMAIN completions[v] :
                 /\ v = carrier[a] /\ n = Len(completions[v]) + 1
                 /\ completions'[v][n] = [attempt |-> a, how |-> how]
      BY <1>4, Ended
    <3>. QED BY <3>1
  <2> SUFFICES ASSUME NEW v \in Workers, NEW n \in DOMAIN completions'[v]
               PROVE  From(v, n) \/ Left(v, n)
    OBVIOUS
  <2>2. CASE n \in DOMAIN completions[v]
    BY <2>1, <2>2
  <2>3. CASE n \notin DOMAIN completions[v]
    BY <2>1, <2>3, <1>4
  <2>. QED BY <2>2, <2>3
<1>5. ASSUME UNCHANGED completions PROVE Goal
  BY <1>5
<1> HIDE DEF Goal
<1>6. Goal
  BY <1>1, <1>2, <1>3, <1>4, <1>5, LedgersStay
<1>. QED BY <1>6 DEF Goal
-----------------------------------------------------------------------------
(* Entries.                                                                 *)

(* What waits in a worker's queue in front was never seen by a worker.      *)
LEMMA StartsUntouched ==
  ASSUME Typed, Addressed, Fresh, NEW w \in Workers, WorkerHandlesFrame(w), NEW a \in Attempts,
         Starts(toWorker[w][1], a)
  PROVE  New(a) /\ Untouched(a) /\ carrier[a] = w
<1>1. 1 \in DOMAIN toWorker[w]
  BY Reaction, Zenon
<1>2. New(a)
  BY <1>1 DEF New, Waiting
<1>3. carrier[a] = w
  BY <1>1 DEF Addressed, Ours, Starts
<1>. QED BY <1>2, <1>3 DEF Fresh

(* What room is made of was kept by the worker, and ended.                  *)
LEMMA VictimsEnded ==
  ASSUME Typed, Addressed, NEW w \in Workers, NEW b \in Victims(w)
  PROVE  b \in Attempts /\ carrier[b] = w /\ effect[b] \notin Running \cup {"none"}
<1>1. PICK i \in Room(w) : b = order[w][i]
  BY DEF Victims
<1>2. i \in DOMAIN order[w] /\ effect[b] \notin Running /\ b \in Attempts
  BY <1>1, KeptEntries DEF Room, Evictable, Idle
<1>. QED BY <1>1, <1>2 DEF Addressed

(* An entry is the one of an attempt the worker carries, and of no other.   *)
LEMMA EntriesAreKept ==
  ASSUME Typed, Wires, Addressed, Fresh, Next, NEW v \in Workers
  PROVE  /\ \A n \in DOMAIN order'[v] :
              order'[v][n] \in Attempts /\ carrier[order'[v][n]] = v /\ effect'[order'[v][n]] # "none"
         /\ IsInjective(order'[v])
<1> DEFINE Good(b) == b \in Attempts /\ carrier[b] = v /\ effect'[b] # "none"
           Goal == (\A n \in DOMAIN order'[v] : Good(order'[v][n])) /\ IsInjective(order'[v])
<1>0. /\ order[v] \in Seq(Attempts) /\ IsInjective(order[v])
      /\ \A n \in DOMAIN order[v] :
           order[v][n] \in Attempts /\ carrier[order[v][n]] = v /\ effect[order[v][n]] # "none"
  BY DEF Typed, TypeOK, Addressed
<1>1. ASSUME order'[v] = order[v],
             \A b \in Attempts : carrier[b] = v /\ effect[b] # "none" => effect'[b] # "none"
      PROVE  Goal
  BY <1>0, <1>1
<1>2. ASSUME NEW w \in Workers, NEW a \in Attempts, Accepting(w, a) PROVE Goal
  <2>1. /\ \A b \in Attempts : effect'[b] = IF b = a THEN "running"
                                            ELSE IF b \in Victims(w) THEN "none" ELSE effect[b]
        /\ Pushed(order'[w], Kept(w), <<a>>) /\ order' \in [Workers -> Seq(Attempts)]
        /\ \A u \in Workers \ {w} : order'[u] = order[u]
    <3>1. Accept(w, a)
      BY <1>2 DEF Accepting
    <3>. QED BY <3>1, Accepts, Zenon
  <2>2. Untouched(a) /\ carrier[a] = w
    BY <1>2, StartsUntouched DEF Accepting
  <2>3. CASE v # w
    <3>1. \A b \in Attempts : carrier[b] = v => b \notin Victims(w)
      BY <2>3, VictimsEnded
    <3>2. order'[v] = order[v]
      BY <2>1, <2>3
    <3>3. \A b \in Attempts : carrier[b] = v /\ effect[b] # "none" => effect'[b] # "none"
      BY <3>1, <2>1
    <3> HIDE DEF Goal
    <3>. QED BY <3>2, <3>3, <1>1
  <2>4. CASE v = w
    <3>1. /\ Kept(v) \in Seq(Attempts) /\ IsInjective(Kept(v))
          /\ \A n \in 1..Len(Kept(v)) :
               \E k \in 1..Len(order[v]) \ Room(v) : Kept(v)[n] = order[v][k]
      BY <1>0, KeptEntries
    <3>2. ASSUME NEW n \in 1..Len(Kept(v))
          PROVE  Good(Kept(v)[n]) /\ Kept(v)[n] # a
      <4>1. PICK k \in 1..Len(order[v]) \ Room(v) : Kept(v)[n] = order[v][k]
        BY <3>1
      <4>2. k \in DOMAIN order[v]
        BY <1>0
      <4>3. order[v][k] \notin Victims(v)
        <5>1. \A i \in Room(v) : i \in DOMAIN order[v]
          BY DEF Room, Evictable, Idle
        <5>. QED BY <5>1, <4>2, <1>0 DEF Victims, IsInjective
      <4>4. order[v][k] # a
        BY <4>2, <1>0, <2>2 DEF Untouched
      <4>5. PICK u : u = order[v][k]
        OBVIOUS
      <4>6. u \in Attempts /\ carrier[u] = v /\ effect[u] # "none"
        BY <4>2, <4>5, <1>0
      <4>7. effect'[u] = effect[u] /\ u # a
        BY <4>3, <4>4, <4>5, <4>6, <2>1, <2>4
      <4>. QED BY <4>1, <4>5, <4>6, <4>7
    <3> DEFINE q == order'[v]
               p == Kept(v)
    <3>3. q \in Seq(Attempts) /\ p \in Seq(Attempts) /\ Pushed(q, p, <<a>>)
      BY <2>1, <2>4, <3>1
    <3> HIDE DEF q, p
    <3>4. /\ DOMAIN q = 1..(Len(p) + 1) /\ Len(p) \in Nat /\ q[Len(p) + 1] = a
          /\ \A n \in 1..Len(p) : q[n] = p[n]
      BY <3>3 DEF Pushed
    <3>5. Good(a)
      BY <2>1, <2>2, <2>4
    <3>6. IsInjective(q)
      <4> SUFFICES ASSUME NEW i \in DOMAIN q, NEW j \in DOMAIN q, q[i] = q[j] PROVE i = j
        BY DEF IsInjective
      <4>1. \A n \in 1..Len(p) : p[n] # a
        BY <3>2 DEF p
      <4>2. \A n, k \in 1..Len(p) : p[n] = p[k] => n = k
        BY <3>1, <3>3 DEF p, IsInjective
      <4>. QED BY <3>4, <4>1, <4>2
    <3>7. ASSUME NEW n \in DOMAIN q PROVE Good(q[n])
      <4>1. CASE n \in 1..Len(p)
        BY <4>1, <3>2, <3>4 DEF p
      <4>2. CASE n = Len(p) + 1
        BY <4>2, <3>4, <3>5
      <4>. QED BY <3>4, <4>1, <4>2
    <3> HIDE DEF Good
    <3>. QED BY <3>6, <3>7 DEF q
  <2>. QED BY <2>3, <2>4
<1>3. ASSUME NEW w \in Workers, NEW a \in Attempts, Stopping(w, a) PROVE Goal
  <2>1. order' = order /\ effect' = [effect EXCEPT ![a] = "stopping"]
    BY <1>3 DEF Stopping
  <2>2. \A b \in Attempts : effect[b] # "none" => effect'[b] # "none"
    BY <2>1 DEF Typed, TypeOK
  <2> HIDE DEF Goal
  <2>. QED BY <2>1, <2>2, <1>1
<1>4. ASSUME NEW w \in Workers, DrainCompletion(w) PROVE Goal
  <2>1. order' = order
    BY <1>4 DEF DrainCompletion
  <2>2. PICK x \in Completions : x = completions[w][1]
    BY <1>4, Drained
  <2>3. \/ Publishes(x.attempt, x.how) /\ effect' = [effect EXCEPT ![x.attempt] = x.how]
        \/ effect' = [effect EXCEPT ![x.attempt] = "stopped"]
    BY <1>4, <2>2, Drains, Zenon
  <2>4. x.how # "none"
    BY DEF Completions, Outcomes
  <2>5. \A b \in Attempts : effect[b] # "none" => effect'[b] # "none"
    BY <2>3, <2>4 DEF Typed, TypeOK
  <2> HIDE DEF Goal
  <2>. QED BY <2>1, <2>5, <1>1
<1>5. ASSUME NEW w \in Workers, WorkerDies(w) PROVE Goal
  <2>1. /\ DOMAIN order'[w] = {} /\ \A u \in Workers \ {w} : order'[u] = order[u]
        /\ \A b \in Attempts : effect'[b] = IF carrier[b] = w THEN "none" ELSE effect[b]
    <3> HIDE DEF Goal
    <3>. QED BY <1>5, Dies
  <2>2. CASE v = w
    BY <2>1, <2>2 DEF IsInjective
  <2>3. CASE v # w
    <3>1. order'[v] = order[v]
      BY <2>1, <2>3
    <3>2. \A b \in Attempts : carrier[b] = v /\ effect[b] # "none" => effect'[b] # "none"
      BY <2>1, <2>3
    <3> HIDE DEF Goal
    <3>. QED BY <3>1, <3>2, <1>1
  <2>. QED BY <2>2, <2>3
<1> HIDE DEF Goal
<1>6. ASSUME UNCHANGED <<effect, order>> PROVE Goal
  BY <1>1, <1>6
<1>7. ASSUME NEW a \in Attempts, EffectEnds(a) PROVE Goal
  BY <1>6, <1>7 DEF EffectEnds
<1>8. ASSUME NEW w \in Workers, WorkerHandlesFrame(w) PROVE Goal
  <2>1. ASSUME NEW a \in Attempts, NEW h \in Attempts, Deferring(w, a, h) PROVE Goal
    BY <2>1, <1>6 DEF Deferring
  <2>2. \/ UNCHANGED <<effect, order>>
        \/ \E a \in Attempts : Accepting(w, a)
        \/ \E a \in Attempts, h \in Attempts : Deferring(w, a, h)
        \/ \E a \in Attempts : Stopping(w, a)
    BY <1>8, ReactionChanges
  <2>. QED BY <2>1, <2>2, <1>2, <1>3, <1>6, Zenon
<1>9. Goal
  BY <1>4, <1>5, <1>6, <1>7, <1>8, LedgersStay
<1>. QED BY <1>9 DEF Goal
(* What is told was sent by the worker that carries the attempt.            *)
LEMMA ReportsFrom ==
  ASSUME Typed, NEW i \in DOMAIN connections, HandleFrame(i)
  PROVE  LET w == connections[i]
             m == toController[w][1]
         IN  \A r \in reported' :
               \/ r \in reported
               \/ m.type = "evidence" /\ r = ReportOf(m.attempt, m.outcome)
               \/ /\ m.type = "answer" /\ r.attempt \in DOMAIN m.entries
                  /\ r.outcome = m.entries[r.attempt] /\ r.outcome \in Finished
<1> DEFINE w == connections[i]
           m == toController[w][1]
<1> SUFFICES ASSUME NEW r \in reported', r \notin reported
             PROVE  \/ m.type = "evidence" /\ r = ReportOf(m.attempt, m.outcome)
                    \/ /\ m.type = "answer" /\ r.attempt \in DOMAIN m.entries
                       /\ r.outcome = m.entries[r.attempt] /\ r.outcome \in Finished
  OBVIOUS
<1>1. \/ m.type = "hello" /\ HandleHello(i)
      \/ m.type = "ack" /\ HandleDispatchAck(i, m)
      \/ m.type = "evidence" /\ HandleEvidence(i, m)
      \/ m.type = "cancel_ack" /\ HandleCancelAck(i, m)
      \/ m.type = "answer" /\ HandleReconcileResponse(i, m)
  BY Receipt, Zenon
<1> HIDE DEF m
<1>2. CASE HandleHello(i) \/ HandleDispatchAck(i, m) \/ HandleCancelAck(i, m)
  BY <1>2 DEF HandleHello, HandleDispatchAck, HandleCancelAck
<1>3. CASE m.type = "evidence" /\ HandleEvidence(i, m)
  BY <1>3 DEF HandleEvidence
<1>4. CASE m.type = "answer" /\ HandleReconcileResponse(i, m)
  <2>1. r \in {ReportOf(a, m.entries[a]) : a \in {b \in DOMAIN m.entries : m.entries[b] \in Finished}}
    BY <1>4 DEF HandleReconcileResponse
  <2>. QED BY <2>1, <1>4 DEF ReportOf
<1>. QED BY <1>1, <1>2, <1>3, <1>4

LEMMA ReportsAddressed ==
  ASSUME Typed, Wires, Addressed, Next
  PROVE  \A r \in reported' : r.attempt \in Issued'
<1>1. \A a \in Issued : a \in Issued'
  BY OrdersFrom DEF Issued
<1> DEFINE Goal == \A r \in reported' : r.attempt \in Issued'
<1>2. ASSUME UNCHANGED reported PROVE Goal
  BY <1>1, <1>2 DEF Addressed
<1>3. ASSUME NEW i \in DOMAIN connections, HandleFrame(i) PROVE Goal
  <2>1. PICK w \in Workers : w = connections[i] /\ 1 \in DOMAIN toController[w]
    <3> HIDE DEF Goal
    <3>. QED BY <1>3, Received
  <2>2. PICK m \in Frames : m = toController[w][1]
    BY <2>1 DEF Typed
  <2>3. Theirs(w, m)
    BY <2>1, <2>2 DEF Addressed
  <2>4. /\ m.type = "evidence" => m.attempt \in Issued
        /\ m.type = "answer" => \A a \in DOMAIN m.entries : a \in Issued
    BY <2>3, FrameTypes, PlaneAssumption DEF Theirs, Issued
  <2>5. \A r \in reported' :
               \/ r \in reported
               \/ m.type = "evidence" /\ r = ReportOf(m.attempt, m.outcome)
               \/ m.type = "answer" /\ r.attempt \in DOMAIN m.entries
    BY <1>3, <2>1, <2>2, ReportsFrom, Zenon
  <2>. QED BY <2>4, <2>5, <1>1 DEF Addressed, ReportOf
<1> HIDE DEF Goal
<1>4. ASSUME NEW a \in Attempts, Dispatch(a) PROVE Goal
  BY <1>2, <1>4 DEF Dispatch
<1>5. ASSUME NEW a \in Attempts, Cancel(a) PROVE Goal
  BY <1>2, <1>5 DEF Cancel
<1>6. ASSUME Reconcile \/ ReconcileReturns PROVE Goal
  BY <1>2, <1>6 DEF Reconcile, ReconcileReturns, askVars
<1>7. ASSUME NEW a \in Attempts, EffectEnds(a) PROVE Goal
  BY <1>2, <1>7 DEF EffectEnds, askVars
<1>8. ASSUME NEW i \in DOMAIN connections, Drop(i) PROVE Goal
  BY <1>2, <1>8 DEF Drop, askVars
<1>9. ASSUME NEW w \in Workers, Attach(w) \/ WorkerDies(w) PROVE Goal
  BY <1>2, <1>9 DEF Attach, WorkerDies, askVars
<1>10. ASSUME NEW w \in Workers, WorkerHandlesFrame(w) \/ DrainCompletion(w) PROVE Goal
  BY <1>2, <1>10 DEF WorkerHandlesFrame, DrainCompletion, askVars
<1>11. Goal
  BY <1>3, <1>4, <1>5, <1>6, <1>7, <1>8, <1>9, <1>10 DEF Next
<1>. QED BY <1>11 DEF Goal

(* No worker goes back to where it was before it started.                   *)
LEMMA LivesGoOn ==
  ASSUME Typed, Wires, Next, NEW w \in Workers
  PROVE  /\ life[w] # "unborn" => life'[w] # "unborn"
         /\ life[w] = "gone" => life'[w] = "gone"
         /\ life'[w] = "connected" => life[w] = "connected" \/ Attach(w)
         /\ life'[w] # life[w] => Attach(w) \/ WorkerDies(w)
<1> DEFINE Goal == /\ life[w] # "unborn" => life'[w] # "unborn"
                   /\ life[w] = "gone" => life'[w] = "gone"
                   /\ life'[w] = "connected" => life[w] = "connected" \/ Attach(w)
                   /\ life'[w] # life[w] => Attach(w) \/ WorkerDies(w)
<1>1. ASSUME UNCHANGED life PROVE Goal
  BY <1>1
<1>2. ASSUME NEW v \in Workers, Attach(v) PROVE Goal
  <2>1. life[v] = "unborn" /\ life'[v] = "connected" /\ \A u \in Workers \ {v} : life'[u] = life[u]
    <3> HIDE DEF Goal
    <3>. QED BY <1>2, Attaches
  <2>. QED BY <2>1, <1>2
<1>3. ASSUME NEW v \in Workers, WorkerDies(v) PROVE Goal
  <2>1. life[v] = "connected" /\ life'[v] = "gone" /\ \A u \in Workers \ {v} : life'[u] = life[u]
    <3> HIDE DEF Goal
    <3>. QED BY <1>3, Dies
  <2>. QED BY <2>1, <1>3
<1> HIDE DEF Goal
<1>4. ASSUME NEW a \in Attempts, Dispatch(a) \/ Cancel(a) \/ EffectEnds(a) PROVE Goal
  BY <1>1, <1>4 DEF Dispatch, Cancel, EffectEnds, workerVars
<1>5. ASSUME Reconcile \/ ReconcileReturns PROVE Goal
  BY <1>1, <1>5 DEF Reconcile, ReconcileReturns, workerVars
<1>6. ASSUME NEW i \in DOMAIN connections, HandleFrame(i) \/ Drop(i) PROVE Goal
  BY <1>1, <1>6 DEF HandleFrame, Drop, workerVars
<1>7. ASSUME NEW v \in Workers, WorkerHandlesFrame(v) \/ DrainCompletion(v) PROVE Goal
  BY <1>1, <1>7 DEF WorkerHandlesFrame, DrainCompletion
<1>8. Goal
  BY <1>2, <1>3, <1>4, <1>5, <1>6, <1>7 DEF Next
<1>. QED BY <1>8 DEF Goal

(* Who is dispatched, and how.                                              *)
LEMMA CarriersFrom ==
  ASSUME Typed, Wires, Next, NEW b \in Attempts
  PROVE  \/ carrier'[b] = carrier[b]
         \/ /\ Dispatch(b) /\ carrier[b] = NoWorker /\ carrier'[b] \in Workers
            /\ Attached(carrier'[b])
<1> DEFINE Goal == \/ carrier'[b] = carrier[b]
                   \/ /\ Dispatch(b) /\ carrier[b] = NoWorker /\ carrier'[b] \in Workers
                      /\ Attached(carrier'[b])
<1>1. ASSUME UNCHANGED carrier PROVE Goal
  BY <1>1
<1>2. ASSUME NEW a \in Attempts, Dispatch(a) PROVE Goal
  <2>1. carrier[a] = NoWorker
    BY <1>2 DEF Dispatch
  <2>2. PICK w \in Workers : /\ Attached(w) /\ carrier'[a] = w
                             /\ \A d \in Attempts \ {a} : carrier'[d] = carrier[d]
    <3> HIDE DEF Goal
    <3>. QED BY <1>2, Dispatched
  <2>. QED BY <2>1, <2>2, <1>2
<1> HIDE DEF Goal
<1>3. ASSUME NEW a \in Attempts, Cancel(a) \/ EffectEnds(a) PROVE Goal
  BY <1>1, <1>3 DEF Cancel, EffectEnds, askVars
<1>4. ASSUME Reconcile \/ ReconcileReturns PROVE Goal
  BY <1>1, <1>4 DEF Reconcile, ReconcileReturns, askVars
<1>5. ASSUME NEW i \in DOMAIN connections, HandleFrame(i) \/ Drop(i) PROVE Goal
  BY <1>1, <1>5 DEF HandleFrame, Drop, askVars
<1>6. ASSUME NEW v \in Workers, WorkerHandlesFrame(v) \/ DrainCompletion(v) PROVE Goal
  BY <1>1, <1>6 DEF WorkerHandlesFrame, DrainCompletion, askVars
<1>7. ASSUME NEW v \in Workers, Attach(v) \/ WorkerDies(v) PROVE Goal
  BY <1>1, <1>7 DEF Attach, WorkerDies, askVars
<1>8. Goal
  BY <1>2, <1>3, <1>4, <1>5, <1>6, <1>7 DEF Next
<1>. QED BY <1>8 DEF Goal

LEMMA AddressesAreKept ==
  ASSUME Typed, Wires, Addressed, Fresh, Deferred, Next, Typed'
  PROVE  Addressed'
<1>1. \A b \in Attempts : carrier[b] # NoWorker => carrier'[b] = carrier[b]
  BY OrdersFrom
<1>2. ASSUME NEW v \in Workers, NEW n \in DOMAIN completions'[v]
      PROVE  carrier'[completions'[v][n].attempt] = v
  <2>1. \/ \E k \in DOMAIN completions[v] : completions'[v][n] = completions[v][k]
        \/ \E a \in Attempts : completions'[v][n].attempt = a /\ carrier[a] = v
    BY ResultsFrom
  <2>2. \A k \in DOMAIN completions[v] :
          completions[v][k].attempt \in Attempts /\ carrier[completions[v][k].attempt] = v
    <3>1. \A k \in DOMAIN completions[v] : completions[v][k] \in Completions
      BY DEF Typed
    <3>2. \A x \in Completions : x.attempt \in Attempts
      BY DEF Completions
    <3>. QED BY <3>1, <3>2 DEF Addressed
  <2>. QED BY <2>1, <2>2, <1>1, PlaneAssumption
<1>3. ASSUME NEW v \in Workers
      PROVE  /\ \A n \in DOMAIN order'[v] :
                  carrier'[order'[v][n]] = v /\ effect'[order'[v][n]] # "none"
             /\ IsInjective(order'[v])
  BY <1>1, EntriesAreKept, PlaneAssumption
<1>4. ASSUME NEW a \in Issued' PROVE life'[carrier'[a]] # "unborn"
  <2>1. a \in Attempts /\ carrier'[a] # NoWorker /\ carrier'[a] \in Workers
    BY DEF Issued, Typed, TypeOK
  <2>2. CASE carrier'[a] = carrier[a]
    BY <2>1, <2>2, LivesGoOn DEF Addressed, Issued
  <2>3. CASE Dispatch(a) /\ Attached(carrier'[a])
    <3>1. life[carrier'[a]] # "unborn"
      BY <2>1, <2>3 DEF Wires, Wired
    <3>. QED BY <3>1, <2>1, LivesGoOn
  <2>. QED BY <2>1, <2>2, <2>3, CarriersFrom
<1>. QED BY <1>2, <1>3, <1>4, OursAreKept, TheirsAreKept, ReportsAddressed DEF Addressed
-----------------------------------------------------------------------------
(* New attempts.                                                            *)

(* Which steps move a worker's queue.                                       *)
LEMMA QueuesStay ==
  ASSUME Next
  PROVE  \/ UNCHANGED toWorker
         \/ \E a \in Attempts : Dispatch(a)
         \/ \E a \in Attempts : Cancel(a)
         \/ Reconcile
         \/ \E w \in Workers : WorkerHandlesFrame(w)
         \/ \E w \in Workers : WorkerDies(w)
<1>1. ASSUME NEW a \in Attempts, EffectEnds(a) PROVE UNCHANGED toWorker
  BY <1>1 DEF EffectEnds
<1>2. ASSUME ReconcileReturns PROVE UNCHANGED toWorker
  BY <1>2 DEF ReconcileReturns
<1>3. ASSUME NEW i \in DOMAIN connections, HandleFrame(i) \/ Drop(i) PROVE UNCHANGED toWorker
  BY <1>3 DEF HandleFrame, Drop
<1>4. ASSUME NEW w \in Workers, Attach(w) \/ DrainCompletion(w) PROVE UNCHANGED toWorker
  BY <1>4 DEF Attach, DrainCompletion
<1>. QED BY <1>1, <1>2, <1>3, <1>4 DEF Next

(* A dispatch is on its way once, and no question about it is before it.    *)
Once(q) ==
  \A n \in DOMAIN q : q[n].type = "dispatch" =>
    \A k \in DOMAIN q :
      /\ Starts(q[k], q[n].attempt) => k = n
      /\ q[k].type = "reconcile" /\ q[n].attempt \in q[k].fences => n < k

LEMMA DispatchesAreOnce ==
  ASSUME Typed, Wires, Addressed, Fresh, Next, NEW v \in Workers
  PROVE  Once(toWorker'[v])
<1> DEFINE p == toWorker[v]
           q == toWorker'[v]
<1>0. Once(p) /\ \A n \in DOMAIN p : n \in Nat /\ p[n] \in Orders
  BY DEF Typed, Fresh, Once
<1>1. ASSUME q = p PROVE Once(q)
  <2> HIDE DEF p, q
  <2>. QED BY <1>0, <1>1
<1>2. ASSUME \A n \in DOMAIN q : n \in Nat /\ n + 1 \in DOMAIN p /\ q[n] = p[n + 1] PROVE Once(q)
  <2> HIDE DEF p, q
  <2> SUFFICES ASSUME NEW n \in DOMAIN q, q[n].type = "dispatch", NEW k \in DOMAIN q
               PROVE  /\ Starts(q[k], q[n].attempt) => k = n
                      /\ q[k].type = "reconcile" /\ q[n].attempt \in q[k].fences => n < k
    BY DEF Once
  <2>1. /\ n \in Nat /\ k \in Nat /\ n + 1 \in DOMAIN p /\ k + 1 \in DOMAIN p
        /\ q[n] = p[n + 1] /\ q[k] = p[k + 1]
    BY <1>2
  <2>2. /\ Starts(p[k + 1], p[n + 1].attempt) => k + 1 = n + 1
        /\ p[k + 1].type = "reconcile" /\ p[n + 1].attempt \in p[k + 1].fences => n + 1 < k + 1
    BY <2>1, <1>0 DEF Once
  <2>. QED BY <2>1, <2>2
<1>3. ASSUME DOMAIN q = {} PROVE Once(q)
  <2> HIDE DEF p, q
  <2>. QED BY <1>3 DEF Once
<1>4. ASSUME NEW x, \A n \in DOMAIN p : n \in DOMAIN q /\ q[n] = p[n] /\ n < Len(p) + 1,
             \A n \in DOMAIN q \ DOMAIN p : n = Len(p) + 1 /\ q[n] = x,
             \A n \in DOMAIN p :
               /\ x.type = "dispatch" => /\ ~Starts(p[n], x.attempt)
                                         /\ p[n].type = "reconcile" => x.attempt \notin p[n].fences
               /\ p[n].type = "dispatch" => ~Starts(x, p[n].attempt),
             x.type \in {"dispatch", "cancel", "reconcile"}
      PROVE  Once(q)
  <2> HIDE DEF p, q
  <2> SUFFICES ASSUME NEW n \in DOMAIN q, q[n].type = "dispatch", NEW k \in DOMAIN q
               PROVE  /\ Starts(q[k], q[n].attempt) => k = n
                      /\ q[k].type = "reconcile" /\ q[n].attempt \in q[k].fences => n < k
    BY DEF Once
  <2>1. CASE n \in DOMAIN p /\ k \in DOMAIN p
    BY <2>1, <1>0, <1>4 DEF Once
  <2>2. CASE n \in DOMAIN p /\ k \notin DOMAIN p
    BY <2>2, <1>0, <1>4
  <2>3. CASE n \notin DOMAIN p /\ k \in DOMAIN p
    BY <2>3, <1>0, <1>4
  <2>4. CASE n \notin DOMAIN p /\ k \notin DOMAIN p
    <3>1. n = k /\ q[n].type = "dispatch"
      BY <2>4, <1>4
    <3>. QED BY <3>1
  <2>. QED BY <2>1, <2>2, <2>3, <2>4
<1>5. ASSUME NEW a \in Attempts, Dispatch(a) PROVE Once(q)
  <2>1. carrier[a] = NoWorker
    BY <1>5 DEF Dispatch
  <2>2. PICK w \in Workers :
               /\ \A u \in Workers : \A n \in DOMAIN toWorker[u] :
                    n \in DOMAIN toWorker'[u] /\ toWorker'[u][n] = toWorker[u][n]
               /\ \A n \in DOMAIN toWorker[w] : n < Len(toWorker[w]) + 1
               /\ \A u \in Workers : \A n \in DOMAIN toWorker'[u] \ DOMAIN toWorker[u] :
                    /\ u = w /\ n = Len(toWorker[w]) + 1
                    /\ toWorker'[u][n] = [type |-> "dispatch", attempt |-> a]
    BY <1>5, Dispatched
  <2>3. CASE v # w
    <3>1. DOMAIN q \subseteq DOMAIN p /\ \A n \in DOMAIN p : n \in DOMAIN q /\ q[n] = p[n]
      BY <2>2, <2>3
    <3> HIDE DEF p, q
    <3>. QED BY <3>1, <1>0 DEF Once
  <2>4. CASE v = w
    <3>1. PICK x : x = [type |-> "dispatch", attempt |-> a]
      OBVIOUS
    <3>2. x.type = "dispatch" /\ x.attempt = a
      BY <3>1
    <3>3. ASSUME NEW n \in DOMAIN p
          PROVE  ~Starts(p[n], a) /\ (p[n].type = "reconcile" => a \notin p[n].fences)
      BY <2>1, PlaneAssumption DEF Addressed, Ours, Starts
    <3>4. ASSUME NEW n \in DOMAIN p, p[n].type = "dispatch" PROVE ~Starts(x, p[n].attempt)
      BY <3>2, <3>3, <3>4 DEF Starts
    <3>5. /\ \A n \in DOMAIN p : n \in DOMAIN q /\ q[n] = p[n] /\ n < Len(p) + 1
          /\ \A n \in DOMAIN q \ DOMAIN p : n = Len(p) + 1 /\ q[n] = x
      BY <2>2, <2>4, <3>1
    <3> HIDE DEF p, q
    <3>. QED BY <3>2, <3>3, <3>4, <3>5, <1>4
  <2>. QED BY <2>3, <2>4
<1>6. ASSUME NEW a \in Attempts, Cancel(a) PROVE Once(q)
  <2>1. PICK x : x = [type |-> "cancel", attempt |-> a]
    OBVIOUS
  <2>2. /\ \A n \in DOMAIN p : n \in DOMAIN q /\ q[n] = p[n]
        /\ \A n \in DOMAIN q \ DOMAIN p : n = Len(p) + 1 /\ q[n] = x
    <3>1. /\ \A u \in Workers : \A n \in DOMAIN toWorker[u] :
                 n \in DOMAIN toWorker'[u] /\ toWorker'[u][n] = toWorker[u][n]
          /\ \A u \in Workers : \A n \in DOMAIN toWorker'[u] \ DOMAIN toWorker[u] :
                 /\ u = carrier[a] /\ n = Len(toWorker[u]) + 1
                 /\ toWorker'[u][n] = [type |-> "cancel", attempt |-> a]
      BY <1>6, Cancelled
    <3>. QED BY <3>1, <2>1
  <2>3. \A n \in DOMAIN p : n < Len(p) + 1
    BY DEF Typed
  <2>4. x.type = "cancel"
    BY <2>1
  <2>5. \A b : ~Starts(x, b)
    BY <2>4 DEF Starts
  <2> HIDE DEF p, q
  <2>. QED BY <2>2, <2>3, <2>4, <2>5, <1>4
<1>7. ASSUME Reconcile PROVE Once(q)
  <2>1. /\ \A n \in DOMAIN p : n \in DOMAIN q /\ q[n] = p[n]
        /\ \A n \in DOMAIN q \ DOMAIN p : /\ n = Len(p) + 1 /\ \A k \in DOMAIN p : k < n
                                          /\ q[n].type = "reconcile"
    BY <1>7, Requested
  <2>2. CASE DOMAIN q = DOMAIN p
    <3> HIDE DEF p, q
    <3>. QED BY <2>1, <2>2, <1>0 DEF Once
  <2>3. CASE DOMAIN q # DOMAIN p
    <3>1. PICK j \in DOMAIN q \ DOMAIN p : TRUE
      BY <2>1, <2>3
    <3>2. PICK x : x = q[j]
      OBVIOUS
    <3>3. x.type = "reconcile" /\ \A b : ~Starts(x, b)
      BY <2>1, <3>1, <3>2 DEF Starts
    <3>4. /\ \A n \in DOMAIN p : n \in DOMAIN q /\ q[n] = p[n] /\ n < Len(p) + 1
          /\ \A n \in DOMAIN q \ DOMAIN p : n = Len(p) + 1 /\ q[n] = x
      BY <2>1, <3>1, <3>2
    <3> HIDE DEF p, q
    <3>. QED BY <3>3, <3>4, <1>4
  <2>. QED BY <2>2, <2>3
<1>8. ASSUME NEW w \in Workers, WorkerHandlesFrame(w) PROVE Once(q)
  <2>1. /\ \A u \in Workers \ {w} : toWorker'[u] = toWorker[u]
        /\ \A n \in DOMAIN toWorker'[w] :
             /\ n \in Nat /\ n + 1 \in DOMAIN toWorker[w] /\ toWorker'[w][n] = toWorker[w][n + 1]
    BY <1>8, Taken
  <2>2. CASE v = w
    <3>1. \A n \in DOMAIN q : n \in Nat /\ n + 1 \in DOMAIN p /\ q[n] = p[n + 1]
      BY <2>1, <2>2
    <3>. QED BY <3>1, <1>2
  <2>. QED BY <2>1, <2>2, <1>1
<1>9. ASSUME NEW w \in Workers, WorkerDies(w) PROVE Once(q)
  <2>1. DOMAIN toWorker'[w] = {} /\ \A u \in Workers \ {w} : toWorker'[u] = toWorker[u]
    BY <1>9, Dies
  <2>. QED BY <2>1, <1>1, <1>3
<1>10. ASSUME UNCHANGED toWorker PROVE Once(q)
  BY <1>1, <1>10
<1> HIDE DEF p, q
<1>11. Once(q)
  BY <1>5, <1>6, <1>7, <1>8, <1>9, <1>10, QueuesStay
<1>. QED BY <1>11 DEF q

(* What a worker takes up is no longer new.                                 *)
LEMMA StartedIsNotNew ==
  ASSUME Typed, Wires, Addressed, Fresh, Next, NEW w \in Workers, WorkerHandlesFrame(w),
         NEW a \in Attempts, Starts(toWorker[w][1], a)
  PROVE  ~New(a)'
<1>1. carrier[a] = w /\ carrier'[a] = w /\ w # NoWorker
  BY StartsUntouched, OrdersFrom, PlaneAssumption
<1>2. SUFFICES ASSUME Waiting(a)' PROVE FALSE
  BY <1>1 DEF New
<1>3. PICK v \in Workers : \E n \in DOMAIN toWorker'[v] : Starts(toWorker'[v][n], a)
  BY <1>2 DEF Waiting, Starts
<1> PICK n \in DOMAIN toWorker'[v] : Starts(toWorker'[v][n], a)
  BY <1>3
<1>4. /\ 1 \in DOMAIN toWorker[w] /\ \A u \in Workers \ {w} : toWorker'[u] = toWorker[u]
      /\ \A k \in DOMAIN toWorker'[w] :
              /\ k \in Nat /\ k + 1 \in DOMAIN toWorker[w] /\ toWorker'[w][k] = toWorker[w][k + 1]
  BY Taken
<1>5. CASE v = w
  <2>1. n \in Nat /\ n + 1 \in DOMAIN toWorker[w] /\ Starts(toWorker[w][n + 1], a)
    BY <1>4, <1>5
  <2>2. n + 1 = 1
    BY <2>1, <1>4 DEF Fresh, Starts
  <2>3. n # 0
    <3>1. toWorker'[w] \in Seq(Orders)
      BY Reaction, Zenon
    <3>. QED BY <3>1, <1>5
  <2>. QED BY <2>1, <2>2, <2>3
<1>6. CASE v # w
  <2>1. n \in DOMAIN toWorker[v] /\ Starts(toWorker[v][n], a)
    BY <1>4, <1>6
  <2>2. carrier[a] = v
    BY <2>1 DEF Addressed, Ours, Starts
  <2>. QED BY <2>2, <1>1, <1>6
<1>. QED BY <1>5, <1>6
(* Where the rest of the ledgers comes from.                                *)
LEMMA LedgersFrom ==
  ASSUME Typed, Next
  PROVE  /\ performed \subseteq performed' /\ \A b \in performed' \ performed : EffectEnds(b)
         /\ \A b \in working' \ working : \E w \in Workers : Accepting(w, b)
         /\ \A h \in Attempts :
              \/ deferred'[h] \in {deferred[h], NoAttempt}
              \/ deferred'[h] \in Attempts /\ \E w \in Workers : Deferring(w, deferred'[h], h)
         /\ evicted \subseteq evicted'
         /\ \A e \in evicted' \ evicted :
              \E w \in Workers, a \in Attempts : Accepting(w, a) /\ e \in Victims(w) \X {a}
<1> DEFINE P == performed \subseteq performed' /\ \A b \in performed' \ performed : EffectEnds(b)
           W == \A b \in working' \ working : \E w \in Workers : Accepting(w, b)
           D == \A h \in Attempts :
                  \/ deferred'[h] \in {deferred[h], NoAttempt}
                  \/ deferred'[h] \in Attempts /\ \E w \in Workers : Deferring(w, deferred'[h], h)
           V == /\ evicted \subseteq evicted'
                /\ \A e \in evicted' \ evicted :
                     \E w \in Workers, a \in Attempts : Accepting(w, a) /\ e \in Victims(w) \X {a}
           Goal == P /\ W /\ D /\ V
<1>0. deferred \in [Attempts -> Attempts \cup {NoAttempt}]
  BY DEF Typed, TypeOK
<1>1. ASSUME UNCHANGED performed PROVE P
  BY <1>1
<1>2. ASSUME UNCHANGED working PROVE W
  BY <1>2
<1>3. ASSUME UNCHANGED deferred PROVE D
  BY <1>3
<1>4. ASSUME UNCHANGED evicted PROVE V
  BY <1>4
<1>5. ASSUME NEW w \in Workers, NEW a \in Attempts, Accepting(w, a) PROVE W /\ D /\ V
  <2>1. Accept(w, a)
    BY <1>5 DEF Accepting
  <2>2. /\ \A b \in Attempts : deferred'[b] = IF b \in Victims(w) THEN NoAttempt ELSE deferred[b]
        /\ working' = working \cup {a} /\ evicted' = evicted \cup (Victims(w) \X {a})
    <3> HIDE DEF Goal, P, W, D, V
    <3>. QED BY <2>1, Accepts
  <2>3. W /\ D
    BY <2>2, <1>5
  <2>4. V
    BY <2>2, <1>5
  <2>. QED BY <2>3, <2>4
<1>6. ASSUME NEW w \in Workers, NEW a \in Attempts, NEW h \in Attempts, Deferring(w, a, h)
      PROVE  W /\ D /\ V
  <2>1. deferred' = [deferred EXCEPT ![h] = a] /\ UNCHANGED <<working, evicted>>
    BY <1>6 DEF Deferring
  <2>2. D
    BY <2>1, <1>0, <1>6
  <2> HIDE DEF P, W, D, V
  <2>. QED BY <2>1, <2>2, <1>2, <1>4
<1>7. ASSUME NEW w \in Workers, DrainCompletion(w) PROVE D
  <2>1. PICK x \in Completions : x = completions[w][1]
    BY <1>7, Drained
  <2>2. UNCHANGED deferred \/ deferred' = [deferred EXCEPT ![x.attempt] = NoAttempt]
    BY <1>7, <2>1, Drains, Zenon
  <2>. QED BY <2>2, <1>0
<1>8. ASSUME NEW w \in Workers, WorkerDies(w) PROVE W /\ D
  <2>1. /\ working' = {a \in working : carrier[a] # w}
        /\ \A a \in Attempts : deferred'[a] = IF carrier[a] = w THEN NoAttempt ELSE deferred[a]
    <3> HIDE DEF Goal, P, W, D, V
    <3>. QED BY <1>8, Dies
  <2>. QED BY <2>1
<1>9. ASSUME NEW a \in Attempts, EffectEnds(a) PROVE P /\ W
  <2>1. working' = working \ {a} /\ performed' \in {performed, performed \cup {a}}
    BY <1>9 DEF EffectEnds
  <2>. QED BY <2>1, <1>9
<1> HIDE DEF P, W, D, V
<1>10. ASSUME NEW w \in Workers, WorkerHandlesFrame(w) PROVE Goal
  <2>1. UNCHANGED performed
    BY <1>10 DEF WorkerHandlesFrame
  <2>2. \/ UNCHANGED <<effect, deferred, order, working, evicted>>
        \/ \E a \in Attempts : Accepting(w, a)
        \/ \E a \in Attempts, h \in Attempts : Deferring(w, a, h)
        \/ \E a \in Attempts : Stopping(w, a)
    BY <1>10, ReactionChanges
  <2>3. ASSUME NEW a \in Attempts, Stopping(w, a) PROVE UNCHANGED <<deferred, working, evicted>>
    BY <2>3 DEF Stopping
  <2>. QED BY <2>1, <2>2, <2>3, <1>1, <1>2, <1>3, <1>4, <1>5, <1>6
<1>11. ASSUME NEW w \in Workers, DrainCompletion(w) PROVE Goal
  <2>1. UNCHANGED <<working, performed, evicted>>
    BY <1>11 DEF DrainCompletion
  <2>. QED BY <2>1, <1>1, <1>2, <1>4, <1>7, <1>11
<1>12. ASSUME NEW w \in Workers, WorkerDies(w) PROVE Goal
  <2>1. UNCHANGED <<performed, evicted>>
    BY <1>12 DEF WorkerDies
  <2>. QED BY <2>1, <1>1, <1>4, <1>8, <1>12
<1>13. ASSUME NEW a \in Attempts, EffectEnds(a) PROVE Goal
  <2>1. UNCHANGED <<deferred, evicted>>
    BY <1>13 DEF EffectEnds
  <2>. QED BY <2>1, <1>3, <1>4, <1>9, <1>13
<1>14. ASSUME UNCHANGED <<effect, deferred, order, working, completions, performed, evicted>>
       PROVE  Goal
  BY <1>1, <1>2, <1>3, <1>4, <1>14
<1> HIDE DEF Goal
<1>15. Goal
  BY <1>10, <1>11, <1>12, <1>13, <1>14, LedgersStay
<1>. QED BY <1>15 DEF Goal, P, W, D, V

(* A frame that ends an attempt is about one that is no longer new.         *)
LEMMA NewIsNotEnded ==
  ASSUME Typed, Wires, Addressed, Fresh, Next, NEW a \in Attempts, New(a), New(a)',
         NEW v \in Workers, NEW n \in DOMAIN toController'[v]
  PROVE  ~Ends(toController'[v][n], a)
<1> DEFINE m == toController'[v][n]
<1>0. Untouched(a)
  BY DEF Fresh
<1> HIDE DEF m
<1>1. SUFFICES ASSUME Ends(m, a) PROVE FALSE
  BY DEF m
<1>2. /\ m.type \in {"ack", "evidence", "cancel_ack"} /\ m.attempt = a
      /\ m.type = "cancel_ack" => m.stopped
  BY <1>1 DEF Ends, Speaks
<1>3. CASE \E k \in DOMAIN toController[v] : m = toController[v][k]
  BY <1>0, <1>1, <1>3 DEF Untouched, Silent
<1>4. CASE WorkerHandlesFrame(v) /\ Replies(v, m)
  <2>1. ~Starts(toWorker[v][1], a)
    BY <1>4, StartedIsNotNew
  <2>2. m # AnswerTo(toWorker[v][1])
    BY <1>2 DEF AnswerTo
  <2>3. effect[a] = "none" /\ "none" \notin Running
    BY <1>0 DEF Untouched, Running
  <2>. QED BY <1>2, <1>4, <2>1, <2>2, <2>3 DEF Replies
<1>5. CASE DrainCompletion(v) /\ Announces(v, m)
  <2>1. 1 \in DOMAIN completions[v] /\ completions[v][1] \in Completions
    BY <1>5, Drained
  <2>2. completions[v][1].attempt # a /\ completions[v][1].attempt \in Attempts
    BY <2>1, <1>0 DEF Untouched, Completions
  <2>3. deferred[completions[v][1].attempt] # a
    BY <2>2, <1>0 DEF Untouched
  <2>. QED BY <1>2, <1>5, <2>2, <2>3 DEF Announces
<1>. QED BY <1>2, <1>3, <1>4, <1>5, FramesFrom DEF m
(* A report is delivered by the frame in front.                             *)
Delivers(w, r) ==
  /\ 1 \in DOMAIN toController[w]
  /\ LET m == toController[w][1]
     IN  \/ m.type = "evidence" /\ m.attempt = r.attempt /\ m.outcome = r.outcome
         \/ /\ m.type = "answer" /\ r.attempt \in DOMAIN m.entries
            /\ r.outcome = m.entries[r.attempt] /\ r.outcome \in Finished

LEMMA ReportedFrom ==
  ASSUME Typed, Next
  PROVE  /\ reported \subseteq reported'
         /\ \A r \in reported' \ reported : \E w \in Workers : Delivers(w, r)
<1> DEFINE Goal == /\ reported \subseteq reported'
                   /\ \A r \in reported' \ reported : \E w \in Workers : Delivers(w, r)
<1>1. ASSUME UNCHANGED reported PROVE Goal
  BY <1>1
<1>2. ASSUME NEW i \in DOMAIN connections, HandleFrame(i) PROVE Goal
  <2>1. PICK w \in Workers : w = connections[i] /\ 1 \in DOMAIN toController[w]
    <3> HIDE DEF Goal
    <3>. QED BY <1>2, Received
  <2>2. PICK m : m = toController[w][1]
    OBVIOUS
  <2>3. \A r \in reported' :
               \/ r \in reported
               \/ m.type = "evidence" /\ r = ReportOf(m.attempt, m.outcome)
               \/ /\ m.type = "answer" /\ r.attempt \in DOMAIN m.entries
                  /\ r.outcome = m.entries[r.attempt] /\ r.outcome \in Finished
    BY <1>2, <2>1, <2>2, ReportsFrom, Zenon
  <2>4. ASSUME NEW r \in reported' \ reported PROVE Delivers(w, r)
    BY <2>1, <2>2, <2>3 DEF Delivers, ReportOf
  <2>5. reported \subseteq reported'
    <3>1. \/ HandleHello(i)
          \/ HandleDispatchAck(i, m)
          \/ HandleEvidence(i, m)
          \/ HandleCancelAck(i, m)
          \/ HandleReconcileResponse(i, m)
      BY <1>2, <2>1, <2>2, Receipt, Zenon
    <3>. QED BY <3>1 DEF HandleHello, HandleDispatchAck, HandleEvidence, HandleCancelAck,
                         HandleReconcileResponse
  <2>. QED BY <2>4, <2>5
<1> HIDE DEF Goal
<1>3. ASSUME NEW a \in Attempts, Dispatch(a) \/ Cancel(a) \/ EffectEnds(a) PROVE Goal
  BY <1>1, <1>3 DEF Dispatch, Cancel, EffectEnds, askVars
<1>4. ASSUME Reconcile \/ ReconcileReturns PROVE Goal
  BY <1>1, <1>4 DEF Reconcile, ReconcileReturns, askVars
<1>5. ASSUME NEW i \in DOMAIN connections, Drop(i) PROVE Goal
  BY <1>1, <1>5 DEF Drop, askVars
<1>6. ASSUME NEW v \in Workers, WorkerHandlesFrame(v) \/ DrainCompletion(v) PROVE Goal
  BY <1>1, <1>6 DEF WorkerHandlesFrame, DrainCompletion, askVars
<1>7. ASSUME NEW v \in Workers, Attach(v) \/ WorkerDies(v) PROVE Goal
  BY <1>1, <1>7 DEF Attach, WorkerDies, askVars
<1>8. Goal
  BY <1>2, <1>3, <1>4, <1>5, <1>6, <1>7 DEF Next
<1>. QED BY <1>8 DEF Goal

(* Nothing is told of an attempt no worker has seen.                        *)
LEMMA NewIsUnheard ==
  ASSUME Typed, Fresh, Answered, Next, NEW a \in Attempts, New(a)
  PROVE  Unheard(a)'
<1>1. SUFFICES ASSUME NEW r \in reported', r.attempt = a PROVE FALSE
  BY DEF Unheard
<1>2. Untouched(a)
  BY DEF Fresh
<1>3. CASE r \in reported
  BY <1>1, <1>2, <1>3 DEF Untouched, Silent, Unheard
<1>4. CASE r \notin reported
  <2>1. PICK w \in Workers : Delivers(w, r)
    BY <1>4, ReportedFrom
  <2>2. PICK m : m = toController[w][1] /\ 1 \in DOMAIN toController[w]
    BY <2>1 DEF Delivers
  <2>3. CASE m.type = "evidence" /\ m.attempt = r.attempt
    BY <2>2, <2>3, <1>1, <1>2 DEF Untouched, Silent, Ends, Speaks
  <2>4. CASE /\ m.type = "answer" /\ r.attempt \in DOMAIN m.entries
             /\ r.outcome = m.entries[r.attempt] /\ r.outcome \in Finished
    <3>1. /\ m.entries[a] = "completed" => a \in performed
          /\ m.entries[a] = "failed" => Unsuccessful(a)
      BY <2>2, <2>4, <1>1 DEF Answered
    <3>2. a \notin performed /\ ~Unsuccessful(a)
      BY <1>2 DEF Untouched, Unsuccessful
    <3>. QED BY <3>1, <3>2, <2>4, <1>1 DEF Finished
  <2>. QED BY <2>1, <2>2, <2>3, <2>4 DEF Delivers
<1>. QED BY <1>3, <1>4

LEMMA FreshIsKept ==
  ASSUME PlaneInv, Next
  PROVE  Fresh'
<1>0. Typed /\ Wires /\ Addressed /\ Fresh /\ Answered
  BY DEF PlaneInv
<1>1. ASSUME NEW a \in Attempts, New(a)' PROVE Untouched(a)'
  <2>1. New(a)
    BY <1>0, <1>1, NewFades
  <2>2. Untouched(a)
    BY <2>1, <1>0 DEF Fresh
  <2>3. ASSUME NEW w \in Workers PROVE ~Accepting(w, a)
    BY <1>0, <1>1, StartedIsNotNew DEF Accepting
  <2>4. effect'[a] = "none"
    <3>1. ASSUME NEW w \in Workers PROVE ~Stopping(w, a)
      BY <2>2 DEF Stopping, Untouched, Running
    <3>2. ASSUME NEW w \in Workers, DrainCompletion(w) PROVE completions[w][1].attempt # a
      <4>1. 1 \in DOMAIN completions[w]
        BY <1>0, <3>2, Drained
      <4>. QED BY <4>1, <2>2 DEF Untouched
    <3>. QED BY <1>0, <2>2, <2>3, <3>1, <3>2, EffectsFrom DEF Untouched
  <2>5. a \notin working' \cup performed'
    <3>1. ~EffectEnds(a)
      BY <2>2 DEF Untouched, EffectEnds
    <3>. QED BY <1>0, <2>2, <2>3, <3>1, LedgersFrom DEF Untouched
  <2>6. ASSUME NEW h \in Attempts PROVE deferred'[h] # a
    <3>1. ASSUME NEW w \in Workers PROVE ~Deferring(w, a, h)
      BY <1>0, <1>1, StartedIsNotNew DEF Deferring
    <3>. QED BY <1>0, <2>2, <3>1, LedgersFrom, PlaneAssumption DEF Untouched
  <2>7. ASSUME NEW w \in Workers, NEW n \in DOMAIN completions'[w]
        PROVE  completions'[w][n].attempt # a
    <3>1. ~EffectEnds(a)
      BY <2>2 DEF Untouched, EffectEnds
    <3>. QED BY <1>0, <2>2, <3>1, ResultsFrom DEF Untouched
  <2>8. ASSUME NEW e \in evicted' PROVE e[1] # a
    <3>1. CASE e \in evicted
      BY <3>1, <2>2 DEF Untouched
    <3>2. CASE e \notin evicted
      <4>1. PICK w \in Workers, b \in Attempts : e \in Victims(w) \X {b}
        BY <1>0, <3>2, LedgersFrom
      <4>2. e[1] \in Victims(w)
        BY <4>1
      <4>. QED BY <4>2, <1>0, <2>2, VictimsEnded DEF Untouched
    <3>. QED BY <3>1, <3>2
  <2>9. Silent(a)'
    BY <1>0, <1>1, <2>1, NewIsNotEnded, NewIsUnheard DEF Silent
  <2>. QED BY <2>4, <2>5, <2>6, <2>7, <2>8, <2>9 DEF Untouched
<1>2. ASSUME NEW w \in Workers PROVE Once(toWorker'[w])
  BY <1>0, DispatchesAreOnce
<1>. QED BY <1>1, <1>2 DEF Fresh, Once, Starts
-----------------------------------------------------------------------------
(* Routes.                                                                  *)

(* What moves the route of an attempt.                                      *)
LEMMA RoutesFrom ==
  ASSUME Typed, Next, NEW a \in Attempts
  PROVE  \/ route'[a] = route[a]
         \/ Dispatch(a) /\ route'[a] # 0
         \/ \E i \in DOMAIN connections : Drop(i) /\ route'[a] = Reindexed(route[a], i)
         \/ \E w \in Workers : 1 \in DOMAIN toController[w] /\ Ends(toController[w][1], a)
<1> DEFINE Goal == \/ route'[a] = route[a]
                   \/ Dispatch(a) /\ route'[a] # 0
                   \/ \E i \in DOMAIN connections : Drop(i) /\ route'[a] = Reindexed(route[a], i)
                   \/ \E w \in Workers : 1 \in DOMAIN toController[w] /\ Ends(toController[w][1], a)
<1>1. ASSUME UNCHANGED route PROVE Goal
  BY <1>1
<1>2. ASSUME NEW b \in Attempts, Dispatch(b) PROVE Goal
  <2>1. route'[b] # 0 /\ \A d \in Attempts \ {b} : route'[d] = route[d]
    <3> HIDE DEF Goal
    <3>. QED BY <1>2, Dispatched
  <2>. QED BY <2>1, <1>2
<1>3. ASSUME NEW i \in DOMAIN connections, Drop(i) PROVE Goal
  <2>1. route'[a] = Reindexed(route[a], i)
    BY <1>3 DEF Drop
  <2>. QED BY <2>1, <1>3
<1>4. ASSUME NEW i \in DOMAIN connections, HandleFrame(i) PROVE Goal
  <2>1. PICK w \in Workers : w = connections[i] /\ 1 \in DOMAIN toController[w]
    <3> HIDE DEF Goal
    <3>. QED BY <1>4, Received
  <2>2. PICK m \in Frames : m = toController[w][1]
    BY <2>1 DEF Typed
  <2>3. \/ m.type = "hello" /\ HandleHello(i)
        \/ m.type = "ack" /\ m.attempt \in Attempts /\ HandleDispatchAck(i, m)
        \/ m.type = "evidence" /\ m.attempt \in Attempts /\ HandleEvidence(i, m)
        \/ m.type = "cancel_ack" /\ m.attempt \in Attempts /\ HandleCancelAck(i, m)
        \/ m.type = "answer" /\ HandleReconcileResponse(i, m)
    BY <1>4, <2>1, <2>2, Receipt, Zenon
  <2>4. ASSUME m.attempt \in Attempts, Forget(m.attempt, i), m.attempt = a => Ends(m, a) PROVE Goal
    <3>1. m.attempt # a => route'[a] = route[a]
      <4> HIDE DEF Goal
      <4>. QED BY <2>4, Forgets
    <3>. QED BY <3>1, <2>1, <2>2, <2>4
  <2> HIDE DEF Goal
  <2>5. CASE HandleHello(i) \/ HandleReconcileResponse(i, m)
    BY <1>1, <2>5 DEF HandleHello, HandleReconcileResponse
  <2>6. CASE m.type = "ack" /\ m.attempt \in Attempts /\ HandleDispatchAck(i, m)
    <3>1. \/ Releases(m.outcome) /\ Forget(m.attempt, i)
          \/ UNCHANGED route
      BY <2>6 DEF HandleDispatchAck
    <3>. QED BY <3>1, <2>6, <2>4, <1>1 DEF Ends
  <2>7. CASE m.type = "evidence" /\ m.attempt \in Attempts /\ HandleEvidence(i, m)
    <3>1. Forget(m.attempt, i)
      BY <2>7 DEF HandleEvidence
    <3>. QED BY <3>1, <2>7, <2>4 DEF Ends, Speaks
  <2>8. CASE m.type = "cancel_ack" /\ m.attempt \in Attempts /\ HandleCancelAck(i, m)
    <3>1. \/ m.stopped /\ Forget(m.attempt, i)
          \/ UNCHANGED route
      BY <2>8 DEF HandleCancelAck
    <3>. QED BY <3>1, <2>8, <2>4, <1>1 DEF Ends
  <2>. QED BY <2>3, <2>5, <2>6, <2>7, <2>8
<1> HIDE DEF Goal
<1>5. ASSUME NEW b \in Attempts, Cancel(b) \/ EffectEnds(b) PROVE Goal
  BY <1>1, <1>5 DEF Cancel, EffectEnds, adapterVars
<1>6. ASSUME Reconcile \/ ReconcileReturns PROVE Goal
  BY <1>1, <1>6 DEF Reconcile, ReconcileReturns
<1>7. ASSUME NEW v \in Workers, WorkerHandlesFrame(v) \/ DrainCompletion(v) PROVE Goal
  BY <1>1, <1>7 DEF WorkerHandlesFrame, DrainCompletion, adapterVars
<1>8. ASSUME NEW v \in Workers, Attach(v) \/ WorkerDies(v) PROVE Goal
  BY <1>1, <1>8 DEF Attach, WorkerDies, adapterVars
<1>9. Goal
  BY <1>2, <1>3, <1>4, <1>5, <1>6, <1>7, <1>8 DEF Next
<1>. QED BY <1>9 DEF Goal

(* Who comes and goes.                                                      *)
LEMMA AttachedFrom ==
  ASSUME Typed, Wires, Next, NEW w \in Workers
  PROVE  \/ Attached(w)' <=> Attached(w)
         \/ Attached(w)' /\ life[w] = "unborn" /\ Attach(w)
         \/ ~Attached(w)' /\ \E i \in DOMAIN connections : Drop(i) /\ connections[i] = w
<1> DEFINE Goal == \/ Attached(w)' <=> Attached(w)
                   \/ Attached(w)' /\ life[w] = "unborn" /\ Attach(w)
                   \/ ~Attached(w)' /\ \E i \in DOMAIN connections : Drop(i) /\ connections[i] = w
<1>1. ASSUME UNCHANGED connections PROVE Goal
  <2>1. Attached(w)' <=> Attached(w)
    BY <1>1 DEF Attached
  <2>. QED BY <2>1
<1>2. ASSUME NEW v \in Workers, Attach(v) PROVE Goal
  <2>1. life[v] = "unborn" /\ \A u \in Workers : Attached(u)' <=> Attached(u) \/ u = v
    <3> HIDE DEF Goal
    <3>. QED BY <1>2, Attaches
  <2>. QED BY <2>1, <1>2
<1>3. ASSUME NEW i \in DOMAIN connections, Drop(i) PROVE Goal
  <2>1. PICK v \in Workers : /\ v = connections[i]
                             /\ \A u \in Workers : Attached(u)' <=> Attached(u) /\ u # v
    <3> HIDE DEF Goal
    <3>. QED BY <1>3, DropLoses
  <2>. QED BY <2>1, <1>3
<1> HIDE DEF Goal
<1>4. ASSUME NEW b \in Attempts, Dispatch(b) \/ Cancel(b) \/ EffectEnds(b) PROVE Goal
  BY <1>1, <1>4 DEF Dispatch, Cancel, EffectEnds, adapterVars
<1>5. ASSUME Reconcile \/ ReconcileReturns PROVE Goal
  BY <1>1, <1>5 DEF Reconcile, ReconcileReturns
<1>6. ASSUME NEW v \in Workers, WorkerHandlesFrame(v) \/ DrainCompletion(v) PROVE Goal
  BY <1>1, <1>6 DEF WorkerHandlesFrame, DrainCompletion, adapterVars
<1>7. ASSUME NEW v \in Workers, WorkerDies(v) PROVE Goal
  BY <1>1, <1>7 DEF WorkerDies, adapterVars
<1>8. ASSUME NEW i \in DOMAIN connections, HandleFrame(i) PROVE Goal
  BY <1>1, <1>8 DEF HandleFrame
<1>9. Goal
  BY <1>2, <1>3, <1>4, <1>5, <1>6, <1>7, <1>8 DEF Next
<1>. QED BY <1>9 DEF Goal

(* A dispatch on its way was, or is sent now.                               *)
LEMMA WaitingFrom ==
  ASSUME Typed, Wires, Next, NEW a \in Attempts, Waiting(a)'
  PROVE  Waiting(a) \/ Dispatch(a)
<1>1. PICK v \in Workers : \E n \in DOMAIN toWorker'[v] :
        toWorker'[v][n].type = "dispatch" /\ toWorker'[v][n].attempt = a
  BY DEF Waiting, Starts
<1> PICK n \in DOMAIN toWorker'[v] :
      toWorker'[v][n].type = "dispatch" /\ toWorker'[v][n].attempt = a
  BY <1>1
<1> DEFINE m == toWorker'[v][n]
<1>2. \/ \E k \in DOMAIN toWorker[v] : m = toWorker[v][k]
      \/ \E b \in Attempts : /\ carrier[b] = NoWorker /\ carrier'[b] = v
                             /\ m = [type |-> "dispatch", attempt |-> b]
      \/ \E b \in asked' : m = [type |-> "cancel", attempt |-> b]
      \/ m.type = "reconcile"
  BY OrdersFrom
<1>3. m.type = "dispatch" /\ m.attempt = a
  OBVIOUS
<1> HIDE DEF m
<1>4. ~\E b \in asked' : m = [type |-> "cancel", attempt |-> b]
  BY <1>3
<1>5. CASE \E k \in DOMAIN toWorker[v] : m = toWorker[v][k]
  BY <1>3, <1>5 DEF Waiting, Starts
<1>6. CASE \E b \in Attempts : /\ carrier[b] = NoWorker /\ carrier'[b] = v
                               /\ m = [type |-> "dispatch", attempt |-> b]
  <2>1. carrier'[a] # carrier[a]
    BY <1>3, <1>6, PlaneAssumption
  <2>. QED BY <2>1, CarriersFrom
<1>. QED BY <1>2, <1>3, <1>4, <1>5, <1>6

(* The attempt a frame stops is told, and its entry says so.                *)
LEMMA StopsRunning ==
  ASSUME Typed, NEW w \in Workers, WorkerHandlesFrame(w), NEW a \in Attempts,
         Stops(toWorker[w][1], a)
  PROVE  HandleCancel(w, a) /\ effect'[a] # "running"
<1>1. HandleCancel(w, a)
  <2>1. LET m == toWorker[w][1]
        IN  \/ \E b \in Attempts : Starts(m, b)
            \/ \E b \in Attempts : Stops(m, b) /\ HandleCancel(w, b)
            \/ m.type = "reconcile"
    BY Reaction, Zenon
  <2>. QED BY <2>1 DEF Starts, Stops
<1>2. \/ effect[a] = "none" /\ UNCHANGED effect
      \/ effect[a] \in Running /\ effect' = [effect EXCEPT ![a] = "stopping"]
      \/ effect[a] \notin Running \cup {"none"} /\ UNCHANGED effect
  BY <1>1, Cancels, Zenon
<1>. QED BY <1>1, <1>2 DEF Running, Typed, TypeOK
(* What an answer in front of its queue says ended was told.                *)
LEMMA AnswerInFront ==
  ASSUME Typed, Answered, NEW w \in Workers, 1 \in DOMAIN toController[w],
         toController[w][1].type = "answer", NEW a \in DOMAIN toController[w][1].entries
  PROVE  LET is == toController[w][1].entries[a]
         IN  /\ is = "completed" => a \in performed /\ Heard(a, {"completed"})
             /\ is = "failed" => Unsuccessful(a) /\ Heard(a, Outcomes)
             /\ is = "not_started" => Settled(a) /\ (a \in performed => Heard(a, Outcomes))
<1> DEFINE is == toController[w][1].entries[a]
<1>1. \A said : SaidBefore(w, 1, a, said) => Heard(a, said)
  BY DEF Typed, SaidBefore
<1>2. /\ is = "completed" => a \in performed /\ SaidBefore(w, 1, a, {"completed"})
      /\ is = "failed" => Unsuccessful(a) /\ SaidBefore(w, 1, a, Outcomes)
      /\ is = "not_started" => Settled(a) /\ (a \in performed => SaidBefore(w, 1, a, Outcomes))
  BY DEF Answered
<1>. QED BY <1>1, <1>2

(* What is told of a running attempt would have been told before.           *)
LEMMA RunningIsUnheard ==
  ASSUME Typed, Answered, Routed, Next, NEW a \in Attempts, effect[a] = "running"
  PROVE  Unheard(a)'
<1>1. SUFFICES ASSUME NEW r \in reported', r.attempt = a PROVE FALSE
  BY DEF Unheard
<1>2. Silent(a)
  BY DEF Routed
<1>3. CASE r \in reported
  BY <1>1, <1>2, <1>3 DEF Silent, Unheard
<1>4. CASE r \notin reported
  <2>1. PICK w \in Workers : Delivers(w, r)
    BY <1>4, ReportedFrom
  <2>2. PICK m : m = toController[w][1] /\ 1 \in DOMAIN toController[w]
    BY <2>1 DEF Delivers
  <2>3. CASE m.type = "evidence" /\ m.attempt = r.attempt
    BY <2>2, <2>3, <1>1, <1>2 DEF Silent, Ends, Speaks
  <2>4. CASE /\ m.type = "answer" /\ r.attempt \in DOMAIN m.entries
             /\ r.outcome = m.entries[r.attempt] /\ r.outcome \in Finished
    <3>1. Heard(a, {"completed"}) \/ Heard(a, Outcomes)
      BY <2>2, <2>4, <1>1, AnswerInFront DEF Finished
    <3>. QED BY <3>1, <1>2 DEF Silent, Unheard, Heard
  <2>. QED BY <2>1, <2>2, <2>3, <2>4 DEF Delivers
<1>. QED BY <1>3, <1>4

(* Nothing is on its way that would end what runs.                          *)
LEMMA RunningIsSilent ==
  ASSUME PlaneInv, Next, NEW a \in Attempts, effect'[a] = "running"
  PROVE  Silent(a)'
<1>0. Typed /\ Wires /\ Addressed /\ Fresh /\ Routed /\ Deferred /\ Answered
  BY DEF PlaneInv
<1>1. CASE effect[a] = "running"
  <2>1. Silent(a)
    BY <1>0, <1>1 DEF Routed
  <2>2. ASSUME NEW v \in Workers, NEW n \in DOMAIN toController'[v],
               Ends(toController'[v][n], a)
        PROVE  FALSE
    <3> DEFINE m == toController'[v][n]
    <3>1. m.type \in {"ack", "evidence", "cancel_ack"} /\ m.attempt = a
      BY <2>2 DEF Ends, Speaks
    <3>2. CASE \E k \in DOMAIN toController[v] : m = toController[v][k]
      BY <3>2, <2>1, <2>2 DEF Silent
    <3>3. CASE WorkerHandlesFrame(v) /\ Replies(v, m)
      <4> DEFINE o == toWorker[v][1]
      <4>1. ~Starts(o, a)
        BY <3>3, <1>0, <1>1, StartsUntouched DEF Untouched
      <4>2. ~Stops(o, a)
        BY <3>3, <1>0, StopsRunning
      <4>3. m # AnswerTo(o)
        BY <3>1 DEF AnswerTo
      <4> HIDE DEF m
      <4>. QED BY <3>1, <3>3, <4>1, <4>2, <4>3 DEF Replies
    <3>4. CASE DrainCompletion(v) /\ Announces(v, m)
      <4>1. PICK x \in Completions : x = completions[v][1]
        BY <1>0, <3>4, Drained
      <4>2. x.attempt \in Attempts /\ x.how # "running"
        BY DEF Completions, Outcomes
      <4>3. x.attempt # a
        <5>1. \/ effect' = [effect EXCEPT ![x.attempt] = x.how]
              \/ effect' = [effect EXCEPT ![x.attempt] = "stopped"]
          BY <1>0, <3>4, <4>1, Drains, Zenon
        <5>. QED BY <5>1, <4>2, <1>0 DEF Typed, TypeOK
      <4>4. deferred[x.attempt] # a
        BY <1>0, <1>1, <4>2, PlaneAssumption DEF Deferred
      <4>. QED BY <3>1, <3>4, <4>1, <4>3, <4>4 DEF Announces
    <3> HIDE DEF m
    <3>. QED BY <1>0, <3>1, <3>2, <3>3, <3>4, FramesFrom DEF m
  <2>. QED BY <1>0, <1>1, <2>2, RunningIsUnheard DEF Silent
<1>2. ASSUME NEW w \in Workers, Accepting(w, a) PROVE Silent(a)'
  <2>1. New(a) /\ Untouched(a)
    BY <1>0, <1>2, StartsUntouched DEF Accepting
  <2>2. Sent(w, <<DispatchAck(a, "accepted")>>)
    <3>1. Accept(w, a)
      BY <1>2 DEF Accepting
    <3>. QED BY <3>1, <1>0, Accepts, Zenon
  <2>3. Grew(w, {DispatchAck(a, "accepted")})
    <3>1. DispatchAck(a, "accepted") \in Frames
      BY FramesMade
    <3>. QED BY <2>2, <3>1, <1>0, Grows, Zenon
  <2>4. ~Ends(DispatchAck(a, "accepted"), a)
    BY DEF Ends, Speaks, DispatchAck, Releases
  <2>5. \A v \in Workers : \A n \in DOMAIN toController'[v] : ~Ends(toController'[v][n], a)
    BY <2>1, <2>3, <2>4 DEF Grew, Untouched, Silent
  <2>. QED BY <1>0, <2>1, <2>5, NewIsUnheard DEF Silent
<1>3. effect[a] = "running" \/ \E w \in Workers : Accepting(w, a)
  <2>1. ASSUME NEW w \in Workers, DrainCompletion(w) PROVE completions[w][1].how # "running"
    <3>1. PICK x \in Completions : x = completions[w][1]
      BY <1>0, <2>1, Drained
    <3>. QED BY <3>1 DEF Completions, Outcomes
  <2>. QED BY <1>0, <2>1, EffectsFrom
<1>. QED BY <1>1, <1>2, <1>3

LEMMA RoutedIsKept ==
  ASSUME PlaneInv, Next
  PROVE  Routed'
<1>0. Typed /\ Wires /\ Addressed /\ Fresh /\ Routed
  BY DEF PlaneInv
<1>1. ASSUME NEW a \in Attempts, Waiting(a)' \/ effect'[a] = "running", Attached(carrier[a])'
      PROVE  route'[a] # 0
  <2>1. CASE Dispatch(a)
    BY <1>0, <2>1, Dispatched
  <2>2. CASE ~Dispatch(a)
    <3>1. carrier'[a] = carrier[a]
      BY <1>0, <2>2, CarriersFrom
    <3>2. Waiting(a) \/ effect[a] = "running"
      <4>1. CASE Waiting(a)'
        BY <1>0, <2>2, <4>1, WaitingFrom
      <4>2. CASE effect'[a] = "running"
        <5>1. ASSUME NEW w \in Workers, DrainCompletion(w) PROVE completions[w][1].how # "running"
          <6>1. PICK x \in Completions : x = completions[w][1]
            BY <1>0, <5>1, Drained
          <6>. QED BY <6>1 DEF Completions, Outcomes
        <5>2. ASSUME NEW w \in Workers, Accepting(w, a) PROVE Waiting(a)
          <6>1. WorkerHandlesFrame(w) /\ Starts(toWorker[w][1], a)
            BY <5>2 DEF Accepting
          <6>2. 1 \in DOMAIN toWorker[w]
            BY <6>1, <1>0, Reaction, Zenon
          <6>. QED BY <6>1, <6>2 DEF Waiting
        <5>. QED BY <1>0, <4>2, <5>1, <5>2, EffectsFrom
      <4>. QED BY <1>1, <4>1, <4>2
    <3>3. carrier[a] \in Workers /\ life[carrier[a]] # "unborn"
      <4>1. carrier[a] # NoWorker
        <5>1. CASE Waiting(a)
          BY <1>0, <5>1, PlaneAssumption DEF Waiting, Starts, Addressed, Ours
        <5>2. CASE effect[a] = "running"
          BY <1>0, <5>2 DEF Fresh, New, Untouched
        <5>. QED BY <3>2, <5>1, <5>2
      <4>. QED BY <4>1, <1>0 DEF Addressed, Issued, Typed, TypeOK
    <3>4. Attached(carrier[a])
      <4>1. PICK w \in Workers : w = carrier[a]
        BY <3>3
      <4>2. Attached(w)'
        BY <1>1, <3>1, <4>1 DEF Attached
      <4>. QED BY <4>1, <4>2, <1>0, <3>3, AttachedFrom
    <3>5. route[a] # 0
      BY <3>2, <3>4, <1>0 DEF Routed
    <3>6. Silent(a)
      BY <1>0, <3>2 DEF Routed, Fresh, New, Untouched
    <3>7. CASE route'[a] = route[a]
      BY <3>5, <3>7
    <3>8. CASE \E i \in DOMAIN connections : Drop(i) /\ route'[a] = Reindexed(route[a], i)
      <4>1. PICK i \in DOMAIN connections : Drop(i) /\ route'[a] = Reindexed(route[a], i)
        BY <3>8
      <4>2. route[a] \in DOMAIN connections /\ connections[route[a]] = carrier[a]
        BY <1>0, <3>5 DEF Wires, RoutesLeadToTheCarrier
      <4>3. route[a] # i
        <5>1. SUFFICES ASSUME connections[i] = carrier[a] PROVE FALSE
          BY <4>2
        <5>2. PICK w \in Workers : /\ w = connections[i]
                                   /\ \A v \in Workers : Attached(v)' <=> Attached(v) /\ v # w
          BY <1>0, <4>1, DropLoses
        <5>3. ~Attached(w)'
          BY <5>2
        <5>. QED BY <5>1, <5>2, <5>3, <1>1, <3>1 DEF Attached
      <4>. QED BY <1>0, <4>1, <4>2, <4>3, Drops
    <3>9. ~\E w \in Workers : 1 \in DOMAIN toController[w] /\ Ends(toController[w][1], a)
      BY <3>6 DEF Silent
    <3>. QED BY <1>0, <2>2, <3>7, <3>8, <3>9, RoutesFrom
  <2>. QED BY <2>1, <2>2
<1>. QED BY <1>1, RunningIsSilent DEF Routed
-----------------------------------------------------------------------------
(* Retries that wait.                                                       *)

(* Nothing is heard of an attempt unless evidence of it is delivered.       *)
LEMMA UnheardStays ==
  ASSUME Typed, Answered, Next, NEW a \in Attempts, Unheard(a),
         \A w \in Workers : \A n \in DOMAIN toController[w] : ~Speaks(toController[w][n], a)
  PROVE  Unheard(a)'
<1>1. SUFFICES ASSUME NEW r \in reported', r.attempt = a PROVE FALSE
  BY DEF Unheard
<1>2. PICK w \in Workers : Delivers(w, r)
  BY <1>1, ReportedFrom DEF Unheard
<1>3. PICK m : m = toController[w][1] /\ 1 \in DOMAIN toController[w]
  BY <1>2 DEF Delivers
<1>4. CASE m.type = "evidence" /\ m.attempt = r.attempt
  BY <1>1, <1>3, <1>4 DEF Speaks
<1>5. CASE /\ m.type = "answer" /\ r.attempt \in DOMAIN m.entries
           /\ r.outcome = m.entries[r.attempt] /\ r.outcome \in Finished
  <2>1. Heard(a, {"completed"}) \/ Heard(a, Outcomes)
    BY <1>1, <1>3, <1>5, AnswerInFront DEF Finished
  <2>. QED BY <2>1 DEF Unheard, Heard
<1>. QED BY <1>2, <1>3, <1>4, <1>5 DEF Delivers

(* An attempt without an entry, and not new, gets none.                     *)
LEMMA NoneStays ==
  ASSUME Typed, Addressed, Fresh, Worked, Next, NEW b \in Attempts, ~New(b), effect[b] = "none"
  PROVE  effect'[b] = "none"
<1>1. ASSUME NEW w \in Workers PROVE ~Accepting(w, b)
  BY StartsUntouched DEF Accepting
<1>2. ASSUME NEW w \in Workers PROVE ~Stopping(w, b)
  BY DEF Stopping, Running
<1>3. ASSUME NEW w \in Workers, DrainCompletion(w) PROVE completions[w][1].attempt # b
  <2>1. 1 \in DOMAIN completions[w]
    BY <1>3, Drained
  <2>. QED BY <2>1 DEF Worked, Running
<1>. QED BY <1>1, <1>2, <1>3, EffectsFrom

(* It never worked, and does not.                                           *)
LEMMA IdleStays ==
  ASSUME Typed, Addressed, Fresh, Next, NEW b \in Attempts, ~New(b), b \notin Begun
  PROVE  b \notin Begun'
<1>1. ASSUME NEW w \in Workers PROVE ~Accepting(w, b)
  BY StartsUntouched DEF Accepting
<1>2. ~EffectEnds(b)
  BY DEF EffectEnds, Begun
<1>. QED BY <1>1, <1>2, LedgersFrom DEF Begun

(* A retry that is deferred is told of when what it waits for ends.         *)
LEMMA DeferredGoesOn ==
  ASSUME PlaneInv, Next, NEW h \in Attempts, deferred[h] \in Attempts, deferred'[h] = deferred[h]
  PROVE  \A v \in Workers : \A n \in DOMAIN toController'[v] :
           ~Speaks(toController'[v][n], deferred[h])
<1>0. Typed /\ Wires /\ Addressed /\ Fresh /\ Deferred /\ Worked
  BY DEF PlaneInv
<1>1. PICK b \in Attempts : b = deferred[h]
  OBVIOUS
<1>2. /\ ~New(b) /\ effect[b] = "none" /\ \A g \in Attempts : deferred[g] = b => g = h
      /\ \A w \in Workers : \A n \in DOMAIN toController[w] : ~Speaks(toController[w][n], b)
  BY <1>0, <1>1, PlaneAssumption DEF Deferred
<1> SUFFICES ASSUME NEW v \in Workers, NEW n \in DOMAIN toController'[v],
                    Speaks(toController'[v][n], b)
             PROVE  FALSE
  BY <1>1
<1> DEFINE m == toController'[v][n]
<1>3. m.type = "evidence" /\ m.attempt = b
  BY DEF Speaks
<1>4. CASE \E k \in DOMAIN toController[v] : m = toController[v][k]
  BY <1>2, <1>4
<1> HIDE DEF m
<1>5. CASE WorkerHandlesFrame(v) /\ Replies(v, m)
  <2>1. ~Starts(toWorker[v][1], b)
    BY <1>0, <1>2, <1>5, StartsUntouched
  <2>2. m # AnswerTo(toWorker[v][1])
    BY <1>3 DEF AnswerTo
  <2>. QED BY <1>2, <1>3, <1>5, <2>1, <2>2 DEF Replies
<1>6. CASE DrainCompletion(v) /\ Announces(v, m)
  <2>1. PICK x \in Completions : x = completions[v][1] /\ 1 \in DOMAIN completions[v]
    BY <1>0, <1>6, Drained
  <2>2. x.attempt \in Attempts /\ effect[x.attempt] \in Running
    BY <1>0, <2>1 DEF Completions, Worked
  <2>3. x.attempt # b
    BY <1>2, <2>2 DEF Running
  <2>4. deferred[x.attempt] = b /\ Publishes(x.attempt, x.how)
    BY <1>3, <1>6, <2>1, <2>3 DEF Announces
  <2>5. x.attempt = h
    BY <1>2, <2>2, <2>4
  <2>6. deferred' = [deferred EXCEPT ![x.attempt] = NoAttempt]
    BY <1>0, <1>6, <2>1, <2>4, Drains, Zenon
  <2>. QED BY <2>5, <2>6, <1>0, <1>1, PlaneAssumption DEF Typed, TypeOK
<1>. QED BY <1>0, <1>3, <1>4, <1>5, <1>6, FramesFrom DEF m

(* A retry is deferred when nothing at all is known of it.                  *)
LEMMA DeferringSends ==
  ASSUME Typed, Addressed, Fresh, NEW w \in Workers, NEW b \in Attempts, NEW h \in Attempts,
         Deferring(w, b, h)
  PROVE  \A v \in Workers : \A n \in DOMAIN toController'[v] : ~Speaks(toController'[v][n], b)
<1>1. WorkerHandlesFrame(w) /\ Starts(toWorker[w][1], b) /\ h \in Holders(w, Key[b])
      /\ deferred' = [deferred EXCEPT ![h] = b]
  BY DEF Deferring
<1>2. Untouched(b)
  BY <1>1, StartsUntouched
<1>3. Duplicate(w, b)
  <2>1. LET m == toWorker[w][1]
        IN  \/ \E a \in Attempts : Starts(m, a) /\ Duplicate(w, a)
            \/ \E a \in Attempts : Starts(m, a) /\ ~Knows(w, a)
            \/ \E a \in Attempts : Stops(m, a)
            \/ m.type = "reconcile"
    BY <1>1, Reaction, Zenon
  <2>2. Knows(w, b)
    BY <1>1 DEF Knows
  <2>. QED BY <2>1, <2>2, <1>1 DEF Starts, Stops
<1>4. UNCHANGED deferred \/ Sent(w, <<DispatchAck(b, "duplicate")>>)
  BY <1>3, Duplicates, Zenon
<1>5. ~UNCHANGED deferred
  BY <1>1, <1>2 DEF Untouched, Typed, TypeOK
<1>6. Grew(w, {DispatchAck(b, "duplicate")})
  <2>1. DispatchAck(b, "duplicate") \in Frames
    BY FramesMade
  <2>. QED BY <2>1, <1>4, <1>5, Grows, Zenon
<1>7. ~Speaks(DispatchAck(b, "duplicate"), b)
  BY DEF Speaks, DispatchAck
<1>. QED BY <1>2, <1>6, <1>7 DEF Grew, Untouched, Silent, Ends

LEMMA DeferredIsKept ==
  ASSUME PlaneInv, Next, Typed'
  PROVE  Deferred'
<1>0. Typed /\ Wires /\ Addressed /\ Fresh /\ Deferred /\ Worked /\ Answered
  BY DEF PlaneInv
<1> DEFINE Late(h, b) == /\ ~New(b)' /\ carrier'[b] = carrier'[h] /\ effect'[b] = "none"
                         /\ b \notin Begun'
                         /\ \A w \in Workers : \A n \in DOMAIN toController'[w] :
                              ~Speaks(toController'[w][n], b)
                         /\ Unheard(b)'
                         /\ \A g \in Attempts : deferred'[g] = b => g = h
<1> SUFFICES ASSUME NEW h \in Attempts, NEW b \in Attempts, b = deferred'[h] PROVE Late(h, b)
  <2>1. \A h \in Attempts : deferred'[h] # NoAttempt => deferred'[h] \in Attempts
    BY DEF Typed, TypeOK
  <2>2. \A h, b \in Attempts : b = deferred'[h] => Late(h, b)
    OBVIOUS
  <2> SUFFICES ASSUME NEW h \in Attempts, deferred'[h] # NoAttempt
               PROVE  /\ ~New(deferred[h])' /\ carrier'[deferred'[h]] = carrier'[h]
                      /\ effect'[deferred'[h]] = "none"
                      /\ deferred'[h] \notin working' \cup performed'
                      /\ \A w \in Workers : \A n \in DOMAIN toController'[w] :
                           ~Speaks(toController'[w][n], deferred'[h])
                      /\ Unheard(deferred[h])'
                      /\ \A g \in Attempts : deferred'[g] = deferred'[h] => g = h
    BY DEF Deferred, Speaks
  <2>3. PICK b \in Attempts : b = deferred'[h]
    BY <2>1
  <2>4. Late(h, b)
    BY <2>2, <2>3
  <2>. QED BY <2>3, <2>4 DEF New, Waiting, Unheard, Begun
<1>0a. b # NoAttempt
  BY PlaneAssumption
<1>1. CASE deferred'[h] = deferred[h]
  <2>1. b = deferred[h] /\ b = deferred'[h]
    BY <1>1
  <2>2. /\ ~New(b) /\ carrier[b] = carrier[h] /\ effect[b] = "none"
        /\ b \notin Begun
        /\ \A w \in Workers : \A n \in DOMAIN toController[w] : ~Speaks(toController[w][n], b)
        /\ Unheard(b)
        /\ \A g \in Attempts : deferred[g] = b => g = h
    BY <1>0, <1>0a, <1>1, <2>1 DEF Deferred, Begun
  <2>3. ~New(b)' /\ effect'[b] = "none" /\ b \notin Begun' /\ Unheard(b)'
    BY <1>0, <2>2, NewFades, NoneStays, IdleStays, UnheardStays
  <2>4. carrier'[b] = carrier'[h]
    BY <1>0, <2>2, OrdersFrom DEF New
  <2>5. \A w \in Workers : \A n \in DOMAIN toController'[w] : ~Speaks(toController'[w][n], b)
    BY <1>1, <2>1, DeferredGoesOn
  <2>6. ASSUME NEW g \in Attempts, deferred'[g] = b PROVE g = h
    <3>1. ASSUME NEW w \in Workers PROVE ~Deferring(w, b, g)
      BY <1>0, <2>2, StartsUntouched DEF Deferring
    <3>. QED BY <1>0, <2>1, <2>2, <2>6, <3>1, LedgersFrom, PlaneAssumption
  <2>. QED BY <2>1, <2>3, <2>4, <2>5, <2>6
<1>2. ASSUME NEW w \in Workers, Deferring(w, b, h) PROVE Late(h, b)
  <2>1. /\ WorkerHandlesFrame(w) /\ Starts(toWorker[w][1], b) /\ h \in Holders(w, Key[b])
        /\ deferred' = [deferred EXCEPT ![h] = b] /\ UNCHANGED <<effect, working>>
    BY <1>2 DEF Deferring
  <2>2. New(b) /\ Untouched(b) /\ carrier[b] = w /\ carrier[h] = w
    BY <1>0, <2>1, StartsUntouched DEF Holders
  <2>3. ~New(b)'
    BY <1>0, <2>1, StartedIsNotNew
  <2>4. carrier'[b] = carrier'[h] /\ effect'[b] = "none" /\ b \notin Begun'
    <3>1. UNCHANGED <<carrier, performed>>
      BY <2>1 DEF WorkerHandlesFrame, askVars
    <3>. QED BY <3>1, <2>1, <2>2 DEF Begun, Untouched
  <2>5. \A g \in Attempts : deferred'[g] = b => g = h
    <3>1. \A g \in Attempts : deferred[g] # b
      BY <2>2 DEF Untouched
    <3>2. deferred \in [Attempts -> Attempts \cup {NoAttempt}]
      BY <1>0 DEF Typed, TypeOK
    <3>. QED BY <2>1, <3>1, <3>2
  <2>6. Unheard(b)'
    BY <1>0, <2>2, NewIsUnheard
  <2>. QED BY <1>0, <1>2, <2>3, <2>4, <2>5, <2>6, DeferringSends
<1>3. \/ deferred'[h] = deferred[h]
      \/ \E w \in Workers : Deferring(w, b, h)
  BY <1>0, <1>0a, LedgersFrom
<1>. QED BY <1>1, <1>2, <1>3
-----------------------------------------------------------------------------
(* Threads and keys.                                                        *)

(* A thread works for an effect that runs.                                  *)
LEMMA WorkersRun ==
  ASSUME PlaneInv, Next, NEW a \in working'
  PROVE  effect'[a] \in Running
<1>0. Typed /\ Wires /\ Addressed /\ Fresh /\ Worked /\ a \in Attempts
  <2>1. Typed /\ Wires /\ Addressed /\ Fresh /\ Worked
    BY DEF PlaneInv
  <2>2. \A w \in Workers : \A b : Accepting(w, b) => WorkerHandlesFrame(w) /\ Starts(toWorker[w][1], b)
    BY DEF Accepting
  <2>3. \A w \in Workers : WorkerHandlesFrame(w) => toWorker[w][1] \in Orders
    BY <2>1, Reaction, Zenon
  <2>4. \A m \in Orders : \A b : Starts(m, b) => b \in Attempts
    BY OrderTypes DEF Starts
  <2>5. a \in working \/ \E w \in Workers : Accepting(w, a)
    BY <2>1, LedgersFrom
  <2>. QED BY <2>1, <2>2, <2>3, <2>4, <2>5 DEF Typed, TypeOK, Issued
<1>1. CASE \E w \in Workers : Accepting(w, a)
  <2>1. PICK w \in Workers : Accepting(w, a)
    BY <1>1
  <2>2. Accept(w, a)
    BY <2>1 DEF Accepting
  <2>3. \A b \in Attempts : effect'[b] = IF b = a THEN "running"
                            ELSE IF b \in Victims(w) THEN "none" ELSE effect[b]
    BY <1>0, <2>2, Accepts, Zenon
  <2>. QED BY <1>0, <2>3 DEF Running
<1>2. CASE ~\E w \in Workers : Accepting(w, a)
  <2>1. a \in working /\ effect[a] \in Running
    BY <1>0, <1>2, LedgersFrom DEF Worked
  <2>2. ASSUME NEW w \in Workers PROVE a \notin Victims(w)
    BY <1>0, <2>1, VictimsEnded
  <2>3. ASSUME carrier[a] \in Workers, WorkerDies(carrier[a]) PROVE FALSE
    <3>1. working' = {b \in working : carrier[b] # carrier[a]}
      BY <2>3 DEF WorkerDies
    <3>. QED BY <3>1
  <2>4. ASSUME NEW w \in Workers, DrainCompletion(w) PROVE completions[w][1].attempt # a
    <3>1. 1 \in DOMAIN completions[w]
      BY <1>0, <2>4, Drained
    <3>. QED BY <3>1, <2>1, <1>0 DEF Worked
  <2>. QED BY <1>0, <1>2, <2>1, <2>2, <2>3, <2>4, EffectsFrom DEF Running
<1>. QED BY <1>1, <1>2

(* What a thread left is still to be taken up by an entry at work.          *)
LEMMA ResultsRun ==
  ASSUME PlaneInv, Next, NEW v \in Workers, NEW n \in DOMAIN completions'[v],
         NEW k \in DOMAIN completions[v], completions'[v][n] = completions[v][k],
         \A w \in Workers : DrainCompletion(w) =>
           completions[w][1].attempt # completions[v][k].attempt
  PROVE  LET c == completions'[v][n]
         IN  /\ effect'[c.attempt] \in Running /\ c.attempt \notin working'
             /\ c.how = "completed" => c.attempt \in performed'
             /\ c.how = "stopped" => effect'[c.attempt] = "stopping"
<1>0. Typed /\ Wires /\ Addressed /\ Fresh /\ Worked
  BY DEF PlaneInv
<1>1. PICK c \in Completions : c = completions'[v][n] /\ c = completions[v][k]
  BY <1>0 DEF Typed
<1>2. PICK a \in Attempts : a = c.attempt
  BY DEF Completions
<1>3. /\ effect[a] \in Running /\ a \notin working /\ (c.how = "completed" => a \in performed)
      /\ c.how = "stopped" => effect[a] = "stopping"
  BY <1>0, <1>1, <1>2 DEF Worked
<1>4. carrier[a] = v
  BY <1>0, <1>1, <1>2 DEF Addressed
<1>5. ASSUME NEW w \in Workers PROVE ~Accepting(w, a)
  BY <1>0, <1>3, StartsUntouched DEF Accepting, Untouched, Running
<1>6. ASSUME NEW w \in Workers PROVE a \notin Victims(w)
  BY <1>0, <1>3, VictimsEnded
<1>7. ~WorkerDies(v)
  <2>1. SUFFICES ASSUME WorkerDies(v) PROVE FALSE
    OBVIOUS
  <2>2. DOMAIN completions'[v] = {}
    BY <1>0, <2>1, Dies
  <2>. QED BY <2>2
<1>8. ASSUME NEW w \in Workers, DrainCompletion(w) PROVE completions[w][1].attempt # a
  BY <1>1, <1>2, <1>8
<1>9. effect'[a] = effect[a] \/ effect'[a] = "stopping"
  BY <1>0, <1>4, <1>5, <1>6, <1>7, <1>8, EffectsFrom
<1>10. a \notin working' /\ performed \subseteq performed'
  BY <1>0, <1>3, <1>5, LedgersFrom
<1>. QED BY <1>1, <1>2, <1>3, <1>9, <1>10 DEF Running

(* Results wait to be taken up, once each.                                  *)
LEMMA ResultsAreKept ==
  ASSUME PlaneInv, Next, NEW v \in Workers, NEW n \in DOMAIN completions'[v]
  PROVE  LET c == completions'[v][n]
         IN  /\ effect'[c.attempt] \in Running /\ c.attempt \notin working'
             /\ c.how = "completed" => c.attempt \in performed'
             /\ c.how = "stopped" => effect'[c.attempt] = "stopping"
             /\ \A k \in DOMAIN completions'[v] : completions'[v][k].attempt = c.attempt => k = n
<1>0. Typed /\ Wires /\ Addressed /\ Fresh /\ Worked
  BY DEF PlaneInv
<1> DEFINE Run == LET c == completions'[v][n]
                  IN  /\ effect'[c.attempt] \in Running /\ c.attempt \notin working'
                      /\ c.how = "completed" => c.attempt \in performed'
                      /\ c.how = "stopped" => effect'[c.attempt] = "stopping"
           One == \A k \in DOMAIN completions'[v] :
                    completions'[v][k].attempt = completions'[v][n].attempt => k = n
           Goal == Run /\ One
<1>1. \A i, j \in DOMAIN completions[v] :
        completions[v][i].attempt = completions[v][j].attempt => i = j
  BY <1>0 DEF Worked
<1>2. ASSUME completions'[v] = completions[v], \A w \in Workers : w # v \/ ~DrainCompletion(w)
      PROVE  Goal
  <2>1. ASSUME NEW w \in Workers, DrainCompletion(w)
        PROVE  completions[w][1].attempt # completions[v][n].attempt
    <3>1. 1 \in DOMAIN completions[w] /\ w # v
      BY <1>0, <1>2, <2>1, Drained
    <3>. QED BY <3>1, <1>0, <1>2 DEF Addressed
  <2>2. Run
    BY <1>2, <2>1, ResultsRun
  <2>3. One
    BY <1>1, <1>2
  <2>. QED BY <2>2, <2>3
<1>3. ASSUME DrainCompletion(v) PROVE Goal
  <2>1. /\ 1 \in DOMAIN completions[v]
        /\ \A j \in DOMAIN completions'[v] : j \in Nat /\ j + 1 \in DOMAIN completions[v]
                                             /\ completions'[v][j] = completions[v][j + 1]
    <3> HIDE DEF Goal, Run, One
    <3>. QED BY <1>0, <1>3, Drained
  <2>2. \A j \in DOMAIN completions'[v] : j # 0
    <3>1. completions'[v] \in Seq(Completions)
      BY <1>0, <1>3, Drains, Zenon
    <3>. QED BY <3>1
  <2>3. ASSUME NEW w \in Workers, DrainCompletion(w)
        PROVE  completions[w][1].attempt # completions[v][n + 1].attempt
    <3>1. 1 \in DOMAIN completions[w]
      BY <1>0, <2>3, Drained
    <3>2. CASE w = v
      BY <2>1, <2>2, <3>2, <1>1
    <3>3. CASE w # v
      BY <3>1, <3>3, <2>1, <1>0 DEF Addressed
    <3>. QED BY <3>2, <3>3
  <2>4. Run
    BY <2>1, <2>3, ResultsRun
  <2>5. One
    BY <1>1, <2>1
  <2>. QED BY <2>4, <2>5
<1>4. ASSUME NEW a \in Attempts, EffectEnds(a) PROVE Goal
  <2>1. PICK how \in Outcomes :
              /\ how = "stopped" => effect[a] = "stopping"
              /\ performed' = IF how = "completed" THEN performed \cup {a} ELSE performed
              /\ \A u \in Workers : \A j \in DOMAIN completions[u] :
                   j \in DOMAIN completions'[u] /\ completions'[u][j] = completions[u][j]
              /\ \A u \in Workers : \A j \in DOMAIN completions'[u] \ DOMAIN completions[u] :
                   /\ u = carrier[a] /\ j = Len(completions[u]) + 1
                   /\ completions'[u][j] = [attempt |-> a, how |-> how]
    <3> HIDE DEF Goal, Run, One
    <3>. QED BY <1>0, <1>4, Ended
  <2>2. a \in working /\ working' = working \ {a} /\ effect' = effect
    BY <1>4 DEF EffectEnds
  <2>3. \A j \in DOMAIN completions[v] : completions[v][j].attempt # a
    BY <1>0, <2>2 DEF Worked
  <2>4. ASSUME NEW w \in Workers PROVE ~DrainCompletion(w)
    BY <1>4 DEF EffectEnds, DrainCompletion
  <2>5. CASE n \in DOMAIN completions[v]
    <3>1. Run
      BY <2>1, <2>4, <2>5, ResultsRun
    <3>2. One
      BY <2>1, <2>3, <2>5, <1>1
    <3>. QED BY <3>1, <3>2
  <2>6. CASE n \notin DOMAIN completions[v]
    <3>1. PICK c : c = [attempt |-> a, how |-> how]
      OBVIOUS
    <3>2. completions'[v][n] = c /\ c.attempt = a /\ c.how = how
      BY <2>1, <2>6, <3>1
    <3>3. effect[a] \in Running
      BY <1>0, <2>2 DEF Worked
    <3>4. Run
      BY <3>2, <3>3, <2>1, <2>2
    <3>5. One
      BY <2>1, <2>3, <2>6, <3>2
    <3>. QED BY <3>4, <3>5
  <2>. QED BY <2>5, <2>6
<1>5. ASSUME NEW w \in Workers, WorkerDies(w) PROVE Goal
  <2>1. DOMAIN completions'[w] = {} /\ \A u \in Workers \ {w} : completions'[u] = completions[u]
    <3> HIDE DEF Goal, Run, One
    <3>. QED BY <1>0, <1>5, Dies
  <2>2. ASSUME NEW u \in Workers PROVE ~DrainCompletion(u)
    <3>1. life[w] = "connected" /\ life' = [life EXCEPT ![w] = "gone"]
      BY <1>5 DEF WorkerDies
    <3>2. life' # life
      BY <3>1, <1>0 DEF Typed, TypeOK
    <3>. QED BY <3>2 DEF DrainCompletion
  <2> HIDE DEF Goal
  <2>. QED BY <2>1, <2>2, <1>2
<1> HIDE DEF Goal, Run, One
<1>6. ASSUME NEW w \in Workers, DrainCompletion(w) PROVE Goal
  <2>1. CASE w = v
    BY <1>3, <1>6, <2>1
  <2>2. CASE w # v
    <3>1. completions'[v] = completions[v] /\ completions'[w] # completions[w]
      <4>1. /\ completions' \in [Workers -> Seq(Completions)]
            /\ Popped(completions'[w], completions[w])
            /\ \A u \in Workers \ {w} : completions'[u] = completions[u]
        BY <1>0, <1>6, Drains, Zenon
      <4>. QED BY <4>1, <2>2, <1>0 DEF Popped, Typed
    <3>2. ASSUME NEW u \in Workers, DrainCompletion(u) PROVE u # v
      <4>1. \A x \in Workers \ {u} : completions'[x] = completions[x]
        BY <1>0, <3>2, Drained
      <4>. QED BY <4>1, <3>1, <2>2
    <3>. QED BY <3>1, <3>2, <1>2
  <2>. QED BY <2>1, <2>2
<1>7. ASSUME UNCHANGED completions PROVE Goal
  <2>1. ASSUME NEW w \in Workers PROVE ~DrainCompletion(w)
    <3>1. SUFFICES ASSUME DrainCompletion(w) PROVE FALSE
      OBVIOUS
    <3>2. Popped(completions'[w], completions[w])
      BY <1>0, <3>1, Drains, Zenon
    <3>. QED BY <3>2, <1>7, <1>0 DEF Popped, Typed
  <2>. QED BY <2>1, <1>2, <1>7
<1>8. ASSUME NEW w \in Workers, WorkerHandlesFrame(w) PROVE Goal
  BY <1>7, <1>8 DEF WorkerHandlesFrame
<1>9. Goal
  BY <1>4, <1>5, <1>6, <1>7, <1>8, LedgersStay
<1>. QED BY <1>9 DEF Goal, Run, One
(* Who works, or worked, did so before or is taken up now.                  *)
LEMMA BegunFrom ==
  ASSUME Typed, Next, NEW a \in Begun'
  PROVE  a \in Begun \/ \E w \in Workers : Accepting(w, a)
<1>1. \A b \in performed' \ performed : b \in working
  BY LedgersFrom DEF EffectEnds
<1>. QED BY <1>1, LedgersFrom DEF Begun

(* What begun is on record, was forgotten, or is gone with its worker.      *)
LEMMA BegunIsRecorded ==
  ASSUME PlaneInv, Next, NEW a \in Begun'
  PROVE  effect'[a] # "none" \/ Forgotten(a)' \/ life'[carrier'[a]] = "gone"
<1>0. Typed /\ Wires /\ Addressed /\ Fresh /\ Worked
  BY DEF PlaneInv
<1>1. Forgotten(a) => Forgotten(a)'
  BY <1>0, LedgersFrom DEF Forgotten
<1>2. CASE a \in Begun
  <2>1. a \in Attempts /\ carrier[a] \in Workers /\ carrier'[a] = carrier[a]
    <3>1. a \in Issued
      BY <1>0, <1>2 DEF Begun, Typed, TypeOK
    <3>. QED BY <3>1, <1>0, OrdersFrom DEF Issued, Typed, TypeOK
  <2>2. effect[a] # "none" \/ Forgotten(a) \/ life[carrier[a]] = "gone"
    BY <1>0, <1>2 DEF Worked
  <2>3. life[carrier[a]] = "gone" => life'[carrier'[a]] = "gone"
    BY <1>0, <2>1, LivesGoOn
  <2>4. WorkerDies(carrier[a]) => life'[carrier'[a]] = "gone"
    BY <1>0, <2>1, Dies
  <2>5. ASSUME NEW w \in Workers, NEW b \in Attempts, Accepting(w, b), a \in Victims(w)
        PROVE  Forgotten(a)'
    <3>1. Accept(w, b)
      BY <2>5 DEF Accepting
    <3>2. evicted' = evicted \cup (Victims(w) \X {b})
      BY <3>1, <1>0, Accepts, Zenon
    <3>3. <<a, b>> \in evicted' /\ <<a, b>>[1] = a
      BY <3>2, <2>5
    <3>. QED BY <3>3 DEF Forgotten
  <2>6. CASE effect'[a] = "none" /\ effect[a] # "none"
    BY <1>0, <2>1, <2>4, <2>5, <2>6, EffectsFrom
  <2>. QED BY <1>1, <2>2, <2>3, <2>6
<1>3. ASSUME NEW w \in Workers, Accepting(w, a) PROVE effect'[a] # "none"
  <2>1. Accept(w, a)
    BY <1>3 DEF Accepting
  <2>2. a \in Attempts
    <3>1. toWorker[w][1] \in Orders /\ Starts(toWorker[w][1], a)
      <4>1. WorkerHandlesFrame(w) /\ Starts(toWorker[w][1], a)
        BY <1>3 DEF Accepting
      <4>. QED BY <4>1, <1>0, Reaction, Zenon
    <3>. QED BY <3>1, OrderTypes DEF Starts
  <2>3. \A b \in Attempts : effect'[b] = IF b = a THEN "running"
                            ELSE IF b \in Victims(w) THEN "none" ELSE effect[b]
    BY <1>0, <2>1, <2>2, Accepts, Zenon
  <2>. QED BY <2>2, <2>3
<1>. QED BY <1>0, <1>2, <1>3, BegunFrom

(* A worker takes up a key only when it holds no record of it.              *)
LEMMA KeyIsTakenUpOnce ==
  ASSUME PlaneInv, NEW w \in Workers, NEW a \in Attempts, Accepting(w, a),
         NEW b \in Begun, Key[a] = Key[b], carrier[b] = w
  PROVE  Forgotten(b)
<1>0. Typed /\ Addressed /\ Worked
  BY DEF PlaneInv
<1>1. b \in Attempts
  BY <1>0 DEF Begun, Typed, TypeOK, Issued
<1>2. effect[b] = "none"
  BY <1>1 DEF Accepting, Knows, Holders
<1>3. life[w] = "connected"
  BY DEF Accepting, WorkerHandlesFrame
<1>. QED BY <1>0, <1>2, <1>3 DEF Worked

LEMMA WorkedIsKept ==
  ASSUME PlaneInv, Next
  PROVE  Worked'
<1>0. Typed /\ Wires /\ Addressed /\ Fresh /\ Worked
  BY DEF PlaneInv
<1>1. ASSUME NEW a \in Attempts, effect'[a] = "completed" PROVE a \in performed'
  <2>1. performed \subseteq performed'
    BY <1>0, LedgersFrom
  <2>2. ASSUME NEW w \in Workers, DrainCompletion(w), completions[w][1].attempt = a,
               completions[w][1].how = "completed"
        PROVE  a \in performed
    <3>1. 1 \in DOMAIN completions[w]
      BY <1>0, <2>2, Drained
    <3>. QED BY <3>1, <2>2, <1>0 DEF Worked
  <2>. QED BY <1>0, <1>1, <2>1, <2>2, EffectsFrom DEF Worked
<1>2. ASSUME NEW a \in Begun', NEW b \in Begun', a # b, Key[a] = Key[b], carrier'[a] = carrier'[b]
      PROVE  Forgotten(a)' \/ Forgotten(b)'
  <2>1. \A x : Forgotten(x) => Forgotten(x)'
    BY <1>0, LedgersFrom DEF Forgotten
  <2>2. \A x \in Begun : x \in Attempts /\ carrier[x] # NoWorker /\ carrier'[x] = carrier[x]
    <3>1. \A x \in Begun : x \in Issued
      BY <1>0 DEF Begun, Typed, TypeOK
    <3>. QED BY <3>1, <1>0, OrdersFrom DEF Issued
  <2>3. ASSUME NEW x \in Begun', NEW w \in Workers, Accepting(w, x),
               NEW y \in Begun', y # x, Key[x] = Key[y], carrier'[x] = carrier'[y]
        PROVE  Forgotten(y)
    <3>1. x \in Attempts /\ carrier'[x] = w
      <4>1. toWorker[w][1] \in Orders /\ Starts(toWorker[w][1], x)
        <5>1. WorkerHandlesFrame(w) /\ Starts(toWorker[w][1], x)
          BY <2>3 DEF Accepting
        <5>. QED BY <5>1, <1>0, Reaction, Zenon
      <4>2. x \in Attempts
        BY <4>1, OrderTypes DEF Starts
      <4>3. carrier[x] = w
        BY <4>2, <2>3, <1>0, StartsUntouched DEF Accepting
      <4>. QED BY <4>2, <4>3, <1>0, OrdersFrom, PlaneAssumption
    <3>2. ASSUME NEW v \in Workers PROVE ~Accepting(v, y)
      <4>1. SUFFICES ASSUME Accepting(v, y) PROVE FALSE
        OBVIOUS
      <4>2. toWorker[v][1] \in Orders /\ Starts(toWorker[v][1], y)
        <5>1. WorkerHandlesFrame(v) /\ Starts(toWorker[v][1], y)
          BY <4>1 DEF Accepting
        <5>. QED BY <5>1, <1>0, Reaction, Zenon
      <4>3. y \in Attempts
        BY <4>2, OrderTypes DEF Starts
      <4>4. working' = working \cup {x} /\ working' = working \cup {y}
        <5>1. Accept(w, x) /\ Accept(v, y)
          BY <2>3, <4>1 DEF Accepting
        <5>. QED BY <5>1, <4>3, <3>1, <1>0, Accepts, Zenon
      <4>5. x \notin working
        BY <3>1, <2>3, <1>0, StartsUntouched DEF Accepting, Untouched
      <4>. QED BY <4>4, <4>5, <2>3
    <3>3. y \in Begun
      BY <1>0, <3>2, BegunFrom
    <3>. QED BY <3>1, <3>3, <2>2, <2>3, KeyIsTakenUpOnce
  <2>4. CASE a \in Begun /\ b \in Begun
    <3>1. Forgotten(a) \/ Forgotten(b)
      BY <1>0, <1>2, <2>2, <2>4 DEF Worked
    <3>. QED BY <3>1, <2>1
  <2>. QED BY <1>0, <1>2, <2>1, <2>3, <2>4, BegunFrom
<1>3. ASSUME NEW e \in evicted' PROVE Key[e[1]] # Key[e[2]] /\ e[1] \notin working'
  <2>1. CASE e \in evicted
    <3>1. e[1] \in Attempts
      BY <1>0, <2>1 DEF Typed, TypeOK, Issued
    <3>2. ASSUME NEW w \in Workers PROVE ~Accepting(w, e[1])
      BY <1>0, <2>1, <3>1, StartsUntouched DEF Accepting, Untouched
    <3>. QED BY <1>0, <2>1, <3>2, LedgersFrom DEF Worked
  <2>2. CASE e \notin evicted
    <3>1. PICK w \in Workers, a \in Attempts : Accepting(w, a) /\ e \in Victims(w) \X {a}
      BY <1>0, <2>2, LedgersFrom
    <3>2. e[1] \in Victims(w) /\ e[2] = a
      BY <3>1
    <3>3. e[1] \in Attempts /\ carrier[e[1]] = w /\ effect[e[1]] \notin Running \cup {"none"}
      BY <3>2, <1>0, VictimsEnded
    <3>4. Key[e[1]] # Key[a]
      BY <3>1, <3>3 DEF Accepting, Knows, Holders
    <3>5. e[1] \notin working'
      <4>1. working' = working \cup {a}
        <5>1. Accept(w, a)
          BY <3>1 DEF Accepting
        <5>. QED BY <5>1, <1>0, Accepts, Zenon
      <4>. QED BY <4>1, <3>2, <3>3, <3>4, <1>0 DEF Worked
    <3>. QED BY <3>2, <3>4, <3>5
  <2>. QED BY <2>1, <2>2
<1>. QED BY <1>1, <1>2, <1>3, WorkersRun, ResultsAreKept, BegunIsRecorded DEF Worked, Begun
-----------------------------------------------------------------------------
(* Places in the queues to the adapter.                                     *)

(* What was heard is not forgotten, and the evidence in front is heard.     *)
LEMMA HeardStays ==
  ASSUME Typed, Next, NEW a, NEW said, Heard(a, said)
  PROVE  Heard(a, said)'
BY ReportedFrom DEF Heard

LEMMA FrontIsHeard ==
  ASSUME Typed, NEW i \in DOMAIN connections, HandleFrame(i), NEW w \in Workers, w = connections[i],
         NEW a, Speaks(toController[w][1], a), NEW said, toController[w][1].outcome \in said
  PROVE  Heard(a, said)'
<1>1. PICK m : m = toController[w][1]
  OBVIOUS
<1>2. \/ m.type = "hello" \/ m.type = "ack" \/ m.type = "cancel_ack" \/ m.type = "answer"
      \/ HandleEvidence(i, m)
  BY <1>1, Receipt, Zenon
<1>3. ReportOf(m.attempt, m.outcome) \in reported'
  BY <1>1, <1>2 DEF HandleEvidence, Speaks
<1>. QED BY <1>1, <1>3 DEF Heard, Speaks, ReportOf

(* A frame has a place, and what was said before it stays said before it.   *)
Follows(v, j, n) ==
  /\ toController'[v][n] = toController[v][j]
  /\ \A k \in DOMAIN toController'[v] : k < n =>
       \E l \in DOMAIN toController[v] : l < j /\ toController'[v][k] = toController[v][l]
  /\ \A a, said : SaidBefore(v, j, a, said) => SaidBefore(v, n, a, said)'

Joins(v, n) ==
  /\ n \notin DOMAIN toController[v] /\ Attached(v)
  /\ \A k \in DOMAIN toController[v] : k < n
  /\ \A k \in DOMAIN toController[v] :
       k \in DOMAIN toController'[v] /\ toController'[v][k] = toController[v][k]
  /\ \A a, said : SaidBefore(v, Len(toController[v]) + 1, a, said) => SaidBefore(v, n, a, said)'

(* Frames that keep their places.                                           *)
LEMMA FollowsInPlace ==
  ASSUME Typed, Next, NEW v \in Workers, NEW n \in DOMAIN toController[v],
         n \in DOMAIN toController'[v],
         \A k \in DOMAIN toController'[v] : k <= n =>
           k \in DOMAIN toController[v] /\ toController'[v][k] = toController[v][k],
         \A k \in DOMAIN toController[v] : k <= n => k \in DOMAIN toController'[v],
         toController' \in [Workers -> Seq(Frames)]
  PROVE  Follows(v, n, n)
<1>1. /\ n \in Nat /\ \A k \in DOMAIN toController[v] : k \in Nat
      /\ \A k \in DOMAIN toController'[v] : k \in Nat
  BY DEF Typed
<1>2. ASSUME NEW a, NEW said, SaidBefore(v, n, a, said) PROVE SaidBefore(v, n, a, said)'
  <2>1. CASE Heard(a, said)
    BY <2>1, HeardStays DEF SaidBefore
  <2>2. CASE \E k \in DOMAIN toController[v] :
               k < n /\ Speaks(toController[v][k], a) /\ toController[v][k].outcome \in said
    <3>1. PICK k \in DOMAIN toController[v] :
               k < n /\ Speaks(toController[v][k], a) /\ toController[v][k].outcome \in said
      BY <2>2
    <3>2. k \in DOMAIN toController'[v] /\ toController'[v][k] = toController[v][k]
      BY <1>1, <3>1
    <3>. QED BY <3>1, <3>2 DEF SaidBefore, Speaks
  <2>. QED BY <1>2, <2>1, <2>2 DEF SaidBefore
<1>3. toController'[v][n] = toController[v][n]
  BY <1>1
<1>4. \A k \in DOMAIN toController'[v] : k < n =>
        \E l \in DOMAIN toController[v] : l < n /\ toController'[v][k] = toController[v][l]
  BY <1>1
<1>. QED BY <1>2, <1>3, <1>4 DEF Follows

(* Frames that come one nearer to the front.                                *)
LEMMA FollowsFront ==
  ASSUME Typed, Next, NEW i \in DOMAIN connections, HandleFrame(i), NEW w \in Workers,
         w = connections[i], NEW n \in DOMAIN toController'[w]
  PROVE  n + 1 \in DOMAIN toController[w] /\ Follows(w, n + 1, n)
<1>1. /\ \A k \in DOMAIN toController'[w] :
             /\ k \in Nat /\ k + 1 \in DOMAIN toController[w]
             /\ toController'[w][k] = toController[w][k + 1]
      /\ \A k \in DOMAIN toController[w] : k = 1 \/
             /\ k - 1 \in DOMAIN toController'[w] /\ k > 1
             /\ toController'[w][k - 1] = toController[w][k]
  BY Received
<1>2. \A k \in DOMAIN toController[w] : k \in Nat
  BY DEF Typed
<1>3. ASSUME NEW a, NEW said, SaidBefore(w, n + 1, a, said) PROVE SaidBefore(w, n, a, said)'
  <2>1. CASE Heard(a, said)
    BY <2>1, HeardStays DEF SaidBefore
  <2>2. CASE \E k \in DOMAIN toController[w] :
               k < n + 1 /\ Speaks(toController[w][k], a) /\ toController[w][k].outcome \in said
    <3>1. PICK k \in DOMAIN toController[w] :
               k < n + 1 /\ Speaks(toController[w][k], a) /\ toController[w][k].outcome \in said
      BY <2>2
    <3>2. CASE k = 1
      BY <3>1, <3>2, FrontIsHeard DEF SaidBefore
    <3>3. CASE k # 1
      <4>1. /\ k - 1 \in DOMAIN toController'[w] /\ toController'[w][k - 1] = toController[w][k]
            /\ k - 1 < n
        BY <1>1, <1>2, <3>1, <3>3
      <4>. QED BY <3>1, <4>1 DEF SaidBefore, Speaks
    <3>. QED BY <3>2, <3>3
  <2>. QED BY <1>3, <2>1, <2>2 DEF SaidBefore
<1>4. ASSUME NEW k \in DOMAIN toController'[w], k < n
      PROVE  \E l \in DOMAIN toController[w] : l < n + 1 /\ toController'[w][k] = toController[w][l]
  BY <1>1, <1>4
<1>. QED BY <1>1, <1>3, <1>4 DEF Follows

(* Frames that are new.                                                     *)
LEMMA JoinsBehind ==
  ASSUME Typed, Next, NEW w \in Workers, NEW new, Grew(w, new),
         NEW v \in Workers, NEW n \in DOMAIN toController'[v],
         toController' \in [Workers -> Seq(Frames)]
  PROVE  \/ n \in DOMAIN toController[v] /\ Follows(v, n, n)
         \/ v = w /\ Joins(w, n) /\ toController'[w][n] \in new
<1>1. /\ \A k \in DOMAIN toController[v] :
             k \in DOMAIN toController'[v] /\ toController'[v][k] = toController[v][k]
      /\ \A k \in DOMAIN toController'[v] \ DOMAIN toController[v] :
             v = w /\ Attached(w) /\ toController'[v][k] \in new
  BY DEF Grew
<1>2. \A k, l \in DOMAIN toController'[v] :
        /\ k \in Nat /\ l \in Nat
        /\ k <= l /\ l \in DOMAIN toController[v] => k \in DOMAIN toController[v]
        /\ l \notin DOMAIN toController[v] => l >= Len(toController[v]) + 1
  BY DEF Typed
<1>3. CASE n \in DOMAIN toController[v]
  <2>1. Follows(v, n, n)
    BY <1>1, <1>2, <1>3, FollowsInPlace
  <2>. QED BY <2>1, <1>3
<1>4. CASE n \notin DOMAIN toController[v]
  <2>1. v = w /\ Attached(w) /\ toController'[v][n] \in new
    BY <1>1, <1>4
  <2>2. \A k \in DOMAIN toController[v] : k < n
    BY <1>1, <1>2, <1>4
  <2>3. ASSUME NEW a, NEW said, SaidBefore(v, Len(toController[v]) + 1, a, said)
        PROVE  SaidBefore(v, n, a, said)'
    <3>1. CASE Heard(a, said)
      BY <3>1, HeardStays DEF SaidBefore
    <3>2. CASE \E k \in DOMAIN toController[v] :
                 Speaks(toController[v][k], a) /\ toController[v][k].outcome \in said
      <4>1. PICK k \in DOMAIN toController[v] :
                 Speaks(toController[v][k], a) /\ toController[v][k].outcome \in said
        BY <3>2
      <4>. QED BY <4>1, <1>1, <2>2 DEF SaidBefore, Speaks
    <3>. QED BY <2>3, <3>1, <3>2 DEF SaidBefore
  <2>. QED BY <1>1, <1>4, <2>1, <2>2, <2>3 DEF Joins
<1>. QED BY <1>3, <1>4

(* Every frame follows one, or joins the queue.                             *)
LEMMA Places ==
  ASSUME Typed, Wires, Next, Typed', NEW v \in Workers, NEW n \in DOMAIN toController'[v]
  PROVE  \/ \E j \in DOMAIN toController[v] : Follows(v, j, n)
         \/ toController'[v][n].type = "hello"
         \/ WorkerHandlesFrame(v) /\ Replies(v, toController'[v][n]) /\ Joins(v, n)
         \/ DrainCompletion(v) /\ Announces(v, toController'[v][n]) /\ Joins(v, n)
<1> DEFINE Goal == \/ \E j \in DOMAIN toController[v] : Follows(v, j, n)
                   \/ toController'[v][n].type = "hello"
                   \/ WorkerHandlesFrame(v) /\ Replies(v, toController'[v][n]) /\ Joins(v, n)
                   \/ DrainCompletion(v) /\ Announces(v, toController'[v][n]) /\ Joins(v, n)
<1>0. toController' \in [Workers -> Seq(Frames)]
  BY DEF Typed
<1>1. ASSUME NEW w \in Workers, WorkerHandlesFrame(w) PROVE Goal
  <2>1. PICK new \in SUBSET Frames : Grew(w, new) /\ \A x \in new : Replies(w, x)
    BY <1>1, ReactionGrows, Zenon
  <2>. QED BY <1>0, <1>1, <2>1, JoinsBehind
<1>2. ASSUME NEW w \in Workers, DrainCompletion(w) PROVE Goal
  <2>1. PICK new \in SUBSET Frames : Grew(w, new) /\ \A x \in new : Announces(w, x)
    BY <1>2, DrainGrows, Zenon
  <2>. QED BY <1>0, <1>2, <2>1, JoinsBehind
<1>3. ASSUME toController'[v] = toController[v] PROVE Goal
  <2>1. Follows(v, n, n)
    BY <1>0, <1>3, FollowsInPlace
  <2>. QED BY <2>1, <1>3
<1>4. ASSUME NEW i \in DOMAIN connections, HandleFrame(i) PROVE Goal
  <2>1. PICK w \in Workers : /\ w = connections[i]
                             /\ \A u \in Workers \ {w} : toController'[u] = toController[u]
    <3> HIDE DEF Goal
    <3>. QED BY <1>4, Received
  <2>2. CASE v = w
    BY <1>4, <2>1, <2>2, FollowsFront
  <2>3. CASE v # w
    <3> HIDE DEF Goal
    <3>. QED BY <2>1, <2>3, <1>3
  <2>. QED BY <2>2, <2>3
<1>5. ASSUME NEW w \in Workers, WorkerDies(w) PROVE Goal
  <2>1. \A k \in DOMAIN toController'[v] :
               /\ k \in DOMAIN toController[v] /\ toController'[v][k] = toController[v][k]
               /\ \A l \in DOMAIN toController[v] : l <= k => l \in DOMAIN toController'[v]
    <3> HIDE DEF Goal
    <3>. QED BY <1>5, Dies
  <2>2. Follows(v, n, n)
    BY <1>0, <2>1, FollowsInPlace
  <2>. QED BY <2>1, <2>2
<1>6. ASSUME NEW w \in Workers, Attach(w) PROVE Goal
  <2>1. /\ \A u \in Workers \ {w} : toController'[u] = toController[u]
        /\ DOMAIN toController'[w] = {1} /\ toController'[w][1] = [type |-> "hello"]
    <3> HIDE DEF Goal
    <3>. QED BY <1>6, Attaches
  <2>2. CASE v = w
    <3>1. toController'[v][n] = [type |-> "hello"]
      BY <2>1, <2>2
    <3>. QED BY <3>1
  <2>3. CASE v # w
    <3> HIDE DEF Goal
    <3>. QED BY <2>1, <2>3, <1>3
  <2>. QED BY <2>2, <2>3
<1>7. ASSUME NEW i \in DOMAIN connections, Drop(i) PROVE Goal
  <2>1. \E w \in Workers : /\ DOMAIN toController'[w] = {}
                           /\ \A u \in Workers \ {w} : toController'[u] = toController[u]
    <3> HIDE DEF Goal
    <3>. QED BY <1>7, DropLoses
  <2> HIDE DEF Goal
  <2>. QED BY <2>1, <1>3
<1> HIDE DEF Goal
<1>8. ASSUME NEW a \in Attempts, Dispatch(a) \/ Cancel(a) \/ EffectEnds(a) PROVE Goal
  BY <1>3, <1>8 DEF Dispatch, Cancel, EffectEnds
<1>9. ASSUME Reconcile \/ ReconcileReturns PROVE Goal
  BY <1>3, <1>9 DEF Reconcile, ReconcileReturns
<1>10. Goal
  BY <1>1, <1>2, <1>4, <1>5, <1>6, <1>7, <1>8, <1>9 DEF Next
<1>. QED BY <1>10 DEF Goal

-----------------------------------------------------------------------------
(* What was told.                                                           *)

(* An attempt that was no success never becomes one.                        *)
LEMMA UnsuccessfulStays ==
  ASSUME PlaneInv, Next, NEW a \in Attempts, Unsuccessful(a)
  PROVE  Unsuccessful(a)'
<1>0. Typed /\ Wires /\ Addressed /\ Fresh /\ Answered
  BY DEF PlaneInv
<1>1. /\ ~New(a) /\ effect[a] # "running" /\ \A h \in Attempts : deferred[h] # a
      /\ \A r \in reported : r.attempt = a => r.outcome # "completed"
      /\ \A w \in Workers : \A n \in DOMAIN toController[w] :
           Speaks(toController[w][n], a) => toController[w][n].outcome # "completed"
  BY DEF Unsuccessful
<1>2. ~New(a)'
  BY <1>0, <1>1, NewFades
<1>3. ASSUME NEW w \in Workers, WorkerHandlesFrame(w), Starts(toWorker[w][1], a) PROVE FALSE
  BY <1>0, <1>1, <1>3, StartsUntouched
<1>4. effect'[a] # "running"
  <2>1. ~ \E w \in Workers : Accepting(w, a)
    BY <1>3 DEF Accepting
  <2>. QED BY <1>0, <1>1, <2>1, EffectsFrom
<1>5. \A h \in Attempts : deferred'[h] # a
  <2>1. \A h \in Attempts : ~ \E w \in Workers : Deferring(w, a, h)
    BY <1>3 DEF Deferring
  <2>2. a # NoAttempt
    BY PlaneAssumption
  <2>. QED BY <1>0, <1>1, <2>1, <2>2, LedgersFrom
<1>6. \A r \in reported' : r.attempt = a => r.outcome # "completed"
  <2>1. ASSUME NEW r \in reported' \ reported, r.attempt = a, r.outcome = "completed" PROVE FALSE
    <3>1. PICK w \in Workers : Delivers(w, r)
      BY <1>0, <2>1, ReportedFrom
    <3>2. CASE toController[w][1].type = "evidence"
      BY <1>1, <2>1, <3>1, <3>2 DEF Delivers, Speaks
    <3>3. CASE toController[w][1].type = "answer"
      <4>1. /\ 1 \in DOMAIN toController[w] /\ a \in DOMAIN toController[w][1].entries
            /\ toController[w][1].entries[a] = "completed"
        BY <2>1, <3>1, <3>3 DEF Delivers
      <4>2. Heard(a, {"completed"})
        BY <1>0, <3>3, <4>1, AnswerInFront
      <4>. QED BY <1>1, <4>2 DEF Heard
    <3>. QED BY <3>1, <3>2, <3>3 DEF Delivers
  <2>. QED BY <1>1, <2>1
<1>7. \A v \in Workers : \A n \in DOMAIN toController'[v] :
        Speaks(toController'[v][n], a) => toController'[v][n].outcome # "completed"
  <2>1. SUFFICES ASSUME NEW v \in Workers, NEW n \in DOMAIN toController'[v],
                        Speaks(toController'[v][n], a)
                 PROVE  toController'[v][n].outcome # "completed"
    OBVIOUS
  <2>2. PICK x : x = toController'[v][n]
    OBVIOUS
  <2>3. x.type = "evidence" /\ x.attempt = a
    BY <2>1, <2>2 DEF Speaks
  <2>4. CASE \E k \in DOMAIN toController[v] : x = toController[v][k]
    BY <1>1, <2>2, <2>3, <2>4 DEF Speaks
  <2>5. CASE WorkerHandlesFrame(v) /\ Replies(v, x)
    <3>1. \/ \E b \in Attempts : Starts(toWorker[v][1], b) /\ x.attempt = b
          \/ x.outcome = "stopped"
      BY <2>3, <2>5 DEF Replies, AnswerTo
    <3>. QED BY <1>3, <2>2, <2>3, <2>5, <3>1
  <2>6. CASE DrainCompletion(v) /\ Announces(v, x)
    <3>1. completions[v][1] \in Completions
      BY <1>0, <2>6, Drained
    <3>2. completions[v][1].attempt \in Attempts
      BY <3>1 DEF Completions
    <3>. QED BY <1>1, <2>3, <2>6, <3>2 DEF Announces, Publishes
  <2>7. x.type # "hello"
    BY <2>3
  <2>. QED BY <1>0, <2>2, <2>4, <2>5, <2>6, <2>7, FramesFrom
<1>. QED BY <1>2, <1>4, <1>5, <1>6, <1>7 DEF Unsuccessful

(* An effect that runs, fails or is stopped, was no success.                *)
LEMMA BecomesUnsuccessful ==
  ASSUME PlaneInv, Next, NEW a \in Attempts, effect[a] = "running",
         effect'[a] \in {"failed", "stopping", "stopped"}
  PROVE  Unsuccessful(a)'
<1>0. Typed /\ Wires /\ Addressed /\ Fresh /\ Answered /\ Routed /\ Deferred
  BY DEF PlaneInv
<1>1. ~New(a) /\ Silent(a) /\ \A h \in Attempts : deferred[h] # a
  <2>1. ~New(a)
    BY <1>0 DEF Fresh, Untouched
  <2>2. Silent(a)
    BY <1>0 DEF Routed
  <2>3. a # NoAttempt
    BY PlaneAssumption
  <2>. QED BY <1>0, <2>1, <2>2, <2>3 DEF Deferred
<1>2. ~New(a)'
  BY <1>0, <1>1, NewFades
<1>3. ASSUME NEW w \in Workers, WorkerHandlesFrame(w), Starts(toWorker[w][1], a) PROVE FALSE
  BY <1>0, <1>1, <1>3, StartsUntouched
<1>4. \A h \in Attempts : deferred'[h] # a
  <2>1. \A h \in Attempts : ~ \E w \in Workers : Deferring(w, a, h)
    BY <1>3 DEF Deferring
  <2>2. a # NoAttempt
    BY PlaneAssumption
  <2>. QED BY <1>0, <1>1, <2>1, <2>2, LedgersFrom
<1>5. Unheard(a)'
  BY <1>0, RunningIsUnheard
<1>6. \A v \in Workers : \A n \in DOMAIN toController'[v] :
        Speaks(toController'[v][n], a) => toController'[v][n].outcome # "completed"
  <2>1. SUFFICES ASSUME NEW v \in Workers, NEW n \in DOMAIN toController'[v],
                        Speaks(toController'[v][n], a)
                 PROVE  toController'[v][n].outcome # "completed"
    OBVIOUS
  <2>2. PICK x : x = toController'[v][n]
    OBVIOUS
  <2>3. x.type = "evidence" /\ x.attempt = a
    BY <2>1, <2>2 DEF Speaks
  <2>4. CASE \E k \in DOMAIN toController[v] : x = toController[v][k]
    BY <1>1, <2>2, <2>3, <2>4 DEF Silent, Ends, Speaks
  <2>5. CASE WorkerHandlesFrame(v) /\ Replies(v, x)
    <3>1. \/ \E b \in Attempts : Starts(toWorker[v][1], b) /\ x.attempt = b
          \/ x.outcome = "stopped"
      BY <2>3, <2>5 DEF Replies, AnswerTo
    <3>. QED BY <1>3, <2>2, <2>3, <2>5, <3>1
  <2>6. CASE DrainCompletion(v) /\ Announces(v, x)
    <3>1. PICK c : c = completions[v][1]
      OBVIOUS
    <3>2. c \in Completions /\ c.attempt \in Attempts
      BY <1>0, <2>6, <3>1, Drained DEF Completions
    <3>3. x.attempt = c.attempt /\ x.outcome = c.how /\ Publishes(c.attempt, c.how)
      BY <1>1, <2>3, <2>6, <3>1, <3>2 DEF Announces
    <3>4. effect' = [effect EXCEPT ![c.attempt] = c.how]
      BY <1>0, <2>6, <3>1, <3>3, Drains
    <3>. QED BY <1>0, <2>2, <2>3, <3>2, <3>3, <3>4 DEF Typed, TypeOK
  <2>7. x.type # "hello"
    BY <2>3
  <2>. QED BY <1>0, <2>2, <2>4, <2>5, <2>6, <2>7, FramesFrom
<1>. QED BY <1>2, <1>4, <1>5, <1>6 DEF Unsuccessful, Unheard

(* What a worker said that was not lost.                                    *)
Said(w, a, said) ==
  \/ Heard(a, said)
  \/ \E k \in DOMAIN toController[w] :
       Speaks(toController[w][k], a) /\ toController[w][k].outcome \in said

LEMMA SaidSoFar ==
  ASSUME Typed, NEW w \in Workers, NEW a, NEW said
  PROVE  SaidBefore(w, Len(toController[w]) + 1, a, said) <=> Said(w, a, said)
BY DEF Typed, SaidBefore, Said

(* As long as the worker and its connection live, it stays said.            *)
LEMMA SaidStays ==
  ASSUME Typed, Wires, Next, NEW w \in Workers, life[w] # "unborn", life'[w] = "connected",
         Attached(w)', NEW a, NEW said, Said(w, a, said)
  PROVE  Said(w, a, said)'
<1> DEFINE Goal == Said(w, a, said)'
<1>1. ASSUME Heard(a, said) PROVE Goal
  BY <1>1, HeardStays DEF Said
<1>2. ASSUME NEW k \in DOMAIN toController[w],
             Speaks(toController[w][k], a), toController[w][k].outcome \in said
      PROVE  Goal
  <2>1. ASSUME NEW n \in DOMAIN toController'[w], toController'[w][n] = toController[w][k] PROVE Goal
    BY <1>2, <2>1 DEF Said, Speaks
  <2>2. ASSUME toController'[w] = toController[w] PROVE Goal
    BY <2>1, <2>2
  <2>3. ASSUME NEW v \in Workers, WorkerHandlesFrame(v) PROVE Goal
    <3>1. \E new \in SUBSET Frames : Grew(v, new) /\ \A x \in new : Replies(v, x)
      BY <2>3, ReactionGrows, Zenon
    <3>. QED BY <2>1, <3>1 DEF Grew
  <2>4. ASSUME NEW v \in Workers, DrainCompletion(v) PROVE Goal
    <3>1. \E new \in SUBSET Frames : Grew(v, new) /\ \A x \in new : Announces(v, x)
      BY <2>4, DrainGrows, Zenon
    <3>. QED BY <2>1, <3>1 DEF Grew
  <2>5. ASSUME NEW i \in DOMAIN connections, HandleFrame(i) PROVE Goal
    <3> HIDE DEF Goal
    <3>1. PICK v \in Workers :
             /\ v = connections[i]
             /\ \A u \in Workers \ {v} : toController'[u] = toController[u]
             /\ \A n \in DOMAIN toController[v] : n = 1 \/
                  /\ n - 1 \in DOMAIN toController'[v]
                  /\ toController'[v][n - 1] = toController[v][n]
      BY <2>5, Received
    <3>2. CASE v # w
      BY <2>2, <3>1, <3>2
    <3>3. CASE v = w /\ k = 1
      <4>1. Heard(a, said)'
        BY <1>2, <2>5, <3>1, <3>3, FrontIsHeard
      <4>. QED BY <4>1 DEF Goal, Said
    <3>4. CASE v = w /\ k # 1
      <4>1. k - 1 \in DOMAIN toController'[w] /\ toController'[w][k - 1] = toController[w][k]
        BY <3>1, <3>4
      <4>. QED BY <2>1, <4>1
    <3>. QED BY <3>2, <3>3, <3>4
  <2>6. ASSUME NEW v \in Workers, WorkerDies(v) PROVE Goal
    <3> HIDE DEF Goal
    <3>. QED BY <2>2, <2>6, Dies
  <2>7. ASSUME NEW v \in Workers, Attach(v) PROVE Goal
    <3> HIDE DEF Goal
    <3>. QED BY <2>2, <2>7, Attaches
  <2>8. ASSUME NEW i \in DOMAIN connections, Drop(i) PROVE Goal
    <3> HIDE DEF Goal
    <3>. QED BY <2>2, <2>8, DropLoses
  <2> HIDE DEF Goal
  <2>9. ASSUME NEW b \in Attempts, Dispatch(b) \/ Cancel(b) \/ EffectEnds(b) PROVE Goal
    BY <2>2, <2>9 DEF Dispatch, Cancel, EffectEnds
  <2>10. ASSUME Reconcile \/ ReconcileReturns PROVE Goal
    BY <2>2, <2>10 DEF Reconcile, ReconcileReturns
  <2>. QED BY <2>3, <2>4, <2>5, <2>6, <2>7, <2>8, <2>9, <2>10 DEF Next
<1>. QED BY <1>1, <1>2 DEF Said

(* The worker that drains a completion finds its effect at work.            *)
LEMMA DrainsARunning ==
  ASSUME PlaneInv, NEW w \in Workers, DrainCompletion(w), NEW b, b = completions[w][1].attempt
  PROVE  /\ b \in Attempts /\ carrier[b] = w
         /\ effect[b] \in Running
         /\ ~Publishes(b, completions[w][1].how) => effect[b] = "stopping"
<1>1. Typed /\ Addressed /\ Worked
  BY DEF PlaneInv
<1>2. 1 \in DOMAIN completions[w] /\ completions[w][1] \in Completions
  BY <1>1, Drained
<1>3. b \in Attempts /\ carrier[b] = w
  BY <1>1, <1>2 DEF Addressed, Completions
<1>4. effect[b] \in Running /\ (completions[w][1].how = "stopped" => effect[b] = "stopping")
  BY <1>1, <1>2 DEF Worked
<1>. QED BY <1>3, <1>4 DEF Publishes, Running

(* Where an attempt that was issued before was when the worker answers.     *)
LEMMA AnswersFor ==
  ASSUME Typed, Wires, Addressed, Next, NEW a \in Issued, NEW w \in Workers, w = carrier[a],
         Attached(w)', life'[w] = "connected"
  PROVE  Attached(w) /\ life[w] = "connected"
<1>1. life[w] # "unborn"
  BY DEF Addressed
<1>2. life[w] = "connected"
  BY <1>1, LivesGoOn, Attaches
<1>. QED BY <1>1, <1>2, AttachedFrom

(* A cancelled effect, and one whose outcome is published, is told.         *)
LEMMA EndsAreTold ==
  ASSUME PlaneInv, Next, NEW a \in Attempts, effect[a] = "running",
         effect'[a] \in {"completed", "failed", "stopping", "stopped"},
         NEW w \in Workers, w = carrier[a], Attached(w)
  PROVE  \E outcome \in Outcomes :
           /\ Said(w, a, {outcome})'
           /\ effect'[a] = "completed" => outcome = "completed"
<1> DEFINE Goal == \E outcome \in Outcomes :
           /\ Said(w, a, {outcome})'
           /\ effect'[a] = "completed" => outcome = "completed"
<1>0. Typed /\ Wires /\ Addressed
  BY DEF PlaneInv
<1>1. ASSUME NEW v \in Workers, Stopping(v, a) PROVE Goal
  <2>1. WorkerHandlesFrame(v) /\ Stops(toWorker[v][1], a)
    BY <1>1 DEF Stopping
  <2>2. HandleCancel(v, a) /\ 1 \in DOMAIN toWorker[v]
    <3> HIDE DEF Goal
    <3>. QED BY <1>0, <2>1, StopsRunning, Taken
  <2>3. v = w
    BY <1>0, <2>1, <2>2 DEF Addressed, Ours, Stops
  <2>4. Sent(w, <<Evidence(a, "stopped"), CancelAck(a, TRUE)>>) /\ effect'[a] = "stopping"
    <3> HIDE DEF Goal
    <3>. QED BY <1>0, <2>2, <2>3, Cancels DEF Running, Typed, TypeOK
  <2>5. Evidence(a, "stopped") \in Frames /\ CancelAck(a, TRUE) \in Frames
    BY FramesMade DEF Outcomes
  <2>6. \E n \in DOMAIN toController'[w] : toController'[w][n] = Evidence(a, "stopped")
    <3> HIDE DEF Goal
    <3>1. LET l == Len(toController[w])
          IN  l + 1 \in DOMAIN toController'[w] /\ toController'[w][l + 1] = Evidence(a, "stopped")
      BY <1>0, <2>4, <2>5, SentTwo
    <3>. QED BY <3>1
  <2>7. Said(w, a, {"stopped"})'
    BY <2>6 DEF Said, Speaks, Evidence
  <2>. QED BY <2>4, <2>7 DEF Outcomes
<1>2. ASSUME NEW v \in Workers, DrainCompletion(v), completions[v][1].attempt = a PROVE Goal
  <2>1. PICK c : c = completions[v][1]
    OBVIOUS
  <2>2. v = w /\ Publishes(a, c.how) /\ c.attempt = a /\ c \in Completions
    <3> HIDE DEF Goal
    <3>. QED BY <1>0, <1>2, <2>1, DrainsARunning, Drained
  <2>3. c.how \in Outcomes
    BY <2>2 DEF Completions
  <2>4. /\ effect' = [effect EXCEPT ![a] = c.how]
        /\ \/ deferred[a] = NoAttempt /\ Sent(w, <<Evidence(a, c.how)>>)
           \/ deferred[a] \in Attempts /\ Sent(w, <<Evidence(a, c.how), Evidence(deferred[a], c.how)>>)
    <3> HIDE DEF Goal
    <3>. QED BY <1>0, <1>2, <2>1, <2>2, Drains
  <2>5. effect'[a] = c.how
    BY <1>0, <2>4 DEF Typed, TypeOK
  <2>6. \A b \in Attempts : Evidence(b, c.how) \in Frames
    BY <2>3, FramesMade
  <2>7. \E n \in DOMAIN toController'[w] : toController'[w][n] = Evidence(a, c.how)
    <3> HIDE DEF Goal
    <3>1. CASE deferred[a] = NoAttempt /\ Sent(w, <<Evidence(a, c.how)>>)
      <4>1. LET l == Len(toController[w])
            IN  l + 1 \in DOMAIN toController'[w] /\ toController'[w][l + 1] = Evidence(a, c.how)
        BY <1>0, <2>6, <3>1, SentOne
      <4>. QED BY <4>1
    <3>2. CASE deferred[a] \in Attempts /\ Sent(w, <<Evidence(a, c.how), Evidence(deferred[a], c.how)>>)
      <4>1. LET l == Len(toController[w])
            IN  l + 1 \in DOMAIN toController'[w] /\ toController'[w][l + 1] = Evidence(a, c.how)
        BY <1>0, <2>6, <3>2, SentTwo
      <4>. QED BY <4>1
    <3>. QED BY <2>4, <3>1, <3>2
  <2>8. Said(w, a, {c.how})'
    BY <2>7 DEF Said, Speaks, Evidence
  <2>. QED BY <2>3, <2>5, <2>8
<1> HIDE DEF Goal
<1>3. \/ \E v \in Workers : Stopping(v, a)
      \/ \E v \in Workers : DrainCompletion(v) /\ completions[v][1].attempt = a
  BY <1>0, EffectsFrom
<1>4. Goal
  BY <1>1, <1>2, <1>3
<1>. QED BY <1>4 DEF Goal

(* What an attempt came to on a worker that answers was said.               *)
LEMMA EndsAreSaid ==
  ASSUME PlaneInv, Next, NEW a \in Issued, NEW w \in Workers, w = carrier[a],
         Attached(w)', life'[w] = "connected"
  PROVE  /\ effect'[a] = "completed" => Said(w, a, {"completed"})'
         /\ effect'[a] \in {"failed", "stopping", "stopped"} => Said(w, a, Outcomes)'
         /\ effect'[a] = "none" /\ a \in performed' => Said(w, a, Outcomes)'
<1>0. Typed /\ Wires /\ Addressed /\ Fresh /\ Worked /\ Told
  BY DEF PlaneInv
<1>1. Attached(w) /\ life[w] = "connected" /\ life[w] # "unborn" /\ a \in Attempts
  BY <1>0, AnswersFor DEF Issued
<1>2. /\ effect[a] = "completed" => Said(w, a, {"completed"})
      /\ effect[a] \in {"failed", "stopping", "stopped"} => Said(w, a, Outcomes)
      /\ effect[a] = "none" /\ a \in performed => Said(w, a, Outcomes)
  BY <1>0, <1>1, SaidSoFar DEF Told
<1>3. \A said : Said(w, a, said) => Said(w, a, said)'
  BY <1>0, <1>1, SaidStays
<1>4. Said(w, a, {"completed"})' => Said(w, a, Outcomes)'
  BY DEF Said, Heard, Outcomes
<1>5. ASSUME effect[a] = "running", effect'[a] \in {"completed", "failed", "stopping", "stopped"}
      PROVE  /\ effect'[a] = "completed" => Said(w, a, {"completed"})'
             /\ Said(w, a, Outcomes)'
  <2>1. PICK outcome \in Outcomes : /\ Said(w, a, {outcome})'
                                    /\ effect'[a] = "completed" => outcome = "completed"
    BY <1>1, <1>5, EndsAreTold
  <2>2. Said(w, a, Outcomes)'
    BY <2>1 DEF Said, Heard
  <2>. QED BY <2>1, <2>2
<1>6. CASE effect'[a] = effect[a]
  <2>1. effect[a] = "none" /\ a \in performed' => a \in performed
    BY <1>0, LedgersFrom DEF EffectEnds, Worked, Running
  <2>. QED BY <1>2, <1>3, <1>6, <2>1
<1>7. CASE effect'[a] = "running"
  BY <1>7
<1>8. CASE effect'[a] = "none" /\ \E v \in Workers, b \in Attempts : Accepting(v, b) /\ a \in Victims(v)
  <2>1. effect[a] \notin Running \cup {"none"} /\ effect[a] \in EffectStates
    BY <1>0, <1>1, <1>8, VictimsEnded DEF Typed, TypeOK
  <2>2. Said(w, a, {"completed"}) \/ Said(w, a, Outcomes)
    BY <1>2, <2>1 DEF Running, EffectStates
  <2>. QED BY <1>3, <1>4, <1>8, <2>2
<1>9. CASE effect'[a] = "none" /\ WorkerDies(w)
  BY <1>0, <1>9, Dies
<1>10. CASE effect'[a] = "stopping" /\ \E v \in Workers : Stopping(v, a)
  <2>1. effect[a] \in Running
    BY <1>10 DEF Stopping
  <2>2. CASE effect[a] = "running"
    BY <1>5, <1>10, <2>2
  <2>3. CASE effect[a] = "stopping"
    BY <1>6, <1>10, <2>3
  <2>. QED BY <2>1, <2>2, <2>3 DEF Running
<1>11. ASSUME NEW v \in Workers, DrainCompletion(v), completions[v][1].attempt = a,
              effect'[a] \in {"stopped", "completed", "failed"},
              ~Publishes(a, completions[v][1].how) => effect'[a] = "stopped"
       PROVE  /\ effect'[a] = "completed" => Said(w, a, {"completed"})'
              /\ Said(w, a, Outcomes)'
  <2>1. effect[a] \in Running /\ (~Publishes(a, completions[v][1].how) => effect[a] = "stopping")
    BY <1>11, DrainsARunning
  <2>2. CASE effect[a] = "running"
    BY <1>5, <1>11, <2>2
  <2>3. CASE effect[a] = "stopping"
    <3>1. effect'[a] = "stopped"
      BY <1>11, <2>3 DEF Publishes
    <3>. QED BY <1>2, <1>3, <2>3, <3>1
  <2>. QED BY <2>1, <2>2, <2>3 DEF Running
<1>12. CASE /\ effect'[a] \in {"stopped", "completed", "failed"}
            /\ \E v \in Workers : /\ DrainCompletion(v) /\ completions[v][1].attempt = a
                                  /\ ~Publishes(a, completions[v][1].how) => effect'[a] = "stopped"
  BY <1>11, <1>12
<1>13. \/ effect'[a] = effect[a] \/ effect'[a] = "running"
       \/ effect'[a] = "none" /\ WorkerDies(w)
       \/ effect'[a] = "none" /\ \E v \in Workers, b \in Attempts : Accepting(v, b) /\ a \in Victims(v)
       \/ effect'[a] = "stopping" /\ \E v \in Workers : Stopping(v, a)
       \/ /\ effect'[a] \in {"stopped", "completed", "failed"}
          /\ \E v \in Workers : /\ DrainCompletion(v) /\ completions[v][1].attempt = a
                                /\ ~Publishes(a, completions[v][1].how) => effect'[a] = "stopped"
  BY <1>0, <1>1, EffectsFrom
<1>. QED BY <1>6, <1>7, <1>8, <1>9, <1>10, <1>12, <1>13

(* An attempt whose effect did not complete, or that was asked to stop.     *)
LEMMA EndsAreNoSuccess ==
  ASSUME PlaneInv, Next, NEW a \in Issued, effect'[a] \in {"failed", "stopping", "stopped"}
  PROVE  Unsuccessful(a)'
<1>0. Typed /\ Addressed /\ Told /\ a \in Attempts
  BY DEF PlaneInv, Issued
<1>1. CASE effect[a] = "running"
  BY <1>0, <1>1, BecomesUnsuccessful
<1>2. CASE effect[a] \in {"failed", "stopping", "stopped"}
  BY <1>0, <1>2, UnsuccessfulStays DEF Told
<1>3. effect[a] \in {"running", "failed", "stopping", "stopped"}
  <2>1. CASE effect'[a] = effect[a]
    BY <2>1
  <2>2. CASE \E v \in Workers : Stopping(v, a)
    BY <2>2 DEF Stopping, Running
  <2>3. CASE \E v \in Workers : DrainCompletion(v) /\ completions[v][1].attempt = a
    BY <2>3, DrainsARunning DEF Running
  <2>. QED BY <1>0, <2>1, <2>2, <2>3, EffectsFrom
<1>. QED BY <1>1, <1>2, <1>3

LEMMA ToldIsKept ==
  ASSUME PlaneInv, Next, Typed'
  PROVE  Told'
<1>0. Typed /\ Wires /\ Fresh
  BY DEF PlaneInv
<1>1. SUFFICES ASSUME NEW a \in Issued'
               PROVE  /\ effect'[a] \in {"failed", "stopping", "stopped"} => Unsuccessful(a)'
                      /\ \A w \in Workers : w = carrier'[a] /\ Attached(w)' /\ life'[w] = "connected" =>
                           /\ effect'[a] = "completed" => Said(w, a, {"completed"})'
                           /\ effect'[a] \in {"failed", "stopping", "stopped"} => Said(w, a, Outcomes)'
                           /\ effect'[a] = "none" /\ a \in performed' => Said(w, a, Outcomes)'
  <2>1. \A w \in Workers : \A a, said : Said(w, a, said)' =>
           SaidBefore(w, Len(toController[w]) + 1, a, said)'
    BY DEF Typed, Said, SaidBefore
  <2>2. \A a \in Issued' : carrier'[a] \in Workers
    BY DEF Issued, Typed, TypeOK
  <2>. QED BY <1>1, <2>1, <2>2 DEF Told
<1>2. a \in Attempts
  BY DEF Issued
<1>3. CASE carrier'[a] = carrier[a]
  <2>1. a \in Issued
    BY <1>2, <1>3 DEF Issued
  <2>. QED BY <1>3, <2>1, EndsAreSaid, EndsAreNoSuccess
<1>4. CASE Dispatch(a)
  <2>1. effect'[a] = "none" /\ a \notin performed'
    BY <1>0, <1>2, <1>4 DEF Dispatch, workerVars, Fresh, New, Untouched
  <2>. QED BY <2>1
<1>. QED BY <1>0, <1>2, <1>3, <1>4, CarriersFrom

-----------------------------------------------------------------------------
(* What was answered.                                                       *)

(* An attempt that is over is not taken up again.                           *)
LEMMA SettledStays ==
  ASSUME Typed, Wires, Addressed, Fresh, Next, NEW a \in Attempts, Settled(a)
  PROVE  Settled(a)' /\ (a \in performed' => a \in performed)
<1>1. ~New(a)'
  BY NewFades DEF Settled
<1>2. ~ \E w \in Workers : Accepting(w, a)
  BY StartsUntouched DEF Accepting, Settled
<1>3. a \notin working'
  BY <1>2, LedgersFrom DEF Settled
<1>4. a \in performed' => a \in performed
  BY LedgersFrom DEF EffectEnds, Settled
<1>. QED BY <1>1, <1>3, <1>4 DEF Settled

(* What the orchestrator learns from an answer was in the frame.            *)
LEMMA AnsweredFrom ==
  ASSUME Typed, Next, NEW r \in answered' \ answered
  PROVE  \E w \in Workers :
           /\ 1 \in DOMAIN toController[w] /\ toController[w][1].type = "answer"
           /\ r.attempt \in DOMAIN toController[w][1].entries
           /\ r.is = toController[w][1].entries[r.attempt]
<1> DEFINE Goal == \E w \in Workers :
           /\ 1 \in DOMAIN toController[w] /\ toController[w][1].type = "answer"
           /\ r.attempt \in DOMAIN toController[w][1].entries
           /\ r.is = toController[w][1].entries[r.attempt]
<1>1. ASSUME NEW i \in DOMAIN connections, HandleFrame(i) PROVE Goal
  <2>1. PICK w \in Workers : w = connections[i]
    BY <1>1, Receipt
  <2>2. PICK m : m = toController[w][1]
    OBVIOUS
  <2>3. 1 \in DOMAIN toController[w] /\ m \in Frames
    <3> HIDE DEF Goal
    <3>. QED BY <1>1, <2>1, <2>2, Receipt
  <2>4. \/ m.type = "hello" /\ HandleHello(i)
        \/ m.type = "ack" /\ HandleDispatchAck(i, m)
        \/ m.type = "evidence" /\ HandleEvidence(i, m)
        \/ m.type = "cancel_ack" /\ HandleCancelAck(i, m)
        \/ m.type = "answer" /\ HandleReconcileResponse(i, m)
    <3> HIDE DEF Goal
    <3>. QED BY <1>1, <2>1, <2>2, Receipt, Zenon
  <2>5. m.type = "answer" /\ HandleReconcileResponse(i, m)
    BY <2>4 DEF HandleHello, HandleDispatchAck, HandleEvidence, HandleCancelAck
  <2>6. answered' = answered \cup {[attempt |-> a, is |-> m.entries[a]] : a \in DOMAIN m.entries}
    BY <2>5 DEF HandleReconcileResponse
  <2>7. PICK a \in DOMAIN m.entries : r = [attempt |-> a, is |-> m.entries[a]]
    BY <2>6
  <2>. QED BY <2>2, <2>3, <2>5, <2>7
<1> HIDE DEF Goal
<1>2. ASSUME UNCHANGED askVars PROVE Goal
  BY <1>2 DEF askVars
<1>3. ASSUME UNCHANGED answered PROVE Goal
  BY <1>3
<1>4. Goal
  BY <1>1, <1>2, <1>3 DEF Next, Dispatch, Cancel, EffectEnds, Reconcile, ReconcileReturns, Drop,
       Attach, WorkerDies, WorkerHandlesFrame, DrainCompletion
<1>. QED BY <1>4 DEF Goal

(* A worker that is asked answers from its ledger.                          *)
LEMMA AnswersFromLedger ==
  ASSUME PlaneInv, Next, NEW w \in Workers, WorkerHandlesFrame(w), Attached(w),
         toWorker[w][1].type = "reconcile", NEW a \in toWorker[w][1].fences
  PROVE  LET is == Disposition(effect[a])
         IN  /\ is = "completed" => a \in performed /\ Said(w, a, {"completed"})
             /\ is = "failed" => Unsuccessful(a) /\ Said(w, a, Outcomes)
             /\ is = "not_started" => Settled(a) /\ (a \in performed => Said(w, a, Outcomes))
<1>0. Typed /\ Wires /\ Addressed /\ Fresh /\ Worked /\ Told
  BY DEF PlaneInv
<1>1. life[w] = "connected" /\ 1 \in DOMAIN toWorker[w] /\ toWorker[w][1] \in Orders
  BY <1>0, Reaction
<1>2. a \in Attempts /\ carrier[a] = w /\ a \in Issued
  <2>1. a \in Attempts
    BY <1>1, OrderTypes
  <2>2. carrier[a] = w
    BY <1>0, <1>1 DEF Addressed, Ours
  <2>. QED BY <2>1, <2>2, PlaneAssumption DEF Issued
<1>3. /\ effect[a] = "completed" => Said(w, a, {"completed"})
      /\ effect[a] \in {"failed", "stopping", "stopped"} => Unsuccessful(a) /\ Said(w, a, Outcomes)
      /\ effect[a] = "none" /\ a \in performed => Said(w, a, Outcomes)
  BY <1>0, <1>1, <1>2, SaidSoFar DEF Told
<1>4. effect[a] \in EffectStates
  BY <1>0, <1>2 DEF Typed, TypeOK
<1>5. ASSUME effect[a] = "none" PROVE Settled(a)
  <2>1. a \notin working
    BY <1>0, <1>5 DEF Worked, Running
  <2>2. ASSUME NEW v \in Workers, NEW k \in DOMAIN toWorker[v], Starts(toWorker[v][k], a) PROVE FALSE
    <3>1. v = w
      BY <1>0, <1>2, <2>2 DEF Addressed, Ours, Starts
    <3>2. k < 1 /\ k \in Nat
      BY <1>0, <1>1, <2>2, <3>1 DEF Fresh, Starts, Typed
    <3>3. k \in 1..Len(toWorker[w])
      BY <1>0, <3>1 DEF Typed
    <3>. QED BY <3>2, <3>3
  <2>3. carrier[a] # NoWorker
    BY <1>2 DEF Issued
  <2>. QED BY <2>1, <2>2, <2>3 DEF Settled, New, Waiting
<1>6. effect[a] = "completed" => a \in performed
  BY <1>0, <1>2 DEF Worked
<1>7. /\ Disposition(effect[a]) = "completed" => effect[a] = "completed"
      /\ Disposition(effect[a]) = "failed" => effect[a] \in {"failed", "stopped"}
      /\ Disposition(effect[a]) = "not_started" => effect[a] = "none"
  BY <1>4 DEF Disposition, EffectStates, Running, Finished
<1>. QED BY <1>3, <1>5, <1>6, <1>7

(* An answer that waits.                                                    *)
Backed(w, n) ==
  \A a \in DOMAIN toController[w][n].entries :
    LET is == toController[w][n].entries[a]
    IN  /\ is = "completed" => a \in performed /\ SaidBefore(w, n, a, {"completed"})
        /\ is = "failed" => Unsuccessful(a) /\ SaidBefore(w, n, a, Outcomes)
        /\ is = "not_started" => Settled(a) /\ (a \in performed => SaidBefore(w, n, a, Outcomes))

LEMMA AnswersWaiting ==
  ASSUME PlaneInv, Next, Typed', NEW w \in Workers, NEW n \in DOMAIN toController'[w],
         toController'[w][n].type = "answer"
  PROVE  Backed(w, n)'
<1>0. Typed /\ Wires /\ Addressed /\ Fresh /\ Answered
  BY DEF PlaneInv
<1>1. PICK m : m = toController'[w][n]
  OBVIOUS
<1>2. m.type = "answer" /\ m \in Frames /\ DOMAIN m.entries \subseteq Attempts
  BY <1>1, FrameTypes DEF Typed
<1>3. \A a \in DOMAIN m.entries :
        /\ Unsuccessful(a) => Unsuccessful(a)'
        /\ Settled(a) => Settled(a)' /\ (a \in performed' => a \in performed)
        /\ a \in performed => a \in performed'
  BY <1>0, <1>2, UnsuccessfulStays, SettledStays, LedgersFrom
<1>4. SUFFICES ASSUME NEW a \in DOMAIN m.entries, NEW is, is = m.entries[a]
               PROVE  /\ is = "completed" => a \in performed' /\ SaidBefore(w, n, a, {"completed"})'
                      /\ is = "failed" => Unsuccessful(a)' /\ SaidBefore(w, n, a, Outcomes)'
                      /\ is = "not_started" =>
                           Settled(a)' /\ (a \in performed' => SaidBefore(w, n, a, Outcomes)')
  BY <1>1, <1>4 DEF Backed
<1>5. ASSUME NEW j \in DOMAIN toController[w], Follows(w, j, n)
      PROVE  /\ is = "completed" => a \in performed' /\ SaidBefore(w, n, a, {"completed"})'
             /\ is = "failed" => Unsuccessful(a)' /\ SaidBefore(w, n, a, Outcomes)'
             /\ is = "not_started" =>
                  Settled(a)' /\ (a \in performed' => SaidBefore(w, n, a, Outcomes)')
  <2>1. /\ toController[w][j] = m
        /\ \A said : SaidBefore(w, j, a, said) => SaidBefore(w, n, a, said)'
    BY <1>1, <1>5 DEF Follows
  <2>2. /\ is = "completed" => a \in performed /\ SaidBefore(w, j, a, {"completed"})
        /\ is = "failed" => Unsuccessful(a) /\ SaidBefore(w, j, a, Outcomes)
        /\ is = "not_started" => Settled(a) /\ (a \in performed => SaidBefore(w, j, a, Outcomes))
    BY <1>0, <1>2, <1>4, <2>1 DEF Answered
  <2>. QED BY <1>3, <2>1, <2>2
<1>6. ASSUME WorkerHandlesFrame(w), Replies(w, m), Joins(w, n)
      PROVE  /\ is = "completed" => a \in performed' /\ SaidBefore(w, n, a, {"completed"})'
             /\ is = "failed" => Unsuccessful(a)' /\ SaidBefore(w, n, a, Outcomes)'
             /\ is = "not_started" =>
                  Settled(a)' /\ (a \in performed' => SaidBefore(w, n, a, Outcomes)')
  <2>1. toWorker[w][1].type = "reconcile" /\ m = AnswerTo(toWorker[w][1])
    BY <1>2, <1>6 DEF Replies
  <2>2. a \in toWorker[w][1].fences /\ is = Disposition(effect[a])
    BY <1>4, <2>1 DEF AnswerTo
  <2>3. /\ Attached(w)
        /\ \A said : SaidBefore(w, Len(toController[w]) + 1, a, said) => SaidBefore(w, n, a, said)'
    BY <1>6 DEF Joins
  <2>4. /\ is = "completed" => a \in performed /\ Said(w, a, {"completed"})
        /\ is = "failed" => Unsuccessful(a) /\ Said(w, a, Outcomes)
        /\ is = "not_started" => Settled(a) /\ (a \in performed => Said(w, a, Outcomes))
    BY <1>6, <2>1, <2>2, <2>3, AnswersFromLedger
  <2>5. \A said : Said(w, a, said) => SaidBefore(w, n, a, said)'
    BY <1>0, <2>3, SaidSoFar
  <2>. QED BY <1>3, <2>4, <2>5
<1>7. ~Announces(w, m) /\ m.type # "hello"
  BY <1>2 DEF Announces
<1>. QED BY <1>0, <1>1, <1>5, <1>6, <1>7, Places

LEMMA AnsweredIsKept ==
  ASSUME PlaneInv, Next, Typed'
  PROVE  Answered'
<1>0. Typed /\ Wires /\ Addressed /\ Fresh /\ Answered
  BY DEF PlaneInv
<1>1. ASSUME NEW r \in answered'
      PROVE  /\ r.is = "completed" => r.attempt \in performed'
             /\ r.is = "not_started" =>
                  Settled(r.attempt)' /\ (r.attempt \in performed' => Heard(r.attempt, Outcomes)')
  <2>1. PICK a \in Attempts, is \in Dispositions : r.attempt = a /\ r.is = is
    BY DEF Typed
  <2>2. /\ is = "completed" => a \in performed
        /\ is = "not_started" => Settled(a) /\ (a \in performed => Heard(a, Outcomes))
    <3>1. CASE r \in answered
      BY <1>0, <2>1, <3>1 DEF Answered
    <3>2. CASE r \notin answered
      BY <1>0, <2>1, <3>2, AnsweredFrom, AnswerInFront
    <3>. QED BY <3>1, <3>2
  <2>3. /\ Settled(a) => Settled(a)' /\ (a \in performed' => a \in performed)
        /\ a \in performed => a \in performed'
        /\ Heard(a, Outcomes) => Heard(a, Outcomes)'
    <3>1. Settled(a) => Settled(a)' /\ (a \in performed' => a \in performed)
      BY <1>0, SettledStays, Zenon
    <3>2. a \in performed => a \in performed'
      BY <1>0, LedgersFrom
    <3>3. Heard(a, Outcomes) => Heard(a, Outcomes)'
      BY <1>0, HeardStays, Zenon
    <3>. QED BY <3>1, <3>2, <3>3
  <2>. QED BY <2>1, <2>2, <2>3
<1>. QED BY <1>1, AnswersWaiting DEF Answered, Backed

-----------------------------------------------------------------------------
(* Outcomes are told once, and first.                                       *)

(* Nothing is reported but by a frame that arrives.                         *)
LEMMA ReportsArrive ==
  ASSUME Next, \A i \in DOMAIN connections : ~HandleFrame(i)
  PROVE  UNCHANGED reported
<1>1. ASSUME UNCHANGED askVars PROVE UNCHANGED reported
  BY <1>1 DEF askVars
<1>. QED BY <1>1 DEF Next, Dispatch, Cancel, EffectEnds, Reconcile, ReconcileReturns, Drop,
       Attach, WorkerDies, WorkerHandlesFrame, DrainCompletion

(* Of the frames a step sends one speaks of an attempt.                     *)
LEMMA OneOfOne ==
  ASSUME Typed, NEW w \in Workers, NEW x \in Frames, Sent(w, <<x>>), NEW v \in Workers,
         NEW n \in DOMAIN toController'[v] \ DOMAIN toController[v],
         NEW k \in DOMAIN toController'[v] \ DOMAIN toController[v]
  PROVE  k = n
<1>1. /\ v = w /\ n = Len(toController[w]) + 1
      /\ k = Len(toController[w]) + 1
  BY SentOne
<1>. QED BY <1>1

LEMMA OneOfTwo ==
  ASSUME Typed, NEW w \in Workers, NEW x \in Frames, NEW y \in Frames, Sent(w, <<x, y>>),
         NEW b, ~Speaks(x, b) \/ ~Speaks(y, b), NEW v \in Workers,
         NEW n \in DOMAIN toController'[v] \ DOMAIN toController[v], Speaks(toController'[v][n], b),
         NEW k \in DOMAIN toController'[v] \ DOMAIN toController[v], Speaks(toController'[v][k], b)
  PROVE  k = n
<1>1. /\ \/ n = Len(toController[w]) + 1 /\ toController'[v][n] = x
         \/ n = Len(toController[w]) + 2 /\ toController'[v][n] = y
      /\ \/ k = Len(toController[w]) + 1 /\ toController'[v][k] = x
         \/ k = Len(toController[w]) + 2 /\ toController'[v][k] = y
  BY SentTwo
<1>. QED BY <1>1

LEMMA ReactionSpeaksOnce ==
  ASSUME Typed, NEW w \in Workers, WorkerHandlesFrame(w), NEW b, NEW v \in Workers,
         NEW n \in DOMAIN toController'[v] \ DOMAIN toController[v], Speaks(toController'[v][n], b),
         NEW k \in DOMAIN toController'[v] \ DOMAIN toController[v], Speaks(toController'[v][k], b)
  PROVE  k = n
<1> DEFINE Goal == k = n
<1> HIDE DEF Goal
<1>0. \A x \in Frames : Sent(w, <<x>>) => Goal
  BY OneOfOne DEF Goal
<1>1. \A x \in Frames, y \in Frames : Sent(w, <<x, y>>) /\ ~Speaks(y, b) => Goal
  BY OneOfTwo DEF Goal
<1>2. /\ \A a \in Attempts, o \in {"accepted", "duplicate", "throttled"} :
           DispatchAck(a, o) \in Frames /\ ~Speaks(DispatchAck(a, o), b)
      /\ \A a \in Attempts, o \in Outcomes : Evidence(a, o) \in Frames
      /\ \A a \in Attempts, s \in BOOLEAN : CancelAck(a, s) \in Frames /\ ~Speaks(CancelAck(a, s), b)
  BY FramesMade DEF Speaks, DispatchAck, CancelAck
<1>3. ASSUME NEW a \in Attempts, Duplicate(w, a) PROVE Goal
  <2>1. PICK h \in Holders(w, Key[a]) :
               \/ /\ effect[h] \in Finished
                  /\ Sent(w, <<Evidence(a, effect[h]), DispatchAck(a, "duplicate")>>)
               \/ Sent(w, <<DispatchAck(a, "duplicate")>>)
    BY <1>3, Duplicates, Zenon
  <2>. QED BY <1>0, <1>1, <1>2, <2>1 DEF Finished, Outcomes
<1>4. ASSUME NEW a \in Attempts, Throttle(w, a) PROVE Goal
  BY <1>0, <1>2, <1>4, Throttles
<1>5. ASSUME NEW a \in Attempts, Accept(w, a) PROVE Goal
  <2>1. Sent(w, <<DispatchAck(a, "accepted")>>)
    BY <1>5, Accepts, Zenon
  <2>. QED BY <1>0, <1>2, <2>1
<1>6. ASSUME NEW a \in Attempts, HandleCancel(w, a) PROVE Goal
  <2>1. \/ Sent(w, <<CancelAck(a, FALSE)>>)
        \/ Sent(w, <<Evidence(a, "stopped"), CancelAck(a, TRUE)>>)
        \/ Sent(w, <<Evidence(a, "stopped"), CancelAck(a, FALSE)>>)
    BY <1>6, Cancels, Zenon
  <2>. QED BY <1>0, <1>1, <1>2, <2>1 DEF Outcomes
<1>7. ASSUME NEW m \in Orders, m.type = "reconcile", HandleReconcile(w, m) PROVE Goal
  BY <1>0, <1>7, Answers
<1>8. PICK m : m = toWorker[w][1]
  OBVIOUS
<1>9. m \in Orders
  BY <1>8, Reaction
<1>10. \/ \E a \in Attempts : Starts(m, a) /\ Knows(w, a) /\ Duplicate(w, a)
       \/ \E a \in Attempts : Starts(m, a) /\ ~Knows(w, a) /\ Throttle(w, a)
       \/ \E a \in Attempts : Starts(m, a) /\ ~Knows(w, a) /\ Accept(w, a)
       \/ \E a \in Attempts : Stops(m, a) /\ HandleCancel(w, a)
       \/ m.type = "reconcile" /\ HandleReconcile(w, m)
  BY <1>8, Reaction, Zenon
<1>11. Goal
  BY <1>3, <1>4, <1>5, <1>6, <1>7, <1>9, <1>10
<1>. QED BY <1>11 DEF Goal

LEMMA DrainSpeaksOnce ==
  ASSUME PlaneInv, NEW w \in Workers, DrainCompletion(w), NEW b, NEW v \in Workers,
         NEW n \in DOMAIN toController'[v] \ DOMAIN toController[v], Speaks(toController'[v][n], b),
         NEW k \in DOMAIN toController'[v] \ DOMAIN toController[v], Speaks(toController'[v][k], b)
  PROVE  k = n
<1> DEFINE Goal == k = n
<1> HIDE DEF Goal
<1>0. Typed /\ Deferred
  BY DEF PlaneInv
<1>1. PICK c : c = completions[w][1]
  OBVIOUS
<1>2. c \in Completions /\ c.attempt \in Attempts /\ c.how \in Outcomes /\ effect[c.attempt] \in Running
  BY <1>0, <1>1, Drained, DrainsARunning DEF Completions
<1>3. \A a \in Attempts : Evidence(a, c.how) \in Frames
  BY <1>2, FramesMade
<1>4. \/ Sent(w, <<Evidence(c.attempt, c.how)>>)
      \/ /\ deferred[c.attempt] \in Attempts
         /\ Sent(w, <<Evidence(c.attempt, c.how), Evidence(deferred[c.attempt], c.how)>>)
      \/ UNCHANGED toController
  BY <1>0, <1>1, Drains, Zenon
<1>5. CASE Sent(w, <<Evidence(c.attempt, c.how)>>)
  BY <1>0, <1>2, <1>3, <1>5, OneOfOne
<1>6. CASE /\ deferred[c.attempt] \in Attempts
           /\ Sent(w, <<Evidence(c.attempt, c.how), Evidence(deferred[c.attempt], c.how)>>)
  <2>1. PICK d \in Attempts : d = deferred[c.attempt]
    BY <1>6
  <2>2. d # c.attempt
    <3>1. d # NoAttempt
      BY <2>1, PlaneAssumption
    <3>2. effect[d] = "none"
      BY <1>0, <1>2, <2>1, <3>1 DEF Deferred
    <3>. QED BY <1>2, <3>2 DEF Running
  <2>3. ~Speaks(Evidence(c.attempt, c.how), b) \/ ~Speaks(Evidence(d, c.how), b)
    BY <2>2 DEF Speaks, Evidence
  <2>4. Sent(w, <<Evidence(c.attempt, c.how), Evidence(d, c.how)>>)
    BY <1>6, <2>1
  <2>. QED BY <1>0, <1>2, <1>3, <2>1, <2>3, <2>4, OneOfTwo
<1>7. CASE UNCHANGED toController
  BY <1>7
<1>. QED BY <1>4, <1>5, <1>6, <1>7

(* Of this attempt nothing was told.                                        *)
Mute(b) ==
  /\ Unheard(b)
  /\ \A w \in Workers : \A n \in DOMAIN toController[w] : ~Speaks(toController[w][n], b)

(* An outcome of an effect is new when it is sent.                          *)
LEMMA OutcomesAreNews ==
  ASSUME PlaneInv, NEW w \in Workers, NEW x \in Frames, x.type = "evidence", x.outcome \in Finished,
         \/ WorkerHandlesFrame(w) /\ Replies(w, x)
         \/ DrainCompletion(w) /\ Announces(w, x)
  PROVE  Mute(x.attempt)
<1>0. Typed /\ Addressed /\ Fresh /\ Routed /\ Deferred
  BY DEF PlaneInv
<1>1. \A a \in Attempts : Silent(a) => Mute(a)
  BY DEF Silent, Mute, Ends
<1>2. CASE WorkerHandlesFrame(w) /\ Replies(w, x)
  <2>1. PICK a \in Attempts : Starts(toWorker[w][1], a) /\ x.attempt = a
    BY <1>2 DEF Replies, Finished, AnswerTo
  <2>2. Silent(a)
    BY <1>0, <1>2, <2>1, StartsUntouched DEF Untouched
  <2>. QED BY <1>1, <2>1, <2>2
<1>3. CASE DrainCompletion(w) /\ Announces(w, x)
  <2>1. PICK c : c = completions[w][1]
    OBVIOUS
  <2>2. c.attempt \in Attempts
    BY <1>0, <1>3, <2>1, Drained DEF Completions
  <2>3. CASE x.attempt = c.attempt
    <3>1. effect[c.attempt] = "running"
      BY <1>3, <2>1 DEF Announces, Publishes
    <3>. QED BY <1>0, <1>1, <2>2, <2>3, <3>1 DEF Routed
  <2>4. CASE x.attempt = deferred[c.attempt] /\ x.attempt \in Attempts
    <3>1. deferred[c.attempt] # NoAttempt
      BY <2>4, PlaneAssumption
    <3>. QED BY <1>0, <2>2, <2>4, <3>1 DEF Deferred, Mute
  <2>. QED BY <1>3, <2>1, <2>3, <2>4 DEF Announces
<1>. QED BY <1>2, <1>3

(* While a frame is handled the outcomes behind it are news still.          *)
LEMMA OutcomesWait ==
  ASSUME PlaneInv, NEW i \in DOMAIN connections, HandleFrame(i), Typed',
         NEW v \in Workers, NEW j \in DOMAIN toController[v],
         toController[v][j].type = "evidence", toController[v][j].outcome \in Finished,
         v = connections[i] => j > 1,
         NEW b, b = toController[v][j].attempt
  PROVE  Unheard(b)'
<1>0. Typed /\ Addressed /\ Answered /\ First
  BY DEF PlaneInv
<1>1. PICK w \in Workers : w = connections[i] /\ 1 \in DOMAIN toController[w]
  BY <1>0, Receipt
<1>2. PICK m : m = toController[w][1]
  OBVIOUS
<1>4. /\ Unheard(b) /\ carrier[b] = v
      /\ \A k \in DOMAIN toController[v] : Speaks(toController[v][k], b) => k >= j
  BY <1>0 DEF First, Addressed, Theirs
<1>5. \A r \in reported' :
        \/ r \in reported
        \/ m.type = "evidence" /\ r = ReportOf(m.attempt, m.outcome)
        \/ /\ m.type = "answer" /\ r.attempt \in DOMAIN m.entries
           /\ r.outcome = m.entries[r.attempt] /\ r.outcome \in Finished
  BY <1>0, <1>1, <1>2, ReportsFrom, Zenon
<1>6. SUFFICES ASSUME NEW r \in reported', r.attempt = b PROVE FALSE
  BY DEF Unheard
<1>7. CASE r \in reported
  BY <1>4, <1>6, <1>7 DEF Unheard
<1>8. CASE m.type = "evidence" /\ r = ReportOf(m.attempt, m.outcome)
  <2>1. Speaks(m, b)
    BY <1>6, <1>8 DEF Speaks, ReportOf
  <2>2. carrier[b] = w
    BY <1>0, <1>1, <1>2, <2>1 DEF Addressed, Theirs, Speaks
  <2>3. j > 1 /\ 1 >= j
    BY <1>1, <1>2, <1>4, <2>1, <2>2
  <2>4. j \in Nat
    BY <1>0 DEF Typed
  <2>. QED BY <2>3, <2>4
<1>9. CASE /\ m.type = "answer" /\ r.attempt \in DOMAIN m.entries
           /\ r.outcome = m.entries[r.attempt] /\ r.outcome \in Finished
  <2>1. b \in DOMAIN m.entries /\ (m.entries[b] = "completed" \/ m.entries[b] = "failed")
    BY <1>6, <1>9 DEF Finished
  <2>2. Heard(b, {"completed"}) \/ Heard(b, Outcomes)
    BY <1>0, <1>1, <1>2, <1>9, <2>1, AnswerInFront
  <2>. QED BY <1>4, <2>2 DEF Heard, Unheard
<1>. QED BY <1>5, <1>7, <1>8, <1>9

(* An outcome keeps its place before whatever else is told of the attempt.  *)
Leads(v, n, b) ==
  \A k \in DOMAIN toController[v] : Speaks(toController[v][k], b) => k >= n

LEMMA LeadGoesOn ==
  ASSUME Typed, Typed', NEW v \in Workers, NEW n \in DOMAIN toController'[v],
         NEW j \in DOMAIN toController[v], Follows(v, j, n), NEW b, Leads(v, j, b)
  PROVE  Leads(v, n, b)'
<1>1. SUFFICES ASSUME NEW k \in DOMAIN toController'[v], Speaks(toController'[v][k], b), ~(k >= n)
               PROVE  FALSE
  BY DEF Leads
<1>2. k \in Nat /\ n \in Nat /\ j \in Nat
  BY DEF Typed
<1>3. k < n
  BY <1>1, <1>2
<1>4. PICK l \in DOMAIN toController[v] : l < j /\ toController'[v][k] = toController[v][l]
  BY <1>3 DEF Follows
<1>5. l \in Nat /\ l >= j
  BY <1>1, <1>4 DEF Typed, Leads, Speaks
<1>. QED BY <1>2, <1>4, <1>5

LEMMA FirstIsKept ==
  ASSUME PlaneInv, Next, Typed'
  PROVE  First'
<1>0. Typed /\ Wires /\ Addressed /\ First
  BY DEF PlaneInv
<1>1. SUFFICES ASSUME NEW v \in Workers, NEW n \in DOMAIN toController'[v],
                      NEW x, x = toController'[v][n], x.type = "evidence", x.outcome \in Finished,
                      NEW b, b = x.attempt
               PROVE  Unheard(b)' /\ Leads(v, n, b)'
  BY DEF First, Leads
<1>2. ASSUME NEW j \in DOMAIN toController[v], Follows(v, j, n)
      PROVE  /\ x = toController[v][j] /\ Unheard(b) /\ Leads(v, n, b)'
  <2>1. x = toController[v][j]
    BY <1>1, <1>2 DEF Follows
  <2>2. Unheard(b) /\ Leads(v, j, b)
    BY <1>0, <1>1, <2>1 DEF First, Leads
  <2>. QED BY <1>0, <1>2, <2>1, <2>2, LeadGoesOn
<1>3. CASE \E i \in DOMAIN connections : HandleFrame(i)
  <2>1. PICK i \in DOMAIN connections : HandleFrame(i)
    BY <1>3
  <2>2. PICK w \in Workers : /\ w = connections[i]
                             /\ \A u \in Workers \ {w} : toController'[u] = toController[u]
    BY <1>0, <2>1, Received
  <2>3. \E j \in DOMAIN toController[v] : Follows(v, j, n) /\ (v = w => j > 1)
    <3>1. CASE v = w
      <4>1. n + 1 \in DOMAIN toController[v] /\ Follows(v, n + 1, n)
        BY <1>0, <2>1, <2>2, <3>1, FollowsFront
      <4>2. n \in Nat \ {0}
        BY DEF Typed
      <4>. QED BY <4>1, <4>2
    <3>2. CASE v # w
      <4>1. toController' \in [Workers -> Seq(Frames)] /\ toController'[v] = toController[v]
        BY <2>2, <3>2 DEF Typed
      <4>2. Follows(v, n, n)
        BY <1>0, <4>1, FollowsInPlace
      <4>. QED BY <4>1, <4>2, <3>2
    <3>. QED BY <3>1, <3>2
  <2>4. PICK j \in DOMAIN toController[v] : Follows(v, j, n) /\ (v = w => j > 1)
    BY <2>3
  <2>5. x = toController[v][j] /\ Leads(v, n, b)'
    BY <1>2, <2>4
  <2>6. Unheard(b)'
    BY <1>1, <2>1, <2>2, <2>4, <2>5, OutcomesWait
  <2>. QED BY <2>5, <2>6
<1>4. CASE \A i \in DOMAIN connections : ~HandleFrame(i)
  <2>1. Unheard(b) => Unheard(b)'
    BY <1>4, ReportsArrive DEF Unheard
  <2>2. CASE \E j \in DOMAIN toController[v] : Follows(v, j, n)
    BY <1>2, <2>1, <2>2
  <2>3. CASE Joins(v, n) /\ (\/ WorkerHandlesFrame(v) /\ Replies(v, x)
                             \/ DrainCompletion(v) /\ Announces(v, x))
    <3>1. x \in Frames
      BY <1>1 DEF Typed
    <3>2. Mute(b)
      BY <1>1, <2>3, <3>1, OutcomesAreNews
    <3>3. ASSUME NEW k \in DOMAIN toController'[v], Speaks(toController'[v][k], b) PROVE k = n
      <4>1. k \notin DOMAIN toController[v]
        BY <2>3, <3>2, <3>3 DEF Joins, Mute, Speaks
      <4>2. n \notin DOMAIN toController[v] /\ Speaks(toController'[v][n], b)
        BY <1>1, <2>3 DEF Joins, Speaks
      <4>. QED BY <1>0, <2>3, <3>3, <4>1, <4>2, ReactionSpeaksOnce, DrainSpeaksOnce
    <3>4. n \in Nat
      BY DEF Typed
    <3>5. Leads(v, n, b)'
      BY <3>3, <3>4 DEF Leads
    <3>. QED BY <2>1, <3>2, <3>5 DEF Mute
  <2>4. x.type # "hello"
    BY <1>1
  <2>. QED BY <1>0, <1>1, <2>2, <2>3, <2>4, Places
<1>. QED BY <1>3, <1>4

-----------------------------------------------------------------------------
(* The theorems.                                                            *)

(* A step that changes nothing keeps the invariant.                         *)
LEMMA PlaneRests ==
  ASSUME PlaneInv, UNCHANGED vars
  PROVE  PlaneInv'
<1>0. /\ UNCHANGED <<connections, helloed, inFlight, route, pending, requests>>
      /\ UNCHANGED <<toWorker, toController, life, effect, deferred, order, working>>
      /\ UNCHANGED <<completions, performed, evicted, carrier, asked, reported, answered>>
  BY DEF vars, adapterVars, workerVars, askVars
<1>1. Typed'
  BY <1>0 DEF PlaneInv, Typed, TypeOK, Issued
<1>2. Wires' /\ Addressed'
  <2>1. \A w \in Workers : Wired(w)' <=> Wired(w)
    BY <1>0 DEF Wired, Attached, Carried
  <2>2. RoutesLeadToTheCarrier' <=> RoutesLeadToTheCarrier
    BY <1>0 DEF RoutesLeadToTheCarrier
  <2>3. \A w, m : (Ours(w, m)' <=> Ours(w, m)) /\ (Theirs(w, m)' <=> Theirs(w, m))
    BY <1>0 DEF Ours, Theirs
  <2>4. Issued' = Issued
    BY <1>0 DEF Issued
  <2>5. Addressed'
    BY <1>0, <2>3, <2>4 DEF PlaneInv, Addressed
  <2>. QED BY <2>1, <2>2, <2>5 DEF PlaneInv, Wires
<1>3. \A a \in Attempts : (New(a)' <=> New(a)) /\ (Silent(a)' <=> Silent(a))
                          /\ (Waiting(a)' <=> Waiting(a))
  BY <1>0 DEF New, Waiting, Silent, Unheard
<1>4. Fresh'
  BY <1>0, <1>3 DEF PlaneInv, Fresh, Untouched
<1>5. Routed'
  BY <1>0, <1>3 DEF PlaneInv, Routed, Attached
<1>6. Deferred'
  <2>1. deferred \in [Attempts -> Attempts \cup {NoAttempt}]
    BY DEF PlaneInv, Typed, TypeOK
  <2>. QED BY <1>0, <1>3, <2>1 DEF PlaneInv, Deferred, Unheard
<1>7. Worked'
  BY <1>0 DEF PlaneInv, Worked, Begun, Forgotten
<1>8. \A a \in Attempts : (Unsuccessful(a)' <=> Unsuccessful(a)) /\ (Settled(a)' <=> Settled(a))
  BY <1>0, <1>3 DEF Unsuccessful, Settled
<1>9. \A w, n, a, said : SaidBefore(w, n, a, said)' <=> SaidBefore(w, n, a, said)
  BY <1>0 DEF SaidBefore, Heard
<1>10. Told'
  BY <1>0, <1>8, <1>9 DEF PlaneInv, Told, Issued, Attached
<1>11. Answered'
  <2>1. \A r \in answered : r.attempt \in Attempts
    BY DEF PlaneInv, Typed
  <2>2. \A w \in Workers : \A n \in DOMAIN toController[w] : toController[w][n].type = "answer" =>
          DOMAIN toController[w][n].entries \subseteq Attempts
    BY FrameTypes DEF PlaneInv, Typed
  <2>3. \A a : Heard(a, Outcomes)' <=> Heard(a, Outcomes)
    BY <1>0 DEF Heard
  <2>. QED BY <1>0, <1>8, <1>9, <2>1, <2>2, <2>3 DEF PlaneInv, Answered
<1>12. First'
  BY <1>0 DEF PlaneInv, First, Unheard
<1>. QED BY <1>1, <1>2, <1>4, <1>5, <1>6, <1>7, <1>10, <1>11, <1>12 DEF PlaneInv

(* The invariant of the execution plane: what the adapter's tables, the     *)
(* workers' ledgers and the frames between them agree on after any step of  *)
(* the orchestrator's calls, the connections and the effect threads         *)
(* (process_adapter.cpp, worker.cpp).                                       *)
THEOREM PlaneInvariant == Spec => []PlaneInv
<1>1. PlaneInv /\ Next => PlaneInv'
  <2>. SUFFICES ASSUME PlaneInv, Next PROVE PlaneInv'
    OBVIOUS
  <2>0. Typed /\ Wires /\ Addressed /\ Fresh /\ Deferred
    BY DEF PlaneInv
  <2>1. Typed'
    BY <2>0, TypesAreKept
  <2>2. Wires' /\ Addressed'
    BY <2>0, <2>1, WiresAreKept, AddressesAreKept
  <2>3. Fresh' /\ Routed' /\ Deferred' /\ Worked'
    BY <2>1, FreshIsKept, RoutedIsKept, DeferredIsKept, WorkedIsKept
  <2>4. Told' /\ Answered' /\ First'
    BY <2>1, ToldIsKept, AnsweredIsKept, FirstIsKept
  <2>. QED BY <2>1, <2>2, <2>3, <2>4 DEF PlaneInv
<1>. QED BY <1>1, InitPlane, PlaneRests, PTL DEF Spec

(* The adapter's tables, the workers' ledgers and the histories hold values *)
(* of their types (process_adapter.hpp, worker.cpp:150).                    *)
THEOREM PlaneTypes == Spec => []TypeOK
<1>1. PlaneInv => TypeOK
  BY DEF PlaneInv, Typed
<1>. QED BY <1>1, PlaneInvariant, PTL

(* However many connections were dropped and whatever their places were, a  *)
(* route leads to the worker the attempt was sent to                        *)
(* (process_adapter.cpp:1230).                                              *)
THEOREM RoutesLead == Spec => []RoutesLeadToTheCarrier
<1>1. PlaneInv => RoutesLeadToTheCarrier
  BY DEF PlaneInv, Wires
<1>. QED BY <1>1, PlaneInvariant, PTL

(* The slots a connection counts as taken are the attempts routed to it,    *)
(* after every handler that changes either (process_adapter.cpp:335, 593,   *)
(* 635, 669).                                                               *)
THEOREM SlotsAgree == Spec => []SlotsAreRoutes
<1>1. ASSUME PlaneInv, NEW i \in DOMAIN connections
      PROVE  inFlight[connections[i]] = RouteCount(i)
  <2>0. Typed /\ Wires
    BY <1>1 DEF PlaneInv
  <2>1. PICK w \in Workers : w = connections[i]
    BY <2>0, <1>1 DEF Typed, TypeOK
  <2>2. inFlight[w] = Cardinality(Carried(w))
    BY <2>0 DEF Wires, Wired
  <2>3. i # 0 /\ IsInjective(connections) /\ RoutesLeadToTheCarrier
    BY <2>0, <1>1 DEF Typed, TypeOK, Wires
  <2>4. ASSUME NEW a \in Attempts PROVE route[a] = i <=> route[a] # 0 /\ carrier[a] = w
    <3>1. route[a] # 0 => route[a] \in DOMAIN connections /\ connections[route[a]] = carrier[a]
      BY <2>3 DEF RoutesLeadToTheCarrier
    <3>. QED BY <1>1, <2>1, <2>3, <3>1 DEF IsInjective
  <2>5. {a \in Attempts : route[a] = i} = Carried(w)
    BY <2>4 DEF Carried
  <2>. QED BY <2>1, <2>2, <2>5 DEF RouteCount
<1>2. PlaneInv => SlotsAreRoutes
  BY <1>1 DEF SlotsAreRoutes
<1>. QED BY <1>2, PlaneInvariant, PTL

(* An effect that runs and was not asked to stop can be found: its attempt  *)
(* has a route while the worker is attached (process_adapter.cpp:350, 833). *)
THEOREM RunningIsRouted == Spec => []RunningEffectsAreRouted
<1>1. PlaneInv => RunningEffectsAreRouted
  BY DEF PlaneInv, Routed, RunningEffectsAreRouted
<1>. QED BY <1>1, PlaneInvariant, PTL

(* A worker performs the effect of a key once until the full table made it  *)
(* forget the key, and never forgets one whose effect is at work            *)
(* (worker.cpp:612, 730).                                                   *)
THEOREM KeyIsPerformedOnce == Spec => []OncePerKey
<1>1. PlaneInv => OncePerKey
  BY DEF PlaneInv, Worked, Begun, Forgotten, OncePerKey
<1>. QED BY <1>1, PlaneInvariant, PTL

(* A reconcile answer is true, and one that says "not started" of an effect *)
(* that was performed comes after the report of it (worker.cpp:986).        *)
THEOREM AnswersHold == Spec => []AnswersAreTrue
<1>1. PlaneInv => AnswersAreTrue
  BY DEF PlaneInv, Answered, Heard, AnswersAreTrue
<1>. QED BY <1>1, PlaneInvariant, PTL

(* A report that arrives is one the contract allows.                        *)
LEMMA ReportsAreAllowed ==
  ASSUME PlaneInv, Typed', NEW i \in DOMAIN connections, HandleFrame(i),
         NEW r \in reported' \ reported
  PROVE  r.attempt \in Issued /\ r.outcome \in Outcomes /\ Promise!Allowed(r.attempt, r.outcome)
<1>0. Typed /\ Addressed /\ Answered /\ First /\ Told
  BY DEF PlaneInv
<1>1. PICK w \in Workers : w = connections[i] /\ 1 \in DOMAIN toController[w]
  BY <1>0, Receipt
<1>2. PICK m \in Frames : m = toController[w][1]
  BY <1>0, <1>1 DEF Typed
<1>3. \/ m.type = "evidence" /\ r = ReportOf(m.attempt, m.outcome)
      \/ /\ m.type = "answer" /\ r.attempt \in DOMAIN m.entries
         /\ r.outcome = m.entries[r.attempt] /\ r.outcome \in Finished
  BY <1>0, <1>1, <1>2, ReportsFrom, Zenon
<1>4. CASE m.type = "evidence" /\ r = ReportOf(m.attempt, m.outcome)
  <2>1. r.attempt = m.attempt /\ r.outcome = m.outcome /\ r.outcome \in Outcomes
    BY <1>2, <1>4, FrameTypes DEF ReportOf
  <2>a. Theirs(w, m)
    BY <1>0, <1>1, <1>2 DEF Addressed
  <2>2. m.attempt \in Attempts /\ carrier[m.attempt] = w
    BY <1>2, <1>4, <2>a, FrameTypes DEF Theirs
  <2>3. r.attempt \in Issued
    BY <2>1, <2>2, PlaneAssumption DEF Issued
  <2>4. r.outcome = "stopped" => r.attempt \in asked
    BY <1>4, <2>1, <2>a DEF Theirs
  <2>5. r.outcome \in Finished => Promise!Outcome(r.attempt) = {}
    BY <1>0, <1>1, <1>2, <1>4, <2>1 DEF First, Unheard, Promise!Outcome
  <2>. QED BY <2>1, <2>3, <2>4, <2>5 DEF Promise!Allowed, Finished, Outcomes
<1>5. CASE /\ m.type = "answer" /\ r.attempt \in DOMAIN m.entries
           /\ r.outcome = m.entries[r.attempt] /\ r.outcome \in Finished
  <2>1. PICK a \in Attempts : a = r.attempt
    BY <1>2, <1>5, FrameTypes
  <2>2. carrier[a] = w /\ a \in DOMAIN m.entries
    BY <1>0, <1>1, <1>2, <1>5, <2>1 DEF Addressed, Theirs
  <2>3. a \in Issued
    BY <2>1, <2>2, PlaneAssumption DEF Issued
  <2>4. /\ r.outcome = "completed" => Heard(a, {"completed"})
        /\ r.outcome = "failed" => Unsuccessful(a)
    BY <1>0, <1>1, <1>2, <1>5, <2>1, <2>2, AnswerInFront
  <2>5. r.outcome # "completed"
    <3>1. SUFFICES ASSUME r.outcome = "completed" PROVE FALSE
      OBVIOUS
    <3>2. PICK q \in reported : q.attempt = a /\ q.outcome = "completed"
      BY <2>4, <3>1 DEF Heard
    <3>3. /\ q \in [attempt : Attempts, outcome : Outcomes]
          /\ r \in [attempt : Attempts, outcome : Outcomes]
      BY <1>0 DEF Typed
    <3>4. q = r
      BY <2>1, <3>1, <3>2, <3>3
    <3>. QED BY <3>4
  <2>6. r.outcome = "failed" /\ Unsuccessful(a)
    BY <1>5, <2>4, <2>5 DEF Finished
  <2>7. "completed" \notin Promise!Outcome(a)
    BY <2>6 DEF Unsuccessful, Promise!Outcome
  <2>. QED BY <2>1, <2>3, <2>6, <2>7 DEF Promise!Allowed, Outcomes
<1>. QED BY <1>3, <1>4, <1>5

(* One step of the plane is a step of the contract, or none.                *)
LEMMA ContractStep ==
  ASSUME PlaneInv, Next, Typed'
  PROVE  Promise!Next \/ UNCHANGED <<Issued, asked, reported>>
<1> DEFINE Goal == Promise!Next \/ UNCHANGED <<Issued, asked, reported>>
<1> HIDE DEF Goal
<1>0. Typed /\ Wires
  BY DEF PlaneInv
<1>1. ASSUME UNCHANGED <<carrier, asked, reported>> PROVE Goal
  BY <1>1 DEF Goal, Issued
<1>2. ASSUME NEW a \in Attempts, Dispatch(a) PROVE Goal
  <2>1. PICK w \in Workers :
          carrier'[a] = w /\ \A b \in Attempts \ {a} : carrier'[b] = carrier[b]
    BY <1>0, <1>2, Dispatched
  <2>2. carrier[a] = NoWorker /\ UNCHANGED <<asked, reported>>
    BY <1>2 DEF Dispatch
  <2>3. a \notin Issued /\ Issued' = Issued \cup {a}
    BY <2>1, <2>2, PlaneAssumption DEF Issued
  <2>. QED BY <2>2, <2>3 DEF Goal, Promise!Next, Promise!Issue
<1>3. ASSUME NEW a \in Attempts, Cancel(a) PROVE Goal
  <2>1. asked' = asked \cup {a} /\ a \in Issued /\ UNCHANGED <<carrier, reported>>
    BY <1>0, <1>3, Cancelled
  <2>2. Issued' = Issued
    BY <2>1 DEF Issued
  <2>. QED BY <2>1, <2>2 DEF Goal, Promise!Next, Promise!AskToStop
<1>4. ASSUME NEW i \in DOMAIN connections, HandleFrame(i) PROVE Goal
  <2>1. UNCHANGED <<carrier, asked>>
    BY <1>4 DEF HandleFrame
  <2>2. UNCHANGED <<Issued, asked>>
    BY <2>1 DEF Issued
  <2>3. reported \subseteq reported'
    BY <1>0, ReportedFrom
  <2>4. \A r \in reported' \ reported :
          r.attempt \in Issued /\ r.outcome \in Outcomes /\ Promise!Allowed(r.attempt, r.outcome)
    BY <1>4, ReportsAreAllowed
  <2>. QED BY <2>2, <2>3, <2>4 DEF Goal, Promise!Next, Promise!Deliver
<1>5. ASSUME UNCHANGED askVars PROVE Goal
  BY <1>1, <1>5 DEF askVars
<1>6. ASSUME \E w \in Workers : WorkerHandlesFrame(w) \/ DrainCompletion(w) \/ WorkerDies(w) \/ Attach(w)
      PROVE  Goal
  BY <1>5, <1>6 DEF WorkerHandlesFrame, DrainCompletion, WorkerDies, Attach
<1>7. ASSUME Reconcile \/ ReconcileReturns \/ (\E a \in Attempts : EffectEnds(a))
             \/ \E i \in DOMAIN connections : Drop(i)
      PROVE  Goal
  BY <1>5, <1>7 DEF Reconcile, ReconcileReturns, EffectEnds, Drop
<1>8. Goal
  BY <1>2, <1>3, <1>4, <1>6, <1>7 DEF Next
<1>. QED BY <1>8 DEF Goal

(* The adapter and the workers together keep the contract the orchestrator  *)
(* relies on: what is reported of an attempt never contradicts what was     *)
(* reported before, and no success follows an acknowledged stop             *)
(* (README.md:40).                                                          *)
THEOREM PlaneKeepsContract == Spec => KeepsContract
<1>1. Init => Promise!Init
  BY DEF Init, Promise!Init, Issued
<1>2. PlaneInv /\ PlaneInv' /\ [Next]_vars => [Promise!Next]_(Promise!contractVars)
  <2>1. ASSUME PlaneInv, PlaneInv', Next PROVE Promise!Next \/ UNCHANGED <<Issued, asked, reported>>
    <3>1. Typed'
      BY <2>1 DEF PlaneInv
    <3>. QED BY <2>1, <3>1, ContractStep
  <2>2. ASSUME UNCHANGED vars PROVE UNCHANGED <<Issued, asked, reported>>
    BY <2>2 DEF vars, askVars, Issued
  <2>. QED BY <2>1, <2>2 DEF Promise!contractVars
<1>. QED BY <1>1, <1>2, PlaneInvariant, PTL DEF Spec, KeepsContract, Promise!Spec
================================================================================
