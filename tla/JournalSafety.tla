----------------------------- MODULE JournalSafety -----------------------------
(***************************************************************************)
(* What must hold of the journal: it implements DurableState, its writer    *)
(* stands where a replay would put it, and no two controllers ever run      *)
(* under the same epoch.                                                    *)
(***************************************************************************)
EXTENDS Journal

Cells == [record : Records, part : Nat]
Files == [header : {"none", "torn", "valid"}, body : Seq(Cells)]

\* The variables hold values of their types.
TypeOK ==
  /\ file \in Files /\ durable \in Files /\ temp \in Seq(Cells)
  /\ step \in Steps
  /\ writing \in {<<>>} \cup [record : Records, cells : Nat]
  /\ Writing <=> writing # <<>>
  /\ end \in Nat /\ lastSeq \in Nat /\ since \in Nat /\ epoch \in Nat
  /\ memory \in Snapshots \cup {Nothing} /\ told \in Snapshots \cup {Nothing}
  /\ failed \in BOOLEAN /\ claimed \subseteq 1..MaxEpoch

\* While the storage works, the state the controller acts on is the one a
\* restart would adopt even after a loss of power, and the next record is
\* written exactly where the replay would end (journal.cpp:864, 961): a stale
\* offset or sequence number overwrites or orphans proved records.
ActsOnDurableState ==
  step = "running" /\ ~failed =>
    /\ durable = file
    /\ end = Len(file.body) /\ end = ValidEnd(file.body)
    /\ lastSeq = LastSequence(file.body)
    /\ memory = Newest(file.body)

\* A controller comes up only under an epoch no controller came up under
\* before, whatever was compacted, torn or lost in between (controller.cpp:410):
\* operators' fences and workers tell incarnations apart by it.
EpochsNeverReused ==
  [][step = "claiming" /\ step' = "running" => \A e \in claimed : e < epoch]_vars

\* the values that may come to be stored: a snapshot that is in the file and
\* is not flushed, and the state being appended or compacted
Unsaved == IF Newest(file.body) = Newest(durable.body) THEN {} ELSE {Newest(file.body)}
Underway == IF step \in {"appending", "compacting", "replacing"} THEN {memory} ELSE {}
Offered == (Unsaved \cup Underway) \ {Nothing}

Store == INSTANCE DurableState WITH
  Values <- Snapshots, stored <- Newest(durable.body),
  offered <- Offered, promised <- told

\* The journal is a durable register: what a restart adopts changes only to a
\* value the controller offered, a value reported as persisted is persisted,
\* and crashes, torn tails, repairs and compactions are invisible
\* (journal.hpp: "a crash can never lose a decision that was acted upon").
StoreSpec == Store!Spec

\* journal.hpp:136: "an interrupted compaction leaves the original journal
\* intact and a partially written temporary is never observed as a journal".
CompactionIsAtomic ==
  [][step = "compacting" => file' = file]_vars
=============================================================================
