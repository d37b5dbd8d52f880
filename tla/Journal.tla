-------------------------------- MODULE Journal --------------------------------
(***************************************************************************)
(* The journal file (journal.cpp) under the controller that owns it         *)
(* (Controller::open, Orchestrator::Impl::append_journal, persist_rollout,  *)
(* maybe_compact): creation, replay, repair of a torn tail, append, and     *)
(* compaction through a temporary file, with I/O errors, process crashes    *)
(* and power loss between any two writes.                                   *)
(*                                                                          *)
(* A file is a header and a sequence of cells; a record occupies Size cells *)
(* and each cell names the record and the part of it that it holds, so a    *)
(* checksum verifies exactly when all the parts of one record stand in      *)
(* order.  The inventory, the plans and the rollout snapshots are one       *)
(* value, the snapshot.  Decisions and operator commands, which a restart   *)
(* ignores, are left out.  The exclusive lock leaves one writer at a time.  *)
(***************************************************************************)
EXTENDS Integers, Sequences

CONSTANTS
  Snapshots,          \* the states of the controller worth persisting
  Nothing,            \* no snapshot
  Size,               \* cells of a snapshot's record
  MaxCells,           \* max_journal_bytes, in cells
  TriggerRecords,     \* snapshot_trigger_records
  MaxEpoch,           \* bound: the controller is opened below it
  ReplacesOpenFiles,  \* does the system let a file that is open be replaced?
  LosesPower          \* may the machine lose power?

Claim == "claim"    \* an IncarnationClaimed record
Marker == "marker"  \* a CompactionMarker record

ASSUME JournalAssumption ==
  /\ {Nothing, Claim, Marker} \cap Snapshots = {}
  /\ Size \in [Snapshots -> Nat \ {0}]
  /\ MaxCells \in Nat /\ TriggerRecords \in Nat \ {0} /\ MaxEpoch \in Nat
  /\ ReplacesOpenFiles \in BOOLEAN /\ LosesPower \in BOOLEAN

VARIABLES
  file,      \* the journal file as the operating system shows it
  durable,   \* what of it survives a loss of power
  temp,      \* the body of the .compact file being written
  step,      \* where the controller is
  writing,   \* the record being appended, and how much of it is in the file
  end,       \* JournalWriter::bytes_, in cells
  lastSeq,   \* JournalWriter::last_sequence_
  since,     \* JournalWriter::records_since_snapshot_
  epoch,     \* controller_epoch
  memory,    \* the snapshot of the controller's state
  failed,    \* storage_failed
  told,      \* last_persisted: the snapshot last reported as persisted
  claimed    \* history: the epochs under which a controller came up

fileVars   == <<file, durable, temp>>
writerVars == <<end, lastSeq, since>>
vars == <<fileVars, step, writing, writerVars, epoch, memory, failed, told, claimed>>

Steps == {"down", "creating", "claiming", "running", "appending", "compacting",
          "replacing", "stopping"}

-----------------------------------------------------------------------------
(* Records and cells.                                                       *)

Payloads == Snapshots \cup {Claim, Marker}
Record(payload, seq, e) == [payload |-> payload, seq |-> seq, epoch |-> e]
Records == [payload : Payloads, seq : Nat, epoch : Nat]
CellsOf(payload) == IF payload \in Snapshots THEN Size[payload] ELSE 1

\* encode_record_envelope
Cell(r, part) == [record |-> r, part |-> part]
Junk == Cell(Record(Marker, 0, 0), 0)
Envelope(r) == [part \in 1..CellsOf(r.payload) |-> Cell(r, part)]

\* write_at: the cells from an offset on are overwritten, what follows stays
WriteAt(body, offset, cells) ==
  [i \in 1..(IF offset + Len(cells) > Len(body) THEN offset + Len(cells) ELSE Len(body)) |->
     IF i > offset /\ i <= offset + Len(cells) THEN cells[i - offset] ELSE body[i]]

\* decode_record_envelope at cell i: every part of one record, in order
Proved(body, i) ==
  /\ i <= Len(body)
  /\ body[i].part = 1
  /\ LET n == CellsOf(body[i].record.payload)
     IN  /\ i + n - 1 <= Len(body)
         /\ SubSeq(body, i, i + n - 1) = Envelope(body[i].record)

\* replay goes past cell j: it is in a proved record, whose sequence number
\* follows that of the record before it
Continues(body, j) ==
  \E i \in 1..j :
    /\ j < i + CellsOf(body[i].record.payload) /\ Proved(body, i)
    /\ i > 1 => body[i - 1].record.seq < body[i].record.seq

(* valid_end: the longest prefix made of proved records whose sequence      *)
(* numbers increase.  What follows it is never interpreted.                 *)
ValidEnd(body) ==
  CHOOSE n \in 0..Len(body) :
    /\ \A j \in 1..n : Continues(body, j)
    /\ n < Len(body) => ~Continues(body, n + 1)

\* the last sequence number that was replayed
LastSequence(body) == IF ValidEnd(body) = 0 THEN 0 ELSE body[ValidEnd(body)].record.seq

Greatest(numbers) == CHOOSE n \in numbers : \A m \in numbers : m <= n

\* faulty: only claims are consulted, and a compaction drops every claim
HighestClaimed(body) ==
  Greatest({body[i].record.epoch :
              i \in {j \in 1..ValidEnd(body) : body[j].record.payload = Claim}} \cup {0})

\* Controller::open: the highest epoch on any record
HighestEpoch(body) == Greatest({body[i].record.epoch : i \in 1..ValidEnd(body)} \cup {0})

\* Controller::open: the last snapshot of the valid prefix wins
Newest(body) ==
  LET holding == {i \in 1..ValidEnd(body) : body[i].record.payload \in Snapshots}
  IN  IF holding = {} THEN Nothing ELSE body[Greatest(holding)].record.payload

Empty == [header |-> "none", body |-> <<>>]

Init ==
  /\ file = Empty /\ durable = Empty /\ temp = <<>>
  /\ step = "down" /\ writing = <<>>
  /\ end = 0 /\ lastSeq = 0 /\ since = 0
  /\ epoch = 0 /\ memory = Nothing /\ failed = FALSE
  /\ told = Nothing /\ claimed = {}

-----------------------------------------------------------------------------
(* Append: checks, the write cell by cell, then the flush.                  *)

Fits(payload) == end + CellsOf(payload) <= MaxCells

BeginAppend(payload, e) ==
  writing' = [record |-> Record(payload, lastSeq + 1, e), cells |-> 0]

Writing == step \in {"claiming", "appending"}
Written == writing.cells = CellsOf(writing.record.payload)

AppendCell ==
  /\ Writing /\ ~Written
  /\ writing' = [writing EXCEPT !.cells = @ + 1]
  /\ file' = [file EXCEPT !.body =
       WriteAt(@, end + writing.cells, <<Cell(writing.record, writing.cells + 1)>>)]
  /\ UNCHANGED <<durable, temp, step, writerVars, epoch, memory, failed, told, claimed>>

\* faulty: the record is published before it is flushed
PublishedUnflushed == UNCHANGED durable
Flushed == durable' = file

\* sync, and the writer moves past the record
AppendDone ==
  /\ Writing /\ Written
  /\ Flushed
  /\ end' = end + CellsOf(writing.record.payload)
  /\ lastSeq' = writing.record.seq
  /\ since' = since + 1
  /\ step' = "running" /\ writing' = <<>>
  /\ told' = IF step = "appending" THEN memory ELSE told
  /\ claimed' = claimed \cup {epoch}
  /\ UNCHANGED <<file, temp, epoch, memory, failed>>

\* faulty: the record is kept for a retry that nobody makes
KeptForRetry == UNCHANGED writing
Abandoned == writing' = <<>>

\* a write or the flush fails: a claim ends the start-up, any other append
\* marks the storage as failed; what was written stays in the file
AppendFails ==
  /\ Writing
  /\ Abandoned
  /\ IF step = "claiming"
     THEN step' = "down" /\ UNCHANGED failed
     ELSE step' = "running" /\ failed' = TRUE
  /\ UNCHANGED <<fileVars, writerVars, epoch, memory, told, claimed>>

-----------------------------------------------------------------------------
(* Controller::open.                                                        *)

\* an empty file gets a header
Create ==
  /\ step = "down" /\ epoch < MaxEpoch
  /\ file.header = "none"
  /\ file' = [file EXCEPT !.header = "valid"]
  /\ step' = "creating"
  /\ UNCHANGED <<durable, temp, writing, writerVars, epoch, memory, failed, told,
                 claimed>>

\* the journal is replayed, its tail cut, the state read, and an epoch claimed
ClaimEpoch ==
  /\ \/ step = "creating"
     \/ step = "down" /\ file.header = "valid"
  /\ epoch < MaxEpoch
  /\ LET kept == [file EXCEPT !.body = SubSeq(@, 1, ValidEnd(file.body))]
     IN  /\ file' = kept
         /\ durable' = IF kept # file \/ step = "creating" THEN kept ELSE durable
         /\ end' = Len(kept.body) /\ lastSeq' = LastSequence(file.body) /\ since' = 0
         /\ memory' = Newest(file.body)
         /\ epoch' = HighestEpoch(file.body) + 1
         /\ failed' = FALSE /\ told' = Nothing
         /\ IF Len(kept.body) + CellsOf(Claim) <= MaxCells
            THEN /\ step' = "claiming"
                 /\ writing' = [record |-> Record(Claim, LastSequence(file.body) + 1, epoch'),
                                cells |-> 0]
            ELSE step' = "down" /\ UNCHANGED writing
  /\ UNCHANGED <<temp, claimed>>

-----------------------------------------------------------------------------
(* persist_rollout and append_journal: a state that is not the last one     *)
(* persisted is appended, unless the storage failed or the journal is full. *)
Persist(s) ==
  /\ step = "running" /\ s # told
  /\ memory' = s
  /\ IF ~failed /\ Fits(s)
     THEN BeginAppend(s, epoch) /\ step' = "appending" /\ UNCHANGED failed
     ELSE failed' = TRUE /\ UNCHANGED <<step, writing>>
  /\ UNCHANGED <<fileVars, writerVars, epoch, told, claimed>>

\* the controller loop leaves after a storage failure, and finalize closes
Exit ==
  /\ step \in {"running", "stopping"}
  /\ step' = "down"
  /\ UNCHANGED <<fileVars, writing, writerVars, epoch, memory, failed, told, claimed>>

-----------------------------------------------------------------------------
(* maybe_compact and rewrite.                                               *)

\* what a compacted journal holds: the state in memory, then a marker
Compacted == (IF memory = Nothing THEN <<>> ELSE <<memory>>) \o <<Marker>>

Compact ==
  /\ step = "running" /\ since >= TriggerRecords
  /\ step' = "compacting" /\ temp' = <<>>
  /\ UNCHANGED <<file, durable, writing, writerVars, epoch, memory, failed, told,
                 claimed>>

CompactRecord ==
  LET n == LastSequence(temp) + 1
  IN  /\ step = "compacting" /\ n <= Len(Compacted)
      /\ temp' = temp \o Envelope(Record(Compacted[n], n, epoch))
      /\ UNCHANGED <<file, durable, step, writing, writerVars, epoch, memory, failed,
                     told, claimed>>

\* a failed write or flush: the temporary replaces the journal as it is, where
\* the system lets a file that is open be replaced; the controller stops
CompactFails ==
  /\ step = "compacting"
  /\ \E replaced \in IF ReplacesOpenFiles THEN BOOLEAN ELSE {FALSE} :
       IF replaced THEN file' = [header |-> "valid", body |-> temp] /\ durable' = file'
       ELSE UNCHANGED <<file, durable>>
  /\ step' = "stopping" /\ failed' = TRUE
  /\ UNCHANGED <<temp, writing, writerVars, epoch, memory, told, claimed>>

\* everything is written and flushed, and the journal's handle is closed
CompactReady ==
  /\ step = "compacting" /\ LastSequence(temp) = Len(Compacted)
  /\ step' = "replacing"
  /\ UNCHANGED <<fileVars, writing, writerVars, epoch, memory, failed, told, claimed>>

\* faulty: the writer goes on where the old file ended
StaleWriter == UNCHANGED <<end, lastSeq>>
\* the writer's position in the compacted file
MovedWriter == end' = Len(temp) /\ lastSeq' = LastSequence(temp)

Replace ==
  /\ step = "replacing"
  /\ file' = [header |-> "valid", body |-> temp] /\ durable' = file'
  /\ MovedWriter /\ since' = 0
  /\ step' = "running"
  /\ UNCHANGED <<temp, writing, epoch, memory, failed, told, claimed>>

\* the file cannot be replaced, or cannot be opened again: the writer is closed
ReplaceFails ==
  /\ step = "replacing"
  /\ \/ UNCHANGED <<file, durable>>
     \/ file' = [header |-> "valid", body |-> temp] /\ durable' = file'
  /\ step' = "stopping" /\ failed' = TRUE
  /\ UNCHANGED <<temp, writing, writerVars, epoch, memory, told, claimed>>

-----------------------------------------------------------------------------
(* Faults.                                                                  *)

Crash ==
  /\ step # "down"
  /\ step' = "down" /\ writing' = <<>>
  /\ UNCHANGED <<fileVars, writerVars, epoch, memory, failed, told, claimed>>

\* the cells that were not flushed
Unflushed == {i \in DOMAIN file.body :
                i > Len(durable.body) \/ durable.body[i] # file.body[i]}

\* the first n cells, of which those that are lost are as they were before
Remains(lost, n) ==
  LET before(i) == IF i <= Len(durable.body) THEN durable.body[i] ELSE Junk
  IN  SubSeq([i \in DOMAIN file.body |-> IF i \in lost THEN before(i) ELSE file.body[i]], 1, n)

PowerLoss ==
  /\ LosesPower /\ (step # "down" \/ file # durable)
  /\ \E lost \in SUBSET Unflushed, n \in Len(durable.body)..Len(file.body),
        header \in IF durable.header = "valid" THEN {"valid"}
                   ELSE {durable.header, file.header, "torn"} :
       file' = [header |-> header,
                body |-> IF header = "valid" THEN Remains(lost, n) ELSE <<>>]
  /\ durable' = file'
  /\ step' = "down" /\ writing' = <<>>
  /\ UNCHANGED <<temp, writerVars, epoch, memory, failed, told, claimed>>

Next ==
  \/ Create \/ ClaimEpoch
  \/ AppendCell \/ AppendDone \/ AppendFails
  \/ (\E s \in Snapshots : Persist(s)) \/ Exit
  \/ Compact \/ CompactRecord \/ CompactFails \/ CompactReady
  \/ Replace \/ ReplaceFails
  \/ Crash \/ PowerLoss
Spec == Init /\ [][Next]_vars
=============================================================================
