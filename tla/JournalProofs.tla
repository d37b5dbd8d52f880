---------------------------- MODULE JournalProofs ----------------------------
(***************************************************************************)
(* Theorems about the journal: wherever it is cut, torn, repaired or        *)
(* compacted, the controller acts on what a restart would adopt, and the    *)
(* file is a durable register.                                              *)
(***************************************************************************)
EXTENDS JournalSafety, SequenceTheorems, WellFoundedInduction, TLAPS

-----------------------------------------------------------------------------
(* The inductive invariant.                                                 *)

Whole(body) == ValidEnd(body) = Len(body)
Begins(a, b) == Len(a) <= Len(b) /\ \A i \in 1..Len(a) : b[i] = a[i]

(* What TypeOK leaves open: no cell is of an epoch not yet given out.       *)
Typed ==
  /\ TypeOK /\ epoch <= MaxEpoch
  /\ \A i \in DOMAIN file.body : file.body[i].record.epoch <= epoch
  /\ step \in {"compacting", "replacing"} =>
       \A i \in DOMAIN temp : temp[i].record.epoch = epoch
  /\ step \notin {"down", "creating"} => epoch >= 1

(* What is not yet flushed follows what is, and holds at most one snapshot. *)
UnsavedCells == (ValidEnd(durable.body) + 1)..ValidEnd(file.body)
OnDisk ==
  /\ Begins(durable.body, file.body)
  /\ Whole(durable.body) \/ (durable = file /\ step = "down")
  /\ \A i, j \in UnsavedCells :
       LET p == file.body[i].record.payload
           q == file.body[j].record.payload
       IN  p \in Snapshots /\ q \in Snapshots => p = q
  /\ durable.header # "valid" => durable.body = <<>>
  /\ step # "down" => file.header = "valid"

(* A record is being written behind a file that is whole.                   *)
Base == SubSeq(file.body, 1, end)
Appending ==
  Writing =>
    /\ writing.cells <= CellsOf(writing.record.payload)
    /\ Len(file.body) = end + writing.cells
    /\ \A q \in 1..writing.cells : file.body[end + q] = Cell(writing.record, q)
    /\ Whole(Base) /\ Len(durable.body) <= end /\ ~failed
    /\ writing.record = Record(IF step = "claiming" THEN Claim ELSE memory,
                               LastSequence(Base) + 1, epoch)
    /\ lastSeq = LastSequence(Base)
    /\ step = "claiming" => memory = Newest(Base) /\ told = Nothing
    /\ step = "appending" => memory \in Snapshots /\ Base = durable.body

(* Of a controller that is up, and has no state, the journal has none.      *)
Known == step \notin {"down", "creating"} /\ memory = Nothing => Newest(file.body) = Nothing

(* The temporary holds the first records of the compacted journal.          *)
Compacting ==
  step \in {"compacting", "replacing"} =>
    /\ Whole(temp) /\ LastSequence(temp) \in 0..Len(Compacted)
    /\ Newest(temp) = IF LastSequence(temp) = 0 THEN Nothing ELSE memory
    /\ step = "replacing" => LastSequence(temp) = Len(Compacted)

JournalInv == Typed /\ OnDisk /\ Appending /\ ActsOnDurableState /\ Known /\ Compacting

(* No claimed epoch is forgotten by what is flushed.                        *)
EpochInv ==
  /\ \A e \in claimed : e <= epoch
  /\ step = "claiming" => \A e \in claimed : e < epoch
  /\ \A e \in claimed : \E i \in 1..ValidEnd(durable.body) : e <= durable.body[i].record.epoch

-----------------------------------------------------------------------------
(* Numbers and sizes.                                                       *)

LEMMA LeastNatural ==
  ASSUME NEW S \in SUBSET Nat, S # {}
  PROVE  \E n \in S : \A m \in S : n <= m
<1> DEFINE R == OpToRel(<, Nat)
<1>1. IsWellFoundedOn(R, Nat)
  BY NatLessThanWellFounded
<1>2. PICK n \in S : \A m \in S : <<m, n>> \notin R
  BY <1>1, WFMin
<1>3. \A m \in S : ~(m < n)
  BY <1>2 DEF OpToRel
<1> QED  BY <1>3

LEMMA GreatestIs ==
  ASSUME NEW S \in SUBSET Nat, S # {}, NEW top \in Nat, \A n \in S : n <= top
  PROVE  Greatest(S) \in S /\ \A n \in S : n <= Greatest(S)
<1> DEFINE gaps == {n \in Nat : top - n \in S}
<1>1. PICK x \in S : TRUE
  OBVIOUS
<1>2. top - x \in gaps
  <2>1. x \in Nat /\ x <= top
    OBVIOUS
  <2>2. top - x \in Nat /\ top - (top - x) = x
    BY <2>1
  <2> QED  BY <1>1, <2>2
<1>3. PICK n \in gaps : \A m \in gaps : n <= m
  <2>1. gaps \in SUBSET Nat /\ gaps # {}
    BY <1>2
  <2> HIDE DEF gaps
  <2> QED  BY <2>1, LeastNatural
<1>4. \A y \in S : y <= top - n
  <2> TAKE y \in S
  <2>1. y \in Nat /\ y <= top
    OBVIOUS
  <2>2. top - y \in Nat /\ top - (top - y) = y
    BY <2>1
  <2>3. top - y \in gaps
    BY <2>2
  <2>4. n <= top - y /\ n \in Nat
    BY <1>3, <2>3
  <2> QED  BY <2>1, <2>4
<1>5. top - n \in S
  BY <1>3
<1> HIDE DEF gaps
<1> QED  BY <1>4, <1>5 DEF Greatest

LEMMA Sizes ==
  /\ \A p \in Payloads : CellsOf(p) \in Nat \ {0}
  /\ Claim \notin Snapshots /\ Marker \notin Snapshots /\ Nothing \notin Snapshots
  /\ CellsOf(Claim) = 1 /\ CellsOf(Marker) = 1
  /\ MaxCells \in Nat /\ MaxEpoch \in Nat
<1>1. /\ Claim \notin Snapshots /\ Marker \notin Snapshots /\ Nothing \notin Snapshots
      /\ Size \in [Snapshots -> Nat \ {0}] /\ MaxCells \in Nat /\ MaxEpoch \in Nat
  BY JournalAssumption
<1>2. \A p \in Payloads : CellsOf(p) \in Nat \ {0}
  BY <1>1 DEF CellsOf
<1> QED  BY <1>1, <1>2 DEF CellsOf

LEMMA EnvelopeIs ==
  ASSUME NEW r \in Records
  PROVE  /\ CellsOf(r.payload) \in Nat \ {0} /\ Envelope(r) \in Seq(Cells)
         /\ Len(Envelope(r)) = CellsOf(r.payload)
         /\ \A q \in 1..CellsOf(r.payload) : Envelope(r)[q] = Cell(r, q) /\ Cell(r, q) \in Cells
<1>1. CellsOf(r.payload) \in Nat \ {0}
  BY Sizes DEF Records
<1>2. \A q \in 1..CellsOf(r.payload) : Cell(r, q) \in Cells
  BY <1>1 DEF Cell, Cells
<1> QED  BY <1>1, <1>2 DEF Envelope

-----------------------------------------------------------------------------
(* What replay reads.                                                       *)

LEMMA ProvedIs ==
  ASSUME NEW body \in Seq(Cells), NEW i \in 1..Len(body)
  PROVE  LET r == body[i].record
             c == CellsOf(r.payload)
         IN  /\ r \in Records /\ c \in Nat \ {0}
             /\ Proved(body, i) <=> /\ i + (c - 1) <= Len(body)
                                    /\ \A q \in 1..c : body[(i + q) - 1] = Cell(r, q)
<1> DEFINE r == body[i].record
           c == CellsOf(r.payload)
<1>1. body[i] \in Cells /\ Len(body) \in Nat /\ i \in Nat
  OBVIOUS
<1>2. r \in Records
  BY <1>1 DEF Cells
<1>3. /\ c \in Nat \ {0} /\ Envelope(r) \in Seq(Cells) /\ Len(Envelope(r)) = c
      /\ \A q \in 1..c : Envelope(r)[q] = Cell(r, q)
  BY <1>2, EnvelopeIs
<1>4. Proved(body, i) <=> /\ body[i].part = 1 /\ i + (c - 1) <= Len(body)
                          /\ SubSeq(body, i, i + (c - 1)) = Envelope(r)
  BY <1>1 DEF Proved
<1> HIDE DEF r, c
<1>5. ASSUME i + (c - 1) <= Len(body)
      PROVE  /\ SubSeq(body, i, i + (c - 1)) \in Seq(Cells)
             /\ Len(SubSeq(body, i, i + (c - 1))) = c
             /\ \A q \in 1..c : SubSeq(body, i, i + (c - 1))[q] = body[(i + q) - 1]
  <2>1. i + (c - 1) \in 1..Len(body) /\ (i + (c - 1)) - i + 1 = c
    BY <1>1, <1>3, <1>5
  <2>2. \A q \in 1..c : (i + q) - 1 \in 1..Len(body)
    BY <1>1, <1>3, <1>5
  <2> QED  BY <1>1, <1>3, <2>1, <2>2
<1>6. ASSUME Proved(body, i)
      PROVE  i + (c - 1) <= Len(body) /\ \A q \in 1..c : body[(i + q) - 1] = Cell(r, q)
  BY <1>3, <1>4, <1>5, <1>6
<1>7. ASSUME i + (c - 1) <= Len(body), \A q \in 1..c : body[(i + q) - 1] = Cell(r, q)
      PROVE  Proved(body, i)
  <2>1. body[i].part = 1
    <3>1. 1 \in 1..c /\ (i + 1) - 1 = i
      BY <1>1, <1>3
    <3>2. body[(i + 1) - 1] = Cell(r, 1)
      BY <1>7, <3>1
    <3>3. body[i] = Cell(r, 1)
      BY <3>1, <3>2
    <3> QED  BY <3>3 DEF Cell
  <2>2. SubSeq(body, i, i + (c - 1)) = Envelope(r)
    BY <1>3, <1>5, <1>7
  <2> QED  BY <1>4, <1>7, <2>1, <2>2
<1> QED  BY <1>2, <1>3, <1>6, <1>7 DEF r, c

(* The record that cell j is in.                                            *)
LEMMA RecordAround ==
  ASSUME NEW body \in Seq(Cells), NEW j \in 1..Len(body), Continues(body, j)
  PROVE  \E i \in 1..j :
           LET r == body[i].record
               c == CellsOf(r.payload)
           IN  /\ r \in Records /\ c \in Nat \ {0} /\ j < i + c /\ i + (c - 1) <= Len(body)
               /\ \A q \in 1..c : body[(i + q) - 1] = Cell(r, q)
               /\ body[j] = Cell(r, (j - i) + 1) /\ Proved(body, i)
               /\ i > 1 => body[i - 1].record.seq < r.seq
<1>1. PICK i \in 1..j :
        /\ j < i + CellsOf(body[i].record.payload) /\ Proved(body, i)
        /\ i > 1 => body[i - 1].record.seq < body[i].record.seq
  BY DEF Continues
<1>2. PICK r, c : r = body[i].record /\ c = CellsOf(r.payload)
  OBVIOUS
<1>3. i \in 1..Len(body) /\ i \in Nat /\ j \in Nat /\ i <= j
  OBVIOUS
<1>4. /\ r \in Records /\ c \in Nat \ {0} /\ i + (c - 1) <= Len(body)
      /\ \A q \in 1..c : body[(i + q) - 1] = Cell(r, q)
  BY <1>1, <1>2, <1>3, ProvedIs
<1>5. body[j] = Cell(r, (j - i) + 1)
  <2>1. (j - i) + 1 \in 1..c /\ (i + ((j - i) + 1)) - 1 = j
    BY <1>1, <1>2, <1>3, <1>4
  <2> QED  BY <1>4, <2>1
<1> QED  BY <1>1, <1>2, <1>4, <1>5

(* Replay goes on to the end of a record, or not beyond its beginning.      *)
LEMMA RecordGoesOn ==
  ASSUME NEW body \in Seq(Cells), NEW i \in 1..Len(body), Proved(body, i),
         i > 1 => body[i - 1].record.seq < body[i].record.seq
  PROVE  \A j \in i..(i + (CellsOf(body[i].record.payload) - 1)) : Continues(body, j)
<1>1. PICK c : c = CellsOf(body[i].record.payload)
  OBVIOUS
<1>2. c \in Nat \ {0} /\ i \in Nat
  BY <1>1, ProvedIs
<1>3. \A j \in i..(i + (c - 1)) : i \in 1..j /\ j < i + c
  BY <1>2
<1> QED  BY <1>1, <1>3 DEF Continues

(* valid_end is the end of the longest prefix that replay goes through.     *)
LEMMA ValidEndIs ==
  ASSUME NEW body \in Seq(Cells)
  PROVE  /\ ValidEnd(body) \in 0..Len(body)
         /\ \A j \in 1..ValidEnd(body) : Continues(body, j)
         /\ ValidEnd(body) < Len(body) => ~Continues(body, ValidEnd(body) + 1)
<1> DEFINE L == Len(body)
           Is(n) == (\A j \in 1..n : Continues(body, j)) /\ (n < L => ~Continues(body, n + 1))
           stops == {n \in 0..L : n < L => ~Continues(body, n + 1)}
<1>1. L \in Nat
  OBVIOUS
<1>2. L \in stops
  BY <1>1
<1>3. PICK n \in stops : \A m \in stops : n <= m
  <2>1. stops \in SUBSET Nat /\ stops # {}
    BY <1>2
  <2> HIDE DEF stops
  <2> QED  BY <2>1, LeastNatural
<1>4. \A j \in 1..n : Continues(body, j)
  <2> SUFFICES ASSUME NEW j \in 1..n, ~Continues(body, j) PROVE FALSE
    OBVIOUS
  <2>1. n \in 0..L
    BY <1>3
  <2>2. j - 1 \in 0..L /\ (j - 1) + 1 = j /\ ~(n <= j - 1)
    BY <1>1, <2>1
  <2>3. j - 1 \in stops
    BY <2>2
  <2> QED  BY <1>3, <2>2, <2>3
<1>5. n \in 0..L /\ Is(n)
  BY <1>3, <1>4
<1> HIDE DEF L
<1>6. \E m \in 0..L : Is(m)
  BY <1>5
<1>7. ValidEnd(body) = CHOOSE m \in 0..L : Is(m)
  BY DEF ValidEnd, L
<1>8. (CHOOSE m \in 0..L : Is(m)) \in 0..L /\ Is(CHOOSE m \in 0..L : Is(m))
  <2> HIDE DEF Is
  <2> QED  BY <1>6
<1> QED  BY <1>7, <1>8 DEF L

LEMMA ValidEndReaches ==
  ASSUME NEW body \in Seq(Cells), NEW n \in 0..Len(body), \A j \in 1..n : Continues(body, j)
  PROVE  n <= ValidEnd(body)
<1> SUFFICES ASSUME ValidEnd(body) < n PROVE FALSE
  BY ValidEndIs
<1>1. PICK v \in 0..Len(body) : v = ValidEnd(body) /\ ~Continues(body, v + 1) /\ v < n
  BY ValidEndIs
<1>2. v + 1 \in 1..n
  BY <1>1
<1> QED  BY <1>1, <1>2

(* The record around a cell that was replayed was replayed to its end.      *)
LEMMA RecordReplayed ==
  ASSUME NEW body \in Seq(Cells), NEW i \in 1..ValidEnd(body), Proved(body, i),
         i > 1 => body[i - 1].record.seq < body[i].record.seq
  PROVE  i + (CellsOf(body[i].record.payload) - 1) <= ValidEnd(body)
<1>1. PICK c, v, L : c = CellsOf(body[i].record.payload) /\ v = ValidEnd(body) /\ L = Len(body)
  OBVIOUS
<1>2. v \in 0..L /\ L \in Nat /\ (v < L => ~Continues(body, v + 1))
  BY <1>1, ValidEndIs
<1>3. i \in 1..L /\ c \in Nat \ {0} /\ i + (c - 1) <= L
  <2>1. i \in 1..L
    BY <1>1, <1>2
  <2> QED  BY <1>1, <2>1, ProvedIs
<1>4. \A j \in i..(i + (c - 1)) : Continues(body, j)
  BY <1>1, <1>3, RecordGoesOn
<1> SUFFICES ASSUME v < i + (c - 1) PROVE FALSE
  BY <1>1, <1>2, <1>3
<1>5. v + 1 \in i..(i + (c - 1)) /\ v < L
  BY <1>1, <1>2, <1>3
<1> QED  BY <1>2, <1>4, <1>5

(* What replay goes through stays so in a file that begins the same way.    *)
LEMMA PrefixStays ==
  ASSUME NEW a \in Seq(Cells), NEW b \in Seq(Cells), ValidEnd(a) <= Len(b),
         \A i \in 1..ValidEnd(a) : b[i] = a[i]
  PROVE  ValidEnd(a) <= ValidEnd(b)
<1>1. PICK v \in 0..Len(a) : v = ValidEnd(a) /\ \A j \in 1..v : Continues(a, j)
  BY ValidEndIs
<1>2. v <= Len(b) /\ Len(a) \in Nat /\ Len(b) \in Nat
  BY <1>1
<1>3. ASSUME NEW j \in 1..v PROVE Continues(b, j)
  <2>1. j \in 1..Len(a) /\ Continues(a, j) /\ j \in Nat
    BY <1>1, <1>2
  <2>2. PICK i \in 1..j :
          LET r == a[i].record
              c == CellsOf(r.payload)
          IN  /\ r \in Records /\ c \in Nat \ {0} /\ j < i + c /\ i + (c - 1) <= Len(a)
              /\ \A q \in 1..c : a[(i + q) - 1] = Cell(r, q)
              /\ a[j] = Cell(r, (j - i) + 1) /\ Proved(a, i)
              /\ i > 1 => a[i - 1].record.seq < r.seq
    BY <2>1, RecordAround
  <2>3. PICK r, c :
           /\ r = a[i].record /\ c = CellsOf(r.payload) /\ c \in Nat \ {0} /\ j < i + c
           /\ \A q \in 1..c : a[(i + q) - 1] = Cell(r, q)
           /\ Proved(a, i)
           /\ i > 1 => a[i - 1].record.seq < r.seq
    BY <2>2
  <2>4. i \in Nat /\ 1 <= i /\ i <= v
    BY <2>1, <1>1
  <2>5. i + (c - 1) <= v
    BY <1>1, <2>3, <2>4, RecordReplayed
  <2>a. v \in Nat /\ c \in Nat \ {0} /\ i \in Nat /\ 1 <= i /\ i <= v /\ i + (c - 1) <= v
    BY <1>1, <2>3, <2>4, <2>5
  <2>6. \A q \in 1..c : b[(i + q) - 1] = Cell(r, q)
    <3> TAKE q \in 1..c
    <3>1. (i + q) - 1 \in 1..v
      BY <2>a
    <3>2. b[(i + q) - 1] = a[(i + q) - 1]
      BY <1>1, <3>1
    <3>3. a[(i + q) - 1] = Cell(r, q)
      BY <2>3
    <3> QED  BY <3>2, <3>3
  <2>7. b[i] = a[i] /\ (i > 1 => b[i - 1] = a[i - 1])
    <3>1. i \in 1..v /\ (i > 1 => i - 1 \in 1..v)
      BY <2>a
    <3> QED  BY <1>1, <3>1
  <2>8. i \in 1..Len(b) /\ i + (c - 1) <= Len(b)
    BY <1>2, <2>a
  <2>9. Proved(b, i)
    BY <2>3, <2>6, <2>7, <2>8, ProvedIs
  <2> QED  BY <2>3, <2>7, <2>9 DEF Continues
<1> QED  BY <1>1, <1>2, <1>3, ValidEndReaches

(* Two files that replay to the same cells replay to the same state.        *)
LEMMA SameReplay ==
  ASSUME NEW a \in Seq(Cells), NEW b \in Seq(Cells), ValidEnd(a) = ValidEnd(b),
         \A i \in 1..ValidEnd(a) : b[i] = a[i]
  PROVE  Newest(a) = Newest(b) /\ LastSequence(a) = LastSequence(b)
<1>1. PICK v \in 0..Len(a) : v = ValidEnd(a) /\ v = ValidEnd(b)
  BY ValidEndIs
<1>2. \A i \in 1..v : b[i] = a[i]
  BY <1>1
<1>3. LastSequence(a) = LastSequence(b)
  <2>1. v = 0 \/ v \in 1..v
    BY <1>1
  <2> QED  BY <1>1, <1>2, <2>1 DEF LastSequence
<1>4. PICK holding : /\ holding = {i \in 1..v : a[i].record.payload \in Snapshots}
                     /\ holding = {i \in 1..v : b[i].record.payload \in Snapshots}
  BY <1>2
<1>5. holding # {} => Greatest(holding) \in 1..v
  <2>1. v \in Nat /\ holding \in SUBSET Nat /\ \A i \in holding : i <= v
    BY <1>1, <1>4
  <2> QED  BY <1>4, <2>1, GreatestIs
<1>6. holding # {} => a[Greatest(holding)] = b[Greatest(holding)]
  BY <1>2, <1>5
<1>7. /\ Newest(a) = IF holding = {} THEN Nothing ELSE a[Greatest(holding)].record.payload
      /\ Newest(b) = IF holding = {} THEN Nothing ELSE b[Greatest(holding)].record.payload
  BY <1>1, <1>4 DEF Newest
<1> QED  BY <1>3, <1>6, <1>7

(* A file cut at its valid_end is whole, and replays to the same state.     *)
LEMMA Cut ==
  ASSUME NEW body \in Seq(Cells)
  PROVE  LET kept == SubSeq(body, 1, ValidEnd(body))
         IN  /\ kept \in Seq(Cells) /\ Len(kept) = ValidEnd(body) /\ Whole(kept)
             /\ \A i \in 1..Len(kept) : kept[i] = body[i]
             /\ Newest(kept) = Newest(body) /\ LastSequence(kept) = LastSequence(body)
<1>1. PICK v \in 0..Len(body) : v = ValidEnd(body)
  BY ValidEndIs
<1>2. PICK kept : kept = SubSeq(body, 1, v)
  OBVIOUS
<1>3. kept \in Seq(Cells) /\ Len(kept) = v /\ \A i \in 1..v : kept[i] = body[i]
  BY <1>1, <1>2
<1>4. v <= ValidEnd(kept) /\ ValidEnd(kept) \in 0..v
  BY <1>1, <1>3, PrefixStays, ValidEndIs
<1>5. ValidEnd(kept) = v
  BY <1>1, <1>4
<1>6. Newest(kept) = Newest(body) /\ LastSequence(kept) = LastSequence(body)
  BY <1>1, <1>3, <1>5, SameReplay
<1> QED  BY <1>1, <1>2, <1>3, <1>5, <1>6 DEF Whole

Holds(body, i) == body[i].record.payload \in Snapshots

LEMMA NewestIs ==
  ASSUME NEW body \in Seq(Cells)
  PROVE  \/ Newest(body) = Nothing /\ \A i \in 1..ValidEnd(body) : ~Holds(body, i)
         \/ \E i \in 1..ValidEnd(body) :
              /\ Holds(body, i) /\ Newest(body) = body[i].record.payload
              /\ \A j \in 1..ValidEnd(body) : Holds(body, j) => j <= i
<1>1. PICK v \in 0..Len(body) : v = ValidEnd(body)
  BY ValidEndIs
<1>2. PICK holding : holding = {i \in 1..v : Holds(body, i)}
  OBVIOUS
<1>3. Newest(body) =
        IF holding = {} THEN Nothing ELSE body[Greatest(holding)].record.payload
  BY <1>1, <1>2 DEF Newest, Holds
<1>4. CASE holding = {}
  <2>1. \A i \in 1..v : ~Holds(body, i)
    BY <1>2, <1>4
  <2> QED  BY <1>1, <1>3, <1>4, <2>1
<1>5. CASE holding # {}
  <2>1. v \in Nat /\ holding \in SUBSET Nat /\ \A i \in holding : i <= v
    BY <1>1, <1>2
  <2>2. Greatest(holding) \in holding /\ \A j \in holding : j <= Greatest(holding)
    BY <1>5, <2>1, GreatestIs
  <2>3. PICK i : i = Greatest(holding)
    OBVIOUS
  <2>4. i \in 1..v /\ Holds(body, i) /\ \A j \in 1..v : Holds(body, j) => j <= i
    BY <1>2, <2>2, <2>3
  <2> QED  BY <1>1, <1>3, <1>5, <2>3, <2>4
<1> QED  BY <1>4, <1>5

LEMMA NewestIsOne ==
  ASSUME NEW body \in Seq(Cells)
  PROVE  Newest(body) \in Snapshots \cup {Nothing}
BY NewestIs DEF Holds

(* What is added to a file decides, when there is a snapshot in it.         *)
LEMMA NewestGrows ==
  ASSUME NEW a \in Seq(Cells), NEW b \in Seq(Cells), ValidEnd(a) <= ValidEnd(b),
         \A i \in 1..ValidEnd(a) : b[i] = a[i]
  PROVE  LET added == (ValidEnd(a) + 1)..ValidEnd(b)
         IN  \/ Newest(b) = Newest(a) /\ \A i \in added : ~Holds(b, i)
             \/ \E i \in added : Holds(b, i) /\ Newest(b) = b[i].record.payload
<1>1. PICK v \in 0..Len(a), w \in 0..Len(b) : v = ValidEnd(a) /\ w = ValidEnd(b) /\ v <= w
  BY ValidEndIs
<1>2. \A i \in 1..v : b[i] = a[i]
  BY <1>1
<1>3. v \in Nat /\ w \in Nat
  BY <1>1
<1>4. \A i \in 1..v : Holds(a, i) <=> Holds(b, i)
  BY <1>2 DEF Holds
<1>5. CASE Newest(b) = Nothing /\ \A i \in 1..w : ~Holds(b, i)
  <2>1. \A i \in 1..v : ~Holds(a, i)
    BY <1>1, <1>3, <1>4, <1>5
  <2>2. Newest(a) = Nothing
    BY <1>1, <2>1, NewestIs
  <2>3. \A i \in (v + 1)..w : ~Holds(b, i)
    BY <1>3, <1>5
  <2> QED  BY <1>1, <1>5, <2>2, <2>3
<1>6. CASE \E i \in 1..w : /\ Holds(b, i) /\ Newest(b) = b[i].record.payload
                           /\ \A j \in 1..w : Holds(b, j) => j <= i
  <2>1. PICK i \in 1..w : /\ Holds(b, i) /\ Newest(b) = b[i].record.payload
                          /\ \A j \in 1..w : Holds(b, j) => j <= i
    BY <1>6
  <2>2. CASE i > v
    <3>1. i \in (v + 1)..w
      BY <1>3, <2>2
    <3> QED  BY <1>1, <2>1, <3>1
  <2>3. CASE i <= v
    <3>1. i \in 1..v /\ Holds(a, i)
      BY <1>3, <1>4, <2>1, <2>3
    <3>2. PICK k \in 1..v : /\ Holds(a, k) /\ Newest(a) = a[k].record.payload
                            /\ \A j \in 1..v : Holds(a, j) => j <= k
      BY <1>1, <3>1, NewestIs
    <3>3. k \in 1..w /\ Holds(b, k)
      BY <1>1, <1>3, <1>4, <3>2
    <3>4. i <= k /\ k <= i
      BY <2>1, <3>1, <3>2, <3>3
    <3>5. k = i
      BY <1>3, <3>4
    <3>6. Newest(a) = Newest(b)
      BY <1>2, <2>1, <3>2, <3>5
    <3>7. ASSUME NEW j \in (v + 1)..w PROVE ~Holds(b, j)
      <4>1. j \in 1..w /\ ~(j <= i)
        BY <1>3, <2>3
      <4> QED  BY <2>1, <4>1
    <3> QED  BY <1>1, <3>6, <3>7
  <2> QED  BY <1>3, <2>2, <2>3
<1> QED  BY <1>1, <1>5, <1>6, NewestIs

(* A file that is whole, and the first k cells of the next record.          *)
Extends(base, r, k, body) ==
  /\ Whole(base) /\ LastSequence(base) < r.seq
  /\ k \in 0..CellsOf(r.payload) /\ Len(body) = Len(base) + k
  /\ Begins(base, body) /\ \A q \in 1..k : body[Len(base) + q] = Cell(r, q)

LEMMA Grown ==
  ASSUME NEW base \in Seq(Cells), NEW body \in Seq(Cells), NEW r \in Records, NEW k,
         Extends(base, r, k, body)
  PROVE  IF k = CellsOf(r.payload)
         THEN /\ Whole(body) /\ LastSequence(body) = r.seq
              /\ Newest(body) = IF r.payload \in Snapshots THEN r.payload ELSE Newest(base)
         ELSE ValidEnd(body) = Len(base) /\ Newest(body) = Newest(base)
<1>1. PICK c, L : c = CellsOf(r.payload) /\ L = Len(base)
  OBVIOUS
<1>2. c \in Nat \ {0} /\ L \in Nat /\ k \in 0..c /\ Len(body) = L + k
  BY <1>1, EnvelopeIs DEF Extends
<1>3. ValidEnd(base) = L /\ (\A i \in 1..L : body[i] = base[i])
  BY <1>1 DEF Whole, Begins, Extends
<1>4. /\ \A q \in 1..k : body[L + q] = Cell(r, q)
      /\ LastSequence(base) < r.seq
  BY <1>1 DEF Extends
<1>5. L <= ValidEnd(body)
  BY <1>2, <1>3, PrefixStays
<1>6. PICK v \in 0..(L + k) : v = ValidEnd(body) /\ L <= v
  BY <1>2, <1>5, ValidEndIs
<1>7. k = c => v = L + c
  <2> SUFFICES ASSUME k = c PROVE v = L + c
    OBVIOUS
  <2>1. L + 1 \in 1..Len(body) /\ body[L + 1] = Cell(r, 1)
    BY <1>2, <1>4
  <2>2. body[L + 1].record = r
    BY <2>1 DEF Cell
  <2>3. (L + 1) + (c - 1) = Len(body)
    BY <1>2
  <2>4. \A q \in 1..c : body[((L + 1) + q) - 1] = Cell(r, q)
    <3> TAKE q \in 1..c
    <3>1. ((L + 1) + q) - 1 = L + q /\ q \in 1..k
      BY <1>2
    <3> QED  BY <1>4, <3>1
  <2>5. Proved(body, L + 1)
    <3>1. (L + 1) + (c - 1) <= Len(body)
      BY <1>2, <2>3
    <3>2. CellsOf(body[L + 1].record.payload) = c
      BY <1>1, <2>2
    <3> QED  BY <2>1, <2>2, <2>4, <3>1, <3>2, ProvedIs
  <2>6. L + 1 > 1 => body[(L + 1) - 1].record.seq < body[L + 1].record.seq
    <3> SUFFICES ASSUME L + 1 > 1 PROVE body[(L + 1) - 1].record.seq < r.seq
      BY <2>2
    <3>1. L # 0 /\ L \in 1..L /\ (L + 1) - 1 = L
      BY <1>2
    <3>2. LastSequence(base) = base[L].record.seq
      BY <1>3, <3>1 DEF LastSequence
    <3> QED  BY <1>3, <1>4, <3>1, <3>2
  <2>7. \A j \in (L + 1)..(L + c) : Continues(body, j)
    BY <1>1, <1>2, <2>1, <2>2, <2>3, <2>5, <2>6, RecordGoesOn
  <2>8. \A j \in 1..L : Continues(body, j)
    BY <1>2, <1>6, ValidEndIs
  <2>9. \A j \in 1..(L + c) : Continues(body, j)
    <3> TAKE j \in 1..(L + c)
    <3>1. j \in 1..L \/ j \in (L + 1)..(L + c)
      BY <1>2
    <3> QED  BY <2>7, <2>8, <3>1
  <2>10. L + c \in 0..Len(body)
    BY <1>2
  <2>11. L + c <= ValidEnd(body)
    BY <2>9, <2>10, ValidEndReaches
  <2>12. v \in Nat /\ v <= L + c
    BY <1>2, <1>6
  <2> QED  BY <1>2, <1>6, <2>11, <2>12
<1>8. k # c => v = L
  <2> SUFFICES ASSUME k < c, L < v PROVE FALSE
    BY <1>2, <1>6
  <2>1. L + 1 \in 1..Len(body) /\ L + 1 \in 1..v /\ 1 \in 1..k
    BY <1>2, <1>6
  <2>2. Continues(body, L + 1) /\ body[L + 1] = Cell(r, 1)
    BY <1>4, <1>6, <2>1, ValidEndIs
  <2>3. PICK i \in 1..(L + 1) :
          LET s == body[i].record
              d == CellsOf(s.payload)
          IN  /\ s \in Records /\ d \in Nat \ {0} /\ L + 1 < i + d /\ i + (d - 1) <= Len(body)
              /\ \A q \in 1..d : body[(i + q) - 1] = Cell(s, q)
              /\ body[L + 1] = Cell(s, ((L + 1) - i) + 1) /\ Proved(body, i)
              /\ i > 1 => body[i - 1].record.seq < s.seq
    BY <2>1, <2>2, RecordAround
  <2>4. PICK d : d = CellsOf(body[i].record.payload)
    OBVIOUS
  <2>5. ((L + 1) - i) + 1 = 1
    BY <2>2, <2>3 DEF Cell
  <2>6. i = L + 1
    BY <1>2, <2>5
  <2>7. d = c
    BY <1>1, <2>2, <2>4, <2>6 DEF Cell
  <2>8. i + (c - 1) <= L + k
    BY <1>2, <2>3, <2>4, <2>7
  <2> QED  BY <1>2, <2>6, <2>8
<1>9. \/ Newest(body) = Newest(base) /\ \A i \in (L + 1)..v : ~Holds(body, i)
      \/ \E i \in (L + 1)..v : Holds(body, i) /\ Newest(body) = body[i].record.payload
  BY <1>3, <1>5, <1>6, NewestGrows
<1>10. \A i \in (L + 1)..v : i - L \in 1..k /\ body[i].record = r
  <2> TAKE i \in (L + 1)..v
  <2>1. i - L \in 1..k /\ L + (i - L) = i
    BY <1>2, <1>6
  <2>2. body[i] = Cell(r, i - L)
    BY <1>4, <2>1
  <2> QED  BY <2>1, <2>2 DEF Cell
<1>11. CASE k = c
  <2>1. L + c \in (L + 1)..v /\ v # 0 /\ v = Len(body) /\ v = L + c
    BY <1>2, <1>7, <1>11
  <2>2. body[v].record = r
    BY <1>10, <2>1
  <2>3. Whole(body) /\ LastSequence(body) = r.seq
    BY <1>6, <2>1, <2>2 DEF Whole, LastSequence
  <2>4. Newest(body) = IF r.payload \in Snapshots THEN r.payload ELSE Newest(base)
    BY <1>9, <1>10, <2>1 DEF Holds
  <2> QED  BY <1>1, <1>11, <2>3, <2>4
<1>12. CASE k # c
  <2>1. (L + 1)..v = {}
    BY <1>2, <1>8, <1>12
  <2>2. Newest(body) = Newest(base)
    BY <1>9, <2>1
  <2> QED  BY <1>1, <1>6, <1>8, <1>12, <2>2
<1> QED  BY <1>11, <1>12

-----------------------------------------------------------------------------
(* The invariant is inductive.                                              *)

LEMMA EmptyReplay ==
  /\ <<>> \in Seq(Cells) /\ ValidEnd(<<>>) = 0 /\ Whole(<<>>)
  /\ Newest(<<>>) = Nothing /\ LastSequence(<<>>) = 0
<1>1. PICK b : b = <<>>
  OBVIOUS
<1>2. b \in Seq(Cells) /\ Len(b) = 0
  BY <1>1
<1>3. ValidEnd(b) \in 0..0
  BY <1>2, ValidEndIs
<1>4. ValidEnd(b) = 0 /\ 1..ValidEnd(b) = {}
  BY <1>3
<1>5. Newest(b) = Nothing
  BY <1>2, <1>4, NewestIs
<1> QED  BY <1>1, <1>2, <1>4, <1>5 DEF Whole, LastSequence

LEMMA Bodies ==
  ASSUME Typed
  PROVE  /\ file \in Files /\ durable \in Files
         /\ file.body \in Seq(Cells) /\ durable.body \in Seq(Cells) /\ temp \in Seq(Cells)
         /\ Len(file.body) \in Nat /\ Len(durable.body) \in Nat /\ Len(temp) \in Nat
         /\ epoch \in Nat /\ end \in Nat /\ lastSeq \in Nat
<1>1. file \in Files /\ durable \in Files /\ temp \in Seq(Cells)
  BY DEF Typed, TypeOK
<1>2. file.body \in Seq(Cells) /\ durable.body \in Seq(Cells)
  BY <1>1 DEF Files
<1> QED  BY <1>1, <1>2 DEF Typed, TypeOK

LEMMA RecordIsNoTuple ==
  \A w \in [record : Records, cells : Nat] : w # <<>>
<1>1. DOMAIN <<>> = {}
  OBVIOUS
<1>2. \A w \in [record : Records, cells : Nat] : "cells" \in DOMAIN w
  OBVIOUS
<1> QED  BY <1>1, <1>2

LEMMA WritingIs ==
  ASSUME Typed, Writing
  PROVE  /\ writing \in [record : Records, cells : Nat] /\ writing.record \in Records
         /\ writing.cells \in Nat /\ writing # <<>>
BY DEF Typed, TypeOK

LEMMA Starts ==
  ASSUME Init
  PROVE  JournalInv
<1>1. /\ file = [header |-> "none", body |-> <<>>] /\ durable = file /\ temp = <<>>
      /\ step = "down" /\ writing = <<>> /\ ~Writing
  BY DEF Init, Empty, Writing
<1>2. <<>> \in Seq(Cells) /\ Len(<<>>) = 0 /\ Whole(<<>>)
  BY EmptyReplay
<1>3. TypeOK
  <2>1. file \in Files
    BY <1>1, <1>2 DEF Files
  <2> QED  BY <1>1, <1>2, <2>1 DEF Init, TypeOK, Steps
<1>4. Typed
  <2>1. 0 <= MaxEpoch
    BY Sizes
  <2> QED  BY <1>1, <1>2, <1>3, <2>1 DEF Typed, Init
<1>5. OnDisk
  <2>1. Begins(durable.body, file.body)
    BY <1>1 DEF Begins
  <2>2. UnsavedCells = {}
    BY <1>1, EmptyReplay DEF UnsavedCells
  <2> QED  BY <1>1, <1>2, <2>1, <2>2 DEF OnDisk
<1> QED  BY <1>1, <1>4, <1>5 DEF JournalInv, Appending, ActsOnDurableState, Known, Compacting

(* Steps that write to no file.                                             *)
LEMMA CreateKeeps ==
  ASSUME JournalInv, Create
  PROVE  JournalInv'
<1> USE DEF JournalInv, Create
<1>1. /\ file' = [header |-> "valid", body |-> file.body] /\ file'.body = file.body
      /\ file' \in Files /\ file'.header = "valid"
  BY Bodies DEF Files
<1>2. Typed'
  <2>1. ~Writing /\ ~Writing' /\ step' \in Steps /\ step' \notin {"compacting", "replacing"}
    BY DEF Writing, Steps
  <2>2. TypeOK'
    BY <1>1, <2>1 DEF Typed, TypeOK, writerVars
  <2> QED  BY <1>1, <2>1, <2>2 DEF Typed
<1>3. OnDisk'
  <2>1. Whole(durable.body)
    <3>1. CASE Whole(durable.body)
      BY <3>1
    <3>2. CASE durable = file
      BY <3>2, EmptyReplay DEF OnDisk
    <3> QED  BY <3>1, <3>2 DEF OnDisk
  <2> QED  BY <1>1, <2>1 DEF OnDisk, UnsavedCells
<1> QED  BY <1>2, <1>3 DEF Appending, Writing, ActsOnDurableState, Known, Compacting

LEMMA StepsAside ==
  ASSUME JournalInv, UNCHANGED <<fileVars, epoch, memory, told, claimed, writerVars>>,
         Crash \/ Exit \/ AppendFails
  PROVE  JournalInv'
<1> USE DEF JournalInv, fileVars, writerVars, vars
<1>1. /\ step # "down" /\ step' \in {"down", "running"}
      /\ step' = "running" => failed' = TRUE
      /\ writing' = <<>> /\ failed' \in BOOLEAN
  BY DEF Typed, TypeOK, Writing, Crash, Exit, AppendFails, Abandoned
<1>2. Typed'
  <2>1. ~Writing' /\ step' \in Steps /\ step' \notin {"compacting", "replacing"}
    BY <1>1 DEF Writing, Steps
  <2>2. TypeOK'
    BY <1>1, <2>1 DEF Typed, TypeOK
  <2>3. step' = "running" => step \notin {"down", "creating"}
    BY DEF Crash, Exit, AppendFails, Writing
  <2> QED  BY <1>1, <2>1, <2>2, <2>3 DEF Typed
<1>3. OnDisk'
  BY <1>1 DEF OnDisk, UnsavedCells
<1>4. Known'
  BY <1>1 DEF Known, AppendFails, Crash, Exit, Writing
<1> QED  BY <1>1, <1>2, <1>3, <1>4 DEF Appending, Writing, ActsOnDurableState, Compacting

LEMMA PersistKeeps ==
  ASSUME JournalInv, NEW s \in Snapshots, Persist(s)
  PROVE  JournalInv'
<1> USE DEF JournalInv, Persist, fileVars, writerVars
<1>1. /\ step = "running" /\ ~Writing /\ writing = <<>> /\ memory' = s /\ epoch >= 1
      /\ UNCHANGED <<file, durable, temp, epoch, end, lastSeq>>
  BY DEF Typed, TypeOK, Writing
<1>2. /\ s \in Payloads /\ s # Nothing /\ CellsOf(s) \in Nat \ {0}
      /\ lastSeq \in Nat /\ epoch \in Nat /\ end \in Nat
  BY Sizes, Bodies DEF Payloads
<1>3. OnDisk'
  BY <1>1 DEF OnDisk, UnsavedCells
<1>4. Known' /\ Compacting'
  BY <1>1, <1>2 DEF Known, Compacting
<1>5. CASE ~failed /\ Fits(s)
  <2>1. /\ writing' = [record |-> Record(s, lastSeq + 1, epoch), cells |-> 0]
        /\ step' = "appending" /\ ~failed' /\ Writing' /\ failed' \in BOOLEAN
    BY <1>5 DEF BeginAppend, Writing, Typed, TypeOK
  <2>2. Record(s, lastSeq + 1, epoch) \in Records
    BY <1>2 DEF Record, Records
  <2>3. writing' \in [record : Records, cells : Nat] /\ writing' # <<>>
    BY <2>1, <2>2, RecordIsNoTuple
  <2>4. Typed'
    <3>1. TypeOK'
      BY <1>1, <1>2, <2>1, <2>3 DEF Typed, TypeOK, Steps
    <3> QED  BY <1>1, <2>1, <3>1 DEF Typed
  <2>5. durable = file /\ end = Len(file.body) /\ Whole(file.body)
        /\ lastSeq = LastSequence(file.body)
    BY <1>1, <1>5 DEF ActsOnDurableState, Whole
  <2>6. Base = file.body /\ Base' = file.body
    <3>1. SubSeq(file.body, 1, Len(file.body)) = file.body
      BY Bodies
    <3> QED  BY <1>1, <2>5, <3>1 DEF Base
  <2>7. Appending'
    <3>1. /\ writing'.cells = 0 /\ writing'.record = Record(s, lastSeq + 1, epoch)
          /\ writing'.record.payload = s
      BY <2>1 DEF Record
    <3>2. end + 0 = end
      BY <1>2
    <3>3. 1..0 = {}
      OBVIOUS
    <3>4. 0 <= CellsOf(s)
      BY <1>2
    <3>5. durable.body = file.body /\ Len(durable.body) <= end
      BY <1>2, <2>5
    <3> QED  BY <1>1, <2>1, <2>5, <2>6, <3>1, <3>2, <3>3, <3>4, <3>5 DEF Appending
  <2> QED  BY <1>3, <1>4, <2>1, <2>4, <2>7 DEF ActsOnDurableState
<1>6. CASE ~(~failed /\ Fits(s))
  <2>1. step' = "running" /\ writing' = <<>> /\ failed' = TRUE /\ ~Writing'
    BY <1>1, <1>6 DEF Writing
  <2>2. Typed'
    <3>1. TypeOK'
      BY <1>1, <2>1 DEF Typed, TypeOK, Steps
    <3> QED  BY <1>1, <2>1, <3>1 DEF Typed
  <2> QED  BY <1>3, <1>4, <2>1, <2>2 DEF ActsOnDurableState, Appending
<1> QED  BY <1>5, <1>6

LEMMA CompactKeeps ==
  ASSUME JournalInv, Compact
  PROVE  JournalInv'
<1> USE DEF JournalInv, Compact, writerVars
<1>1. /\ step = "running" /\ step' = "compacting" /\ temp' = <<>> /\ ~Writing /\ ~Writing'
      /\ UNCHANGED <<file, durable, memory, epoch, failed, writing>>
  BY DEF Writing
<1>2. Typed'
  <2>1. TypeOK'
    BY <1>1, EmptyReplay DEF Typed, TypeOK, Steps
  <2> QED  BY <1>1, <2>1 DEF Typed
<1>3. OnDisk'
  BY <1>1 DEF OnDisk, UnsavedCells
<1>4. Known'
  BY <1>1 DEF Known
<1>5. Compacting'
  <2>1. Len(Compacted') \in Nat
    BY DEF Compacted
  <2>2. 0 \in 0..Len(Compacted')
    BY <2>1
  <2> QED  BY <1>1, <2>2, EmptyReplay DEF Compacting
<1> QED  BY <1>1, <1>2, <1>3, <1>4, <1>5 DEF Appending, ActsOnDurableState

LEMMA CompactReadyKeeps ==
  ASSUME JournalInv, CompactReady
  PROVE  JournalInv'
<1> USE DEF JournalInv, CompactReady, writerVars, fileVars
<1>1. /\ step = "compacting" /\ step' = "replacing" /\ ~Writing /\ ~Writing'
      /\ UNCHANGED <<file, durable, temp, memory, epoch, failed, writing>>
  BY DEF Writing
<1>2. Typed'
  <2>1. TypeOK'
    BY <1>1 DEF Typed, TypeOK, Steps
  <2> QED  BY <1>1, <2>1 DEF Typed
<1>3. OnDisk'
  BY <1>1 DEF OnDisk, UnsavedCells
<1>4. Known' /\ Compacting'
  BY <1>1 DEF Known, Compacting, Compacted
<1> QED  BY <1>1, <1>2, <1>3, <1>4 DEF Appending, ActsOnDurableState

(* What an append has put behind the end of the journal.                    *)
LEMMA Appended ==
  ASSUME JournalInv, Writing
  PROVE  LET r == writing.record
             c == CellsOf(r.payload)
         IN  /\ r \in Records /\ r.epoch = epoch /\ c \in Nat \ {0} /\ writing.cells \in 0..c
             /\ Base \in Seq(Cells) /\ Len(Base) = end /\ Whole(Base)
             /\ LastSequence(Base) < r.seq
             /\ \A i \in 1..end : Base[i] = file.body[i]
             /\ Len(file.body) = end + writing.cells
             /\ IF writing.cells = c
                THEN /\ Whole(file.body) /\ LastSequence(file.body) = r.seq
                     /\ Newest(file.body) =
                          IF r.payload \in Snapshots THEN r.payload ELSE Newest(Base)
                ELSE ValidEnd(file.body) = end /\ Newest(file.body) = Newest(Base)
<1> USE DEF JournalInv
<1>1. PICK r, k, c : r = writing.record /\ k = writing.cells /\ c = CellsOf(r.payload)
  OBVIOUS
<1>2. r \in Records /\ k \in Nat /\ end \in Nat /\ file.body \in Seq(Cells) /\ lastSeq \in Nat
  BY <1>1, WritingIs, Bodies
<1>3. c \in Nat \ {0}
  BY <1>1, <1>2, EnvelopeIs
<1>4. /\ k <= c /\ Len(file.body) = end + k /\ \A q \in 1..k : file.body[end + q] = Cell(r, q)
      /\ Whole(Base) /\ lastSeq = LastSequence(Base)
      /\ r = Record(IF step = "claiming" THEN Claim ELSE memory, LastSequence(Base) + 1, epoch)
  BY <1>1 DEF Appending
<1>5. r.seq = lastSeq + 1 /\ r.epoch = epoch
  BY <1>4 DEF Record
<1>6. PICK b : b = Base
  OBVIOUS
<1>7. /\ b \in Seq(Cells) /\ Len(b) = end /\ \A i \in 1..end : b[i] = file.body[i]
  BY <1>2, <1>4, <1>6 DEF Base
<1>8. LastSequence(b) < r.seq
  BY <1>2, <1>4, <1>5, <1>6
<1>9. Begins(b, file.body) /\ k \in 0..c
  BY <1>2, <1>3, <1>4, <1>7 DEF Begins
<1>10. IF k = c
       THEN /\ Whole(file.body) /\ LastSequence(file.body) = r.seq
            /\ Newest(file.body) = IF r.payload \in Snapshots THEN r.payload ELSE Newest(b)
       ELSE ValidEnd(file.body) = end /\ Newest(file.body) = Newest(b)
  <2>1. /\ Len(file.body) = Len(b) + k /\ k \in 0..CellsOf(r.payload)
        /\ \A q \in 1..k : file.body[Len(b) + q] = Cell(r, q)
    BY <1>1, <1>4, <1>7, <1>9
  <2>2. Whole(b)
    BY <1>4, <1>6
  <2>3. IF k = CellsOf(r.payload)
        THEN /\ Whole(file.body) /\ LastSequence(file.body) = r.seq
             /\ Newest(file.body) = IF r.payload \in Snapshots THEN r.payload ELSE Newest(b)
        ELSE ValidEnd(file.body) = Len(b) /\ Newest(file.body) = Newest(b)
    <3>1. Extends(b, r, k, file.body)
      BY <1>8, <1>9, <2>1, <2>2 DEF Extends
    <3> QED  BY <1>2, <1>7, <3>1, Grown
  <2> QED  BY <1>1, <1>7, <2>3
<1> QED  BY <1>1, <1>2, <1>3, <1>4, <1>5, <1>6, <1>7, <1>8, <1>9, <1>10

LEMMA OneCellMore ==
  ASSUME NEW body \in Seq(Cells), NEW cell \in Cells
  PROVE  LET longer == WriteAt(body, Len(body), <<cell>>)
         IN  /\ longer \in Seq(Cells) /\ Len(longer) = Len(body) + 1
             /\ \A i \in 1..Len(body) : longer[i] = body[i]
             /\ longer[Len(body) + 1] = cell
<1>1. PICK n \in Nat : n = Len(body)
  OBVIOUS
<1>2. n + Len(<<cell>>) = n + 1 /\ n + 1 > n
  BY <1>1
<1>3. WriteAt(body, n, <<cell>>) =
        [i \in 1..(n + 1) |-> IF i > n /\ i <= n + 1 THEN <<cell>>[i - n] ELSE body[i]]
  BY <1>1, <1>2 DEF WriteAt
<1>4. \A i \in 1..(n + 1) :
        (IF i > n /\ i <= n + 1 THEN <<cell>>[i - n] ELSE body[i]) \in Cells
  <2> TAKE i \in 1..(n + 1)
  <2>1. CASE i > n
    <3>1. i = n + 1 /\ i - n = 1
      BY <1>1, <2>1
    <3> QED  BY <1>1, <3>1
  <2>2. CASE i <= n
    BY <1>1, <2>2
  <2> QED  BY <1>1, <2>1, <2>2
<1>5. WriteAt(body, n, <<cell>>)[n + 1] = cell
  <2>1. n + 1 \in 1..(n + 1) /\ n + 1 > n /\ (n + 1) - n = 1
    BY <1>1
  <2> QED  BY <1>3, <2>1
<1>6. \A i \in 1..n : WriteAt(body, n, <<cell>>)[i] = body[i]
  BY <1>1, <1>3
<1>7. WriteAt(body, n, <<cell>>) \in Seq(Cells) /\ Len(WriteAt(body, n, <<cell>>)) = n + 1
  BY <1>1, <1>3, <1>4
<1> QED  BY <1>1, <1>5, <1>6, <1>7

LEMMA AppendCellKeeps ==
  ASSUME JournalInv, AppendCell
  PROVE  /\ JournalInv' /\ Base' = Base
         /\ step = "claiming" => Newest(file'.body) = Newest(file.body)
         /\ step = "appending" => Newest(file'.body) \in {Newest(Base), memory}
<1> USE DEF JournalInv
<1>1. PICK r, k, c : r = writing.record /\ k = writing.cells /\ c = CellsOf(r.payload)
  OBVIOUS
<1>2. PICK f, b : f = file'.body /\ b = file.body
  OBVIOUS
<1>3. /\ Writing /\ k # c /\ step' = step /\ Writing'
      /\ writing' = [writing EXCEPT !.cells = k + 1]
      /\ file' = [file EXCEPT !.body = WriteAt(b, end + k, <<Cell(r, k + 1)>>)]
      /\ UNCHANGED <<durable, temp, step, end, lastSeq, since, epoch, memory, failed, told, claimed>>
  BY <1>1, <1>2 DEF AppendCell, Writing, Written, writerVars
<1>4. /\ r \in Records /\ r.epoch = epoch /\ c \in Nat \ {0} /\ k \in 0..c
      /\ Base \in Seq(Cells) /\ Len(Base) = end /\ Whole(Base)
      /\ LastSequence(Base) < r.seq
      /\ \A i \in 1..end : Base[i] = b[i]
      /\ Len(b) = end + k /\ ValidEnd(b) = end /\ Newest(b) = Newest(Base)
  BY <1>1, <1>2, <1>3, Appended
<1>5. /\ file \in Files /\ b \in Seq(Cells) /\ epoch \in Nat /\ end \in Nat
      /\ writing \in [record : Records, cells : Nat]
  BY <1>2, <1>3, Bodies, WritingIs
<1>6. k + 1 \in 0..c /\ k + 1 \in 1..c /\ Cell(r, k + 1) \in Cells /\ k \in Nat
  <2>1. k + 1 \in 0..c /\ k + 1 \in 1..c /\ k \in Nat
    BY <1>3, <1>4
  <2> QED  BY <1>1, <1>4, <2>1, EnvelopeIs
<1>7. /\ f \in Seq(Cells) /\ Len(f) = (end + k) + 1 /\ \A i \in 1..(end + k) : f[i] = b[i]
      /\ f[(end + k) + 1] = Cell(r, k + 1)
  <2>1. f = WriteAt(b, Len(b), <<Cell(r, k + 1)>>)
    BY <1>2, <1>3, <1>4, <1>5 DEF Files
  <2>2. /\ f \in Seq(Cells) /\ Len(f) = Len(b) + 1 /\ \A i \in 1..Len(b) : f[i] = b[i]
        /\ f[Len(b) + 1] = Cell(r, k + 1)
    BY <1>5, <1>6, <2>1, OneCellMore
  <2> QED  BY <1>4, <2>2
<1>8. /\ file' \in Files /\ file'.body = f /\ file'.header = file.header
      /\ writing'.record = r /\ writing'.cells = k + 1 /\ writing' # <<>>
      /\ writing' \in [record : Records, cells : Nat]
  <2>1. writing' \in [record : Records, cells : Nat]
    BY <1>3, <1>5, <1>6
  <2> QED  BY <1>1, <1>2, <1>3, <1>5, <1>6, <1>7, <2>1, RecordIsNoTuple DEF Files
<1>9. \A q \in 1..(k + 1) : f[end + q] = Cell(r, q)
  <2> TAKE q \in 1..(k + 1)
  <2>1. CASE q = k + 1
    <3>1. end + q = (end + k) + 1
      BY <1>5, <1>6, <2>1
    <3> QED  BY <1>7, <2>1, <3>1
  <2>2. CASE q # k + 1
    <3>1. q \in 1..k /\ end + q \in 1..(end + k)
      BY <1>5, <1>6, <2>2
    <3>2. b[end + q] = Cell(r, q)
      BY <1>1, <1>2, <1>3, <3>1 DEF Appending
    <3> QED  BY <1>7, <3>1, <3>2
  <2> QED  BY <2>1, <2>2
<1>10. \A i \in 1..end : f[i] = Base[i]
  <2>1. \A i \in 1..end : i \in 1..(end + k)
    BY <1>5, <1>6
  <2> QED  BY <1>4, <1>7, <2>1
<1>11. Base' = Base
  <2>1. end <= Len(f) /\ end <= Len(b)
    BY <1>4, <1>5, <1>6, <1>7
  <2>2. SubSeq(f, 1, end) = SubSeq(b, 1, end)
    BY <1>4, <1>5, <1>7, <1>10, <2>1
  <2> QED  BY <1>2, <1>3, <2>2 DEF Base
<1>12. Len(f) = Len(Base) + (k + 1) /\ Begins(Base, f)
  BY <1>4, <1>5, <1>6, <1>7, <1>10 DEF Begins
<1>13. IF k + 1 = c
       THEN /\ Whole(f) /\ LastSequence(f) = r.seq
            /\ Newest(f) = IF r.payload \in Snapshots THEN r.payload ELSE Newest(Base)
       ELSE ValidEnd(f) = end /\ Newest(f) = Newest(Base)
  <2>1. /\ k + 1 \in 0..CellsOf(r.payload)
        /\ \A q \in 1..(k + 1) : f[Len(Base) + q] = Cell(r, q)
    BY <1>1, <1>4, <1>6, <1>9
  <2>2. IF k + 1 = CellsOf(r.payload)
        THEN /\ Whole(f) /\ LastSequence(f) = r.seq
             /\ Newest(f) = IF r.payload \in Snapshots THEN r.payload ELSE Newest(Base)
        ELSE ValidEnd(f) = Len(Base) /\ Newest(f) = Newest(Base)
    <3>1. Extends(Base, r, k + 1, f)
      BY <1>4, <1>12, <2>1 DEF Extends
    <3> QED  BY <1>4, <1>7, <3>1, Grown
  <2> QED  BY <1>1, <1>4, <2>2
<1>14. step = "claiming" => Newest(f) = Newest(b)
  <2> SUFFICES ASSUME step = "claiming" PROVE Newest(f) = Newest(b)
    OBVIOUS
  <2>1. r.payload = Claim
    BY <1>1, <1>3 DEF Appending, Record
  <2> QED  BY <1>4, <1>13, <2>1, Sizes
<1>19. step = "appending" => Newest(f) \in {Newest(Base), memory}
  <2>1. step = "appending" => r.payload = memory
    BY <1>1, <1>3 DEF Appending, Record
  <2> QED  BY <1>13, <2>1
<1>15. Typed'
  <2>1. TypeOK'
    BY <1>3, <1>8 DEF Typed, TypeOK
  <2>2. \A i \in DOMAIN f : f[i].record.epoch <= epoch
    <3> TAKE i \in DOMAIN f
    <3>1. i \in 1..(end + k) \/ i = (end + k) + 1
      BY <1>5, <1>6, <1>7
    <3>2. CASE i \in 1..(end + k)
      <4>1. b[i].record.epoch <= epoch
        BY <1>2, <1>4, <1>5, <3>2 DEF Typed
      <4> QED  BY <1>7, <3>2, <4>1
    <3>3. CASE i = (end + k) + 1
      BY <1>4, <1>5, <1>7, <3>3 DEF Cell
    <3> QED  BY <3>1, <3>2, <3>3
  <2> QED  BY <1>3, <1>8, <2>1, <2>2 DEF Typed
<1>16. OnDisk'
  <2>1. step # "down" /\ Whole(durable.body) /\ Begins(durable.body, b)
    BY <1>2, <1>3 DEF OnDisk, Writing
  <2>2. PICK d, n : d = durable.body /\ n = Len(durable.body)
    OBVIOUS
  <2>3. n \in Nat /\ n <= end /\ ValidEnd(d) = n
    BY <1>3, <2>1, <2>2, Bodies DEF Whole, Appending
  <2>4. Begins(d, f)
    <3>1. \A i \in 1..n : i \in 1..(end + k)
      BY <1>5, <1>6, <2>3
    <3>2. n <= Len(f)
      BY <1>5, <1>6, <1>7, <2>3
    <3> QED  BY <1>7, <2>1, <2>2, <3>1, <3>2 DEF Begins
  <2>5. ASSUME NEW i \in (n + 1)..ValidEnd(f), NEW j \in (n + 1)..ValidEnd(f),
               Holds(f, i), Holds(f, j)
        PROVE  f[i].record.payload = f[j].record.payload
    <3>1. ValidEnd(f) \in 0..((end + k) + 1) /\ (end + k) + 1 \in Nat
      BY <1>5, <1>6, <1>7, ValidEndIs
    <3>2. ASSUME NEW m \in (n + 1)..ValidEnd(f)
          PROVE  \/ m \in (n + 1)..ValidEnd(b) /\ f[m] = b[m] /\ step = "claiming"
                 \/ f[m].record = r
      <4>0. m \in Nat /\ n + 1 <= m /\ m <= (end + k) + 1
        BY <2>3, <3>1
      <4>1. CASE end < m
        <5>1. m - end \in 1..(k + 1) /\ end + (m - end) = m
          BY <1>5, <1>6, <4>0, <4>1
        <5>2. f[m] = Cell(r, m - end)
          BY <1>9, <5>1
        <5> QED  BY <5>2 DEF Cell
      <4>2. CASE m <= end
        <5>1. m \in (n + 1)..end /\ m \in 1..(end + k)
          BY <1>5, <1>6, <2>3, <4>0, <4>2
        <5>2. step = "appending" => n = end
          BY <1>3, <1>4, <2>2 DEF Appending
        <5>3. step = "claiming"
          BY <1>3, <1>5, <2>3, <5>1, <5>2 DEF Writing
        <5> QED  BY <1>4, <1>7, <5>1, <5>3
      <4> QED  BY <1>5, <4>0, <4>1, <4>2
    <3>3. step = "claiming" => r.payload \notin Snapshots
      BY <1>1, <1>3, Sizes DEF Appending, Record
    <3>4. CASE step = "claiming"
      <4>1. i \in (n + 1)..ValidEnd(b) /\ j \in (n + 1)..ValidEnd(b) /\ f[i] = b[i] /\ f[j] = b[j]
        BY <2>5, <3>2, <3>3, <3>4 DEF Holds
      <4>2. i \in UnsavedCells /\ j \in UnsavedCells
        BY <1>2, <2>2, <2>3, <4>1 DEF UnsavedCells
      <4> QED  BY <1>2, <2>5, <4>1, <4>2 DEF OnDisk, Holds
    <3>5. CASE step # "claiming"
      BY <3>2, <3>5
    <3> QED  BY <3>4, <3>5
  <2>6. UnsavedCells' = (n + 1)..ValidEnd(f)
    BY <1>2, <1>3, <2>2, <2>3 DEF UnsavedCells
  <2>7. \A i, j \in UnsavedCells' :
          LET p == f[i].record.payload
              q == f[j].record.payload
          IN  p \in Snapshots /\ q \in Snapshots => p = q
    BY <2>5, <2>6 DEF Holds
  <2>8. durable' = durable /\ step' = step /\ file'.header = file.header /\ file'.body = f
    BY <1>2, <1>3, <1>8
  <2>9. /\ durable.header # "valid" => durable.body = <<>>
        /\ file.header = "valid"
    BY <1>3 DEF OnDisk, Writing
  <2> QED  BY <2>1, <2>2, <2>4, <2>7, <2>8, <2>9 DEF OnDisk
<1>17. Appending'
  <2>1. k + 1 <= c /\ Len(f) = end + (k + 1)
    BY <1>4, <1>5, <1>6, <1>7
  <2> QED  BY <1>1, <1>3, <1>8, <1>9, <1>11, <2>1 DEF Appending
<1>18. Known'
  <2>1. step = "appending" => memory # Nothing
    BY <1>3, Sizes DEF Appending
  <2>2. step \in {"claiming", "appending"}
    BY <1>3 DEF Writing
  <2> QED  BY <1>2, <1>3, <1>14, <2>1, <2>2 DEF Known
<1> QED  BY <1>2, <1>3, <1>11, <1>14, <1>15, <1>16, <1>17, <1>18, <1>19
         DEF Writing, ActsOnDurableState, Compacting

LEMMA AppendDoneKeeps ==
  ASSUME JournalInv, AppendDone
  PROVE  JournalInv'
<1> USE DEF JournalInv
<1>1. PICK r, c : r = writing.record /\ c = CellsOf(r.payload)
  OBVIOUS
<1>2. /\ Writing /\ writing.cells = c /\ step' = "running" /\ writing' = <<>> /\ ~Writing'
      /\ durable' = file /\ file' = file /\ end' = end + c /\ lastSeq' = r.seq
      /\ since' = since + 1 /\ claimed' = claimed \cup {epoch}
      /\ told' = (IF step = "appending" THEN memory ELSE told)
      /\ UNCHANGED <<temp, epoch, memory, failed>>
  BY <1>1 DEF AppendDone, Written, Writing, Flushed
<1>3. /\ r \in Records /\ r.epoch = epoch /\ c \in Nat \ {0} /\ Len(file.body) = end + c
      /\ Whole(file.body) /\ LastSequence(file.body) = r.seq
      /\ Newest(file.body) = IF r.payload \in Snapshots THEN r.payload ELSE Newest(Base)
  BY <1>1, <1>2, Appended
<1>4. /\ r.payload = IF step = "claiming" THEN Claim ELSE memory
      /\ step = "claiming" => memory = Newest(Base)
      /\ step = "appending" => memory \in Snapshots
      /\ ~failed /\ (step = "claiming" \/ step = "appending")
  BY <1>1, <1>2 DEF Appending, Record, Writing
<1>5. memory = Newest(file.body)
  BY <1>3, <1>4, Sizes
<1>6. Typed'
  <2>1. epoch >= 1 /\ epoch <= MaxEpoch /\ epoch \in Nat
    BY <1>2 DEF Typed, TypeOK, Writing
  <2>2. claimed' \subseteq 1..MaxEpoch
    <3>1. epoch \in 1..MaxEpoch
      BY <2>1, Sizes
    <3>2. claimed \subseteq 1..MaxEpoch
      BY DEF Typed, TypeOK
    <3> QED  BY <1>2, <3>1, <3>2
  <2>3. end' \in Nat /\ since' \in Nat /\ lastSeq' \in Nat
    BY <1>2, <1>3 DEF Typed, TypeOK, Records
  <2>4. TypeOK'
    BY <1>2, <2>2, <2>3 DEF Typed, TypeOK, Steps
  <2> QED  BY <1>2, <2>1, <2>4 DEF Typed
<1>7. OnDisk'
  <2>1. file.header = "valid" /\ Begins(file.body, file.body)
    BY <1>2, Bodies DEF OnDisk, Writing, Begins
  <2>2. UnsavedCells' = {}
    <3>1. ValidEnd(file.body) \in Nat
      BY Bodies, ValidEndIs
    <3> QED  BY <1>2, <3>1 DEF UnsavedCells
  <2> QED  BY <1>2, <1>3, <2>1, <2>2 DEF OnDisk
<1>8. ActsOnDurableState'
  BY <1>2, <1>3, <1>5 DEF ActsOnDurableState, Whole
<1> QED  BY <1>2, <1>5, <1>6, <1>7, <1>8 DEF Appending, Known, Compacting

LEMMA HighestIs ==
  ASSUME NEW body \in Seq(Cells), NEW top \in Nat,
         \A i \in DOMAIN body : body[i].record.epoch <= top
  PROVE  /\ HighestEpoch(body) \in 0..top
         /\ \A i \in 1..ValidEnd(body) : body[i].record.epoch <= HighestEpoch(body)
<1>1. PICK v \in 0..Len(body) : v = ValidEnd(body)
  BY ValidEndIs
<1>2. PICK given : given = {body[i].record.epoch : i \in 1..v} \cup {0}
  OBVIOUS
<1>3. \A i \in 1..v : body[i].record.epoch \in Nat /\ body[i].record.epoch <= top
  <2> TAKE i \in 1..v
  <2>1. i \in DOMAIN body /\ body[i] \in Cells
    BY <1>1
  <2> QED  BY <2>1 DEF Cells, Records
<1>4. given \in SUBSET Nat /\ given # {} /\ \A n \in given : n <= top
  BY <1>2, <1>3
<1>5. Greatest(given) \in given /\ \A n \in given : n <= Greatest(given)
  BY <1>4, GreatestIs
<1>6. HighestEpoch(body) = Greatest(given)
  BY <1>1, <1>2 DEF HighestEpoch
<1>7. Greatest(given) \in 0..top
  <2>1. PICK g : g = Greatest(given)
    OBVIOUS
  <2>2. g \in Nat /\ g <= top
    BY <1>4, <1>5, <2>1
  <2> QED  BY <2>1, <2>2
<1>8. \A i \in 1..v : body[i].record.epoch <= Greatest(given)
  BY <1>2, <1>5
<1> QED  BY <1>1, <1>6, <1>7, <1>8

(* What an incarnation finds and keeps.                                     *)
LEMMA ClaimFinds ==
  ASSUME JournalInv, ClaimEpoch
  PROVE  /\ step \in {"down", "creating"} /\ step' \in {"down", "claiming"} /\ ~Writing
         /\ file' \in Files /\ file'.header = file.header /\ file.header = "valid"
         /\ Len(file'.body) = ValidEnd(file.body) /\ Whole(file'.body)
         /\ \A i \in 1..Len(file'.body) : file'.body[i] = file.body[i]
         /\ Newest(file'.body) = Newest(file.body)
         /\ LastSequence(file'.body) = LastSequence(file.body)
         /\ durable' = file' \/ (durable' = durable /\ file' = file /\ step = "down")
         /\ epoch' = HighestEpoch(file.body) + 1 /\ epoch' \in 1..MaxEpoch
         /\ \A i \in 1..ValidEnd(file.body) : file.body[i].record.epoch < epoch'
         /\ told' = Nothing
<1> USE DEF JournalInv
<1>1. PICK kept : kept = [file EXCEPT !.body = SubSeq(file.body, 1, ValidEnd(file.body))]
  OBVIOUS
<1>2. /\ step \in {"down", "creating"} /\ epoch < MaxEpoch
      /\ file' = kept
      /\ durable' = IF kept # file \/ step = "creating" THEN kept ELSE durable
      /\ epoch' = HighestEpoch(file.body) + 1 /\ told' = Nothing
      /\ step' \in {"down", "claiming"}
      /\ file.header = "valid"
  BY <1>1 DEF ClaimEpoch, OnDisk
<1>3. kept.body = SubSeq(file.body, 1, ValidEnd(file.body)) /\ kept.header = file.header
  BY <1>1, Bodies DEF Files
<1>4. /\ kept.body \in Seq(Cells) /\ Len(kept.body) = ValidEnd(file.body) /\ Whole(kept.body)
      /\ \A i \in 1..Len(kept.body) : kept.body[i] = file.body[i]
      /\ Newest(kept.body) = Newest(file.body)
      /\ LastSequence(kept.body) = LastSequence(file.body)
  <2>1. file.body \in Seq(Cells)
    BY Bodies
  <2> HIDE DEF JournalInv
  <2> QED  BY <1>3, <2>1, Cut
<1>5. kept \in Files
  BY <1>1, <1>3, <1>4, Bodies DEF Files
<1>6. epoch' \in 1..MaxEpoch /\ \A i \in 1..ValidEnd(file.body) : file.body[i].record.epoch < epoch'
  <2>1. \A i \in DOMAIN file.body : file.body[i].record.epoch <= epoch
    BY DEF Typed
  <2>2. /\ HighestEpoch(file.body) \in 0..epoch
        /\ \A i \in 1..ValidEnd(file.body) : file.body[i].record.epoch <= HighestEpoch(file.body)
    BY <2>1, Bodies, HighestIs
  <2>3. epoch \in Nat /\ MaxEpoch \in Nat
    BY Bodies, Sizes
  <2>4. epoch' \in 1..MaxEpoch
    BY <1>2, <2>2, <2>3
  <2>5. \A i \in 1..ValidEnd(file.body) : file.body[i].record.epoch \in Nat
    <3> TAKE i \in 1..ValidEnd(file.body)
    <3>1. file.body[i] \in Cells
      BY Bodies, ValidEndIs
    <3> QED  BY <3>1 DEF Cells, Records
  <2> QED  BY <1>2, <2>2, <2>4, <2>5
<1>7. durable' = kept \/ (durable' = durable /\ kept = file /\ step = "down")
  BY <1>2
<1>8. ~Writing
  BY <1>2 DEF Writing
<1> QED  BY <1>2, <1>3, <1>4, <1>5, <1>6, <1>7, <1>8

LEMMA ClaimEpochKeeps ==
  ASSUME JournalInv, ClaimEpoch
  PROVE  JournalInv'
<1> USE DEF JournalInv
<1>1. PICK n : n = ValidEnd(file.body)
  OBVIOUS
<1>2. PICK f : f = file'.body
  OBVIOUS
<1>3. /\ step \in {"down", "creating"} /\ step' \in {"down", "claiming"} /\ ~Writing
      /\ file' \in Files /\ file'.header = "valid"
      /\ Len(f) = n /\ Whole(f) /\ \A i \in 1..n : f[i] = file.body[i]
      /\ Newest(f) = Newest(file.body) /\ LastSequence(f) = LastSequence(file.body)
      /\ durable' = file' \/ (durable' = durable /\ file' = file)
      /\ epoch' \in 1..MaxEpoch
      /\ \A i \in 1..n : file.body[i].record.epoch < epoch'
      /\ told' = Nothing
  BY <1>1, <1>2, ClaimFinds
<1>4. /\ end' = n /\ lastSeq' = LastSequence(file.body) /\ since' = 0
      /\ memory' = Newest(file.body) /\ failed' = FALSE /\ temp' = temp /\ claimed' = claimed
      /\ \/ /\ step' = "claiming"
            /\ writing' = [record |-> Record(Claim, LastSequence(file.body) + 1, epoch'),
                           cells |-> 0]
         \/ step' = "down" /\ writing' = writing
  BY <1>1, <1>2, <1>3 DEF ClaimEpoch, Files
<1>5. n \in Nat /\ f \in Seq(Cells) /\ LastSequence(file.body) \in Nat
  <2>1. n \in 0..Len(file.body)
    BY <1>1, Bodies, ValidEndIs
  <2>2. n # 0 => file.body[n] \in Cells
    BY <2>1, Bodies
  <2>3. LastSequence(file.body) \in Nat
    BY <1>1, <2>2 DEF LastSequence, Cells, Records
  <2> QED  BY <1>2, <1>3, <2>1, <2>3, Bodies DEF Files
<1>6. writing = <<>>
  BY <1>3 DEF Typed, TypeOK
<1>7. /\ (Writing <=> writing # <<>>)'
      /\ writing' \in {<<>>} \cup [record : Records, cells : Nat]
  <2>1. CASE step' = "claiming"
    <3>1. Claim \in Payloads /\ LastSequence(file.body) + 1 \in Nat /\ epoch' \in Nat
      BY <1>3, <1>5 DEF Payloads
    <3>2. Record(Claim, LastSequence(file.body) + 1, epoch') \in Records
      BY <3>1 DEF Record, Records
    <3>3. writing' \in [record : Records, cells : Nat]
      BY <1>4, <2>1, <3>2
    <3> QED  BY <2>1, <3>3, RecordIsNoTuple DEF Writing
  <2>2. CASE step' = "down"
    BY <1>4, <1>6, <2>2 DEF Writing
  <2> QED  BY <1>3, <2>1, <2>2
<1>8. durable' \in Files
  BY <1>3, Bodies
<1>9. Typed'
  <2>1. memory' \in Snapshots \cup {Nothing}
    BY <1>4, Bodies, NewestIsOne
  <2>2. TypeOK'
    <3>1. epoch' \in Nat /\ end' \in Nat /\ lastSeq' \in Nat /\ since' \in Nat
      BY <1>3, <1>4, <1>5
    <3>2. /\ told' \in Snapshots \cup {Nothing} /\ failed' \in BOOLEAN /\ step' \in Steps
          /\ claimed' \subseteq 1..MaxEpoch /\ temp' \in Seq(Cells)
      BY <1>3, <1>4 DEF Typed, TypeOK, Steps
    <3> QED  BY <1>3, <1>7, <1>8, <2>1, <3>1, <3>2 DEF TypeOK
  <2>3. \A i \in DOMAIN f : f[i].record.epoch <= epoch'
    <3> TAKE i \in DOMAIN f
    <3>1. i \in 1..n /\ f[i] \in Cells
      BY <1>3, <1>5
    <3>2. f[i].record.epoch < epoch' /\ f[i].record.epoch \in Nat /\ epoch' \in Nat
      BY <1>3, <3>1 DEF Cells, Records
    <3> QED  BY <3>2
  <2>4. epoch' \in Nat /\ epoch' >= 1 /\ epoch' <= MaxEpoch
    BY <1>3, Sizes
  <2> QED  BY <1>2, <1>3, <2>2, <2>3, <2>4 DEF Typed
<1>10. Begins(durable'.body, f) /\ Whole(durable'.body)
  <2>1. CASE durable' = file'
    BY <1>2, <1>3, <1>5, <2>1 DEF Begins
  <2>2. CASE durable' = durable /\ file' = file
    BY <1>2, <1>3, <2>2 DEF OnDisk
  <2> QED  BY <1>3, <2>1, <2>2
<1>11. OnDisk'
  <2>1. durable'.header # "valid" => durable'.body = <<>>
    BY <1>3 DEF OnDisk
  <2>2. \A i, j \in UnsavedCells' :
          LET p == f[i].record.payload
              q == f[j].record.payload
          IN  p \in Snapshots /\ q \in Snapshots => p = q
    <3>1. CASE durable' = file'
      <4>1. UnsavedCells' = {}
        BY <1>2, <1>3, <1>5, <3>1 DEF UnsavedCells, Whole
      <4> QED  BY <4>1
    <3>2. CASE durable' = durable /\ file' = file
      BY <1>2, <3>2 DEF OnDisk, UnsavedCells
    <3> QED  BY <1>3, <3>1, <3>2
  <2> QED  BY <1>2, <1>3, <1>10, <2>1, <2>2 DEF OnDisk
<1>12. Appending'
  <2> SUFFICES ASSUME Writing' PROVE Appending'
    BY DEF Appending
  <2>1. step' = "claiming"
    BY <1>3 DEF Writing
  <2>2. /\ writing'.cells = 0
        /\ writing'.record = Record(Claim, LastSequence(f) + 1, epoch')
        /\ writing'.record.payload = Claim
    BY <1>3, <1>4, <2>1 DEF Record
  <2>3. Base' = f
    <3>1. SubSeq(f, 1, n) = f
      BY <1>3, <1>5
    <3> QED  BY <1>2, <1>4, <3>1 DEF Base
  <2>4. Len(durable'.body) <= n
    BY <1>3, <1>10 DEF Begins
  <2>5. 0 <= CellsOf(Claim) /\ n + 0 = n /\ 1..0 = {}
    BY <1>5, Sizes
  <2> QED  BY <1>2, <1>3, <1>4, <2>1, <2>2, <2>3, <2>4, <2>5 DEF Appending
<1>13. Known'
  BY <1>2, <1>3, <1>4 DEF Known
<1> QED  BY <1>3, <1>9, <1>11, <1>12, <1>13 DEF ActsOnDurableState, Compacting

LEMMA CompactedIs ==
  ASSUME Typed
  PROVE  /\ Len(Compacted) \in 1..2 /\ \A n \in 1..Len(Compacted) : Compacted[n] \in Payloads
         /\ memory = Nothing => Len(Compacted) = 1 /\ Compacted[1] = Marker
         /\ memory # Nothing => Len(Compacted) = 2 /\ Compacted[1] = memory /\ Compacted[2] = Marker
         /\ memory \in Snapshots \cup {Nothing}
<1>1. memory \in Snapshots \cup {Nothing}
  BY DEF Typed, TypeOK
<1>2. CASE memory = Nothing
  <2>1. Compacted = <<Marker>>
    BY <1>2 DEF Compacted
  <2> QED  BY <1>1, <1>2, <2>1 DEF Payloads
<1>3. CASE memory # Nothing
  <2>1. Compacted = <<memory>> \o <<Marker>>
    BY <1>3 DEF Compacted
  <2>2. memory \in Payloads /\ Marker \in Payloads
    BY <1>1, <1>3 DEF Payloads
  <2>3. <<memory>> \in Seq(Payloads) /\ <<Marker>> \in Seq(Payloads)
    BY <2>2
  <2>4. /\ Len(Compacted) = 2 /\ Compacted[1] = memory /\ Compacted[2] = Marker
    BY <2>1, <2>3, ConcatProperties
  <2>5. \A n \in 1..2 : n = 1 \/ n = 2
    OBVIOUS
  <2> QED  BY <1>1, <1>3, <2>2, <2>4, <2>5
<1> QED  BY <1>2, <1>3

LEMMA CompactRecordKeeps ==
  ASSUME JournalInv, CompactRecord
  PROVE  JournalInv'
<1> USE DEF JournalInv
<1>1. PICK n, r : n = LastSequence(temp) + 1 /\ r = Record(Compacted[n], n, epoch)
  OBVIOUS
<1>2. /\ step = "compacting" /\ step' = step /\ n <= Len(Compacted)
      /\ temp' = temp \o Envelope(r) /\ ~Writing /\ ~Writing'
      /\ UNCHANGED <<file, durable, writing, end, lastSeq, since, epoch, memory, failed, told, claimed>>
  BY <1>1 DEF CompactRecord, Writing, writerVars
<1>3. /\ Whole(temp) /\ n - 1 \in 0..Len(Compacted) /\ n \in Nat /\ temp \in Seq(Cells)
      /\ Newest(temp) = IF n - 1 = 0 THEN Nothing ELSE memory
      /\ \A i \in DOMAIN temp : temp[i].record.epoch = epoch
      /\ epoch \in Nat
  <2>1. LastSequence(temp) \in 0..Len(Compacted)
    BY <1>2 DEF Compacting
  <2>2. n - 1 = LastSequence(temp) /\ n \in Nat
    BY <1>1, <2>1
  <2> QED  BY <1>2, <2>1, <2>2, Bodies DEF Compacting, Typed
<1>4. n \in 1..Len(Compacted) /\ Compacted[n] \in Payloads
  BY <1>2, <1>3, CompactedIs
<1>5. /\ r \in Records /\ r.payload = Compacted[n] /\ r.seq = n /\ r.epoch = epoch
  BY <1>1, <1>3, <1>4 DEF Record, Records
<1>6. PICK c, t, L : c = CellsOf(r.payload) /\ t = temp' /\ L = Len(temp)
  OBVIOUS
<1>7. /\ c \in Nat \ {0} /\ Envelope(r) \in Seq(Cells) /\ Len(Envelope(r)) = c
      /\ \A q \in 1..c : Envelope(r)[q] = Cell(r, q)
  BY <1>5, <1>6, EnvelopeIs
<1>8. /\ t \in Seq(Cells) /\ Len(t) = L + c /\ L \in Nat
      /\ \A i \in 1..L : t[i] = temp[i]
      /\ \A q \in 1..c : t[L + q] = Cell(r, q)
  <2>1. t = temp \o Envelope(r) /\ L \in Nat
    BY <1>2, <1>3, <1>6
  <2>2. t \in Seq(Cells) /\ Len(t) = L + c
    BY <1>3, <1>6, <1>7, <2>1, ConcatProperties
  <2>3. \A i \in 1..L : t[i] = temp[i]
    BY <1>3, <1>6, <1>7, <2>1
  <2>4. \A q \in 1..c : t[L + q] = Cell(r, q)
    <3> TAKE q \in 1..c
    <3>1. L + q \in 1..(L + c) /\ ~(L + q <= L) /\ (L + q) - L = q
      BY <1>7, <2>1
    <3>2. t[L + q] = Envelope(r)[q]
      BY <1>3, <1>6, <1>7, <2>1, <3>1
    <3> QED  BY <1>7, <3>2
  <2> QED  BY <2>1, <2>2, <2>3, <2>4
<1>9. Extends(temp, r, c, t)
  <2>1. Begins(temp, t)
    BY <1>6, <1>7, <1>8 DEF Begins
  <2>2. LastSequence(temp) < n
    <3>1. LastSequence(temp) \in 0..Len(Compacted)
      BY <1>2 DEF Compacting
    <3>2. LastSequence(temp) \in Nat
      BY <3>1, CompactedIs
    <3> QED  BY <1>1, <3>2
  <2>3. c \in 0..c
    BY <1>7
  <2> QED  BY <1>3, <1>5, <1>6, <1>8, <2>1, <2>2, <2>3 DEF Extends
<1>10. /\ Whole(t) /\ LastSequence(t) = n
       /\ Newest(t) = IF r.payload \in Snapshots THEN r.payload ELSE Newest(temp)
  BY <1>3, <1>5, <1>6, <1>8, <1>9, Grown
<1>11. Newest(t) = memory
  <2>1. Compacted[n] = Marker \/ (n = 1 /\ Compacted[n] = memory /\ memory \in Snapshots)
    BY <1>3, <1>4, CompactedIs
  <2>2. n = 1 /\ Compacted[n] = Marker => memory = Nothing
    BY CompactedIs, Sizes
  <2> QED  BY <1>3, <1>5, <1>10, <2>1, <2>2, Sizes
<1>12. Typed'
  <2>1. TypeOK'
    BY <1>2, <1>6, <1>8 DEF Typed, TypeOK
  <2>2. \A i \in DOMAIN t : t[i].record.epoch = epoch
    <3> TAKE i \in DOMAIN t
    <3>1. i \in 1..L \/ (i - L \in 1..c /\ L + (i - L) = i)
      BY <1>7, <1>8
    <3>2. CASE i \in 1..L
      BY <1>3, <1>6, <1>8, <3>2
    <3>3. CASE i - L \in 1..c /\ L + (i - L) = i
      <4>1. t[i] = Cell(r, i - L)
        BY <1>8, <3>3
      <4> QED  BY <1>5, <4>1 DEF Cell
    <3> QED  BY <3>1, <3>2, <3>3
  <2> QED  BY <1>2, <1>6, <2>1, <2>2 DEF Typed
<1>13. OnDisk' /\ Known'
  BY <1>2 DEF OnDisk, UnsavedCells, Known
<1>14. Compacting'
  <2>1. Compacted' = Compacted /\ n \in 0..Len(Compacted) /\ n # 0
    BY <1>2, <1>3, <1>4, CompactedIs DEF Compacted
  <2> QED  BY <1>2, <1>6, <1>10, <1>11, <2>1 DEF Compacting
<1> QED  BY <1>2, <1>12, <1>13, <1>14 DEF Appending, ActsOnDurableState

(* The temporary in the journal's place.                                    *)
LEMMA TakesOver ==
  ASSUME JournalInv, step \in {"compacting", "replacing"},
         file' = [header |-> "valid", body |-> temp], durable' = file'
  PROVE  /\ file' \in Files /\ file'.body = temp /\ file'.header = "valid" /\ temp \in Seq(Cells)
         /\ Begins(file'.body, file'.body) /\ Whole(temp)
         /\ ValidEnd(temp) = Len(temp) /\ UnsavedCells' = {}
         /\ \A i \in DOMAIN temp : temp[i].record.epoch = epoch
         /\ Newest(temp) \in {Nothing, memory}
         /\ step = "replacing" => /\ Newest(temp) = memory /\ 1 <= Len(temp)
<1> USE DEF JournalInv
<1>1. /\ file'.body = temp /\ file'.header = "valid" /\ temp \in Seq(Cells)
      /\ Whole(temp) /\ durable'.body = temp /\ Len(temp) \in Nat
      /\ LastSequence(temp) \in 0..Len(Compacted)
      /\ Newest(temp) = IF LastSequence(temp) = 0 THEN Nothing ELSE memory
      /\ step = "replacing" => LastSequence(temp) = Len(Compacted)
      /\ \A i \in DOMAIN temp : temp[i].record.epoch = epoch
  BY Bodies DEF Compacting, Typed
<1>2. file' \in Files
  BY <1>1 DEF Files
<1>3. ValidEnd(temp) = Len(temp)
  BY <1>1 DEF Whole
<1>4. UnsavedCells' = {}
  BY <1>1, <1>3 DEF UnsavedCells
<1>5. step = "replacing" => LastSequence(temp) # 0
  BY <1>1, CompactedIs
<1>6. LastSequence(temp) # 0 => 1 <= Len(temp)
  BY <1>1, <1>3 DEF LastSequence
<1> QED  BY <1>1, <1>2, <1>3, <1>4, <1>5, <1>6 DEF Begins

LEMMA CompactionEndsKeeps ==
  ASSUME JournalInv, CompactFails \/ Replace \/ ReplaceFails
  PROVE  JournalInv'
<1> USE DEF JournalInv
<1>1. /\ step \in {"compacting", "replacing"} /\ ~Writing /\ writing = <<>> /\ epoch >= 1
      /\ UNCHANGED <<temp, writing, epoch, memory, told, claimed>>
      /\ step' \in {"running", "stopping"}
      /\ failed' \in BOOLEAN /\ ~Writing'
  BY DEF CompactFails, Replace, ReplaceFails, Writing, Typed, TypeOK
<1>2. \/ file' = [header |-> "valid", body |-> temp] /\ durable' = file'
      \/ UNCHANGED <<file, durable>> /\ step' = "stopping"
  BY DEF CompactFails, Replace, ReplaceFails
<1>3. step' = "running" =>
        /\ step = "replacing" /\ file' = [header |-> "valid", body |-> temp] /\ durable' = file'
        /\ end' = Len(temp) /\ lastSeq' = LastSequence(temp) /\ since' = 0
  BY DEF CompactFails, Replace, ReplaceFails, MovedWriter
<1>4. step' # "running" => UNCHANGED <<end, lastSeq, since>>
  BY DEF CompactFails, Replace, ReplaceFails, writerVars
<1>5. end' \in Nat /\ lastSeq' \in Nat /\ since' \in Nat
  <2>1. Len(temp) \in Nat /\ LastSequence(temp) \in Nat
    <3>1. LastSequence(temp) \in 0..Len(Compacted)
      BY <1>1 DEF Compacting
    <3> QED  BY <3>1, Bodies, CompactedIs
  <2> QED  BY <1>3, <1>4, <2>1 DEF Typed, TypeOK
<1>6. CASE file' = [header |-> "valid", body |-> temp] /\ durable' = file'
  <2>1. /\ file' \in Files /\ file'.body = temp /\ file'.header = "valid" /\ temp \in Seq(Cells)
        /\ Begins(file'.body, file'.body) /\ Whole(temp)
        /\ ValidEnd(temp) = Len(temp) /\ UnsavedCells' = {}
        /\ \A i \in DOMAIN temp : temp[i].record.epoch = epoch
        /\ Newest(temp) \in {Nothing, memory}
        /\ step = "replacing" => Newest(temp) = memory
    BY <1>1, <1>6, TakesOver
  <2>2. Typed'
    <3>1. TypeOK'
      BY <1>1, <1>5, <1>6, <2>1 DEF Typed, TypeOK, Steps
    <3>2. \A i \in DOMAIN temp : temp[i].record.epoch <= epoch
      BY <2>1, Bodies
    <3> QED  BY <1>1, <2>1, <3>1, <3>2 DEF Typed
  <2>3. OnDisk'
    BY <1>6, <2>1 DEF OnDisk
  <2>4. Known'
    BY <1>1, <2>1 DEF Known
  <2>5. ActsOnDurableState'
    BY <1>1, <1>3, <1>6, <2>1 DEF ActsOnDurableState
  <2> QED  BY <1>1, <2>2, <2>3, <2>4, <2>5 DEF Appending, Compacting
<1>7. CASE UNCHANGED <<file, durable>> /\ step' = "stopping"
  <2>1. Typed'
    <3>1. TypeOK'
      BY <1>1, <1>5, <1>7 DEF Typed, TypeOK, Steps
    <3> QED  BY <1>1, <1>7, <3>1 DEF Typed
  <2>2. OnDisk'
    BY <1>1, <1>7 DEF OnDisk, UnsavedCells
  <2>3. Known'
    BY <1>1, <1>7 DEF Known
  <2> QED  BY <1>1, <1>7, <2>1, <2>2, <2>3 DEF Appending, Compacting, ActsOnDurableState
<1> QED  BY <1>2, <1>6, <1>7

(* What a loss of power leaves: all that was flushed, and of the rest no    *)
(* cell that replay would go through unless it was written.                 *)
Survives(f, d, b) ==
  /\ b \in Seq(Cells) /\ Len(d) <= Len(b) /\ Len(b) <= Len(f)
  /\ \A i \in 1..Len(d) : b[i] = d[i]
  /\ \A i \in 1..Len(b) : b[i] = f[i] \/ b[i] = Junk

LEMMA RemainsAre ==
  ASSUME NEW f \in Seq(Cells), f = file.body, NEW d \in Seq(Cells), d = durable.body,
         Begins(d, f), NEW lost \in SUBSET Unflushed, NEW n \in Len(d)..Len(f)
  PROVE  Survives(f, d, Remains(lost, n))
<1> DEFINE before(i) == IF i <= Len(durable.body) THEN durable.body[i] ELSE Junk
           left == [i \in DOMAIN file.body |-> IF i \in lost THEN before(i) ELSE file.body[i]]
<1>1. PICK b : b = Remains(lost, n) /\ b = SubSeq(left, 1, n)
  BY DEF Remains
<1> DEFINE D == Len(d)
           L == Len(f)
<1>2. D \in Nat /\ L \in Nat /\ n \in D..L
  OBVIOUS
<1> HIDE DEF D, L
<1>3. DOMAIN f = 1..L /\ (\A i \in 1..D : d[i] = f[i]) /\ (\A i \in 1..L : f[i] \in Cells)
  BY DEF Begins, D, L
<1>4. \A i \in lost : i > D
  <2> TAKE i \in lost
  <2>1. i \in 1..L /\ (i > D \/ d[i] # f[i])
    BY <1>3 DEF D, Unflushed
  <2> QED  BY <1>2, <1>3, <2>1
<1>5. Junk \in Cells
  <2>1. Marker \in Payloads
    BY DEF Payloads
  <2> QED  BY <2>1 DEF Junk, Cell, Cells, Record, Records
<1>6. PICK g : g = [i \in 1..L |-> IF i \in lost THEN Junk ELSE f[i]]
  OBVIOUS
<1>7. left = g
  <2>1. \A i \in 1..L : i \in lost => before(i) = Junk
    BY <1>2, <1>4 DEF D
  <2> QED  BY <1>3, <1>6, <2>1
<1> HIDE DEF left, before
<1>8. g \in Seq(Cells) /\ Len(g) = L
  <2>1. \A i \in 1..L : (IF i \in lost THEN Junk ELSE f[i]) \in Cells
    BY <1>3, <1>5
  <2> QED  BY <1>2, <1>6, <2>1
<1>9. b = SubSeq(g, 1, n)
  BY <1>1, <1>7
<1>10. b \in Seq(Cells) /\ Len(b) = n /\ \A i \in 1..n : b[i] = g[i]
  BY <1>2, <1>8, <1>9
<1>11. \A i \in 1..n : b[i] = (IF i \in lost THEN Junk ELSE f[i])
  <2>1. \A i \in 1..n : i \in 1..L
    BY <1>2
  <2> QED  BY <1>6, <1>10, <2>1
<1>12. \A i \in 1..D : b[i] = d[i]
  <2> TAKE i \in 1..D
  <2>1. i \in 1..n /\ ~(i > D)
    BY <1>2
  <2> QED  BY <1>3, <1>4, <1>11, <2>1
<1>13. D <= n /\ n <= L
  BY <1>2
<1> QED  BY <1>1, <1>10, <1>11, <1>12, <1>13 DEF Survives, D, L

LEMMA SurvivorsReplay ==
  ASSUME NEW f \in Seq(Cells), NEW d \in Seq(Cells), NEW b, Survives(f, d, b)
  PROVE  /\ ValidEnd(d) <= ValidEnd(b) /\ \A i \in 1..ValidEnd(d) : b[i] = d[i]
         /\ ValidEnd(b) <= ValidEnd(f) /\ \A i \in 1..ValidEnd(b) : f[i] = b[i]
<1>1. /\ b \in Seq(Cells) /\ Len(d) <= Len(b) /\ Len(b) <= Len(f)
      /\ \A i \in 1..Len(d) : b[i] = d[i]
      /\ \A i \in 1..Len(b) : b[i] = f[i] \/ b[i] = Junk
  BY DEF Survives
<1> DEFINE v == ValidEnd(d)
           w == ValidEnd(b)
           D == Len(d)
           L == Len(b)
           F == Len(f)
<1>2. D \in Nat /\ L \in Nat /\ F \in Nat /\ v \in 0..D /\ w \in 0..L
  BY <1>1, ValidEndIs
<1>3. \A i \in 1..v : b[i] = d[i]
  <2>1. \A i \in 1..v : i \in 1..D
    BY <1>2
  <2> QED  BY <1>1, <1>2, <2>1
<1>4. v <= w
  <2>1. v <= L
    BY <1>1, <1>2
  <2> QED  BY <1>1, <1>2, <1>3, <2>1, PrefixStays
<1>5. ASSUME NEW j \in 1..w PROVE f[j] = b[j]
  <2>1. j \in 1..L /\ Continues(b, j)
    BY <1>1, <1>2, ValidEndIs
  <2>2. PICK i \in 1..j :
          LET r == b[i].record
              c == CellsOf(r.payload)
          IN  /\ r \in Records /\ c \in Nat \ {0} /\ j < i + c /\ i + (c - 1) <= Len(b)
              /\ \A q \in 1..c : b[(i + q) - 1] = Cell(r, q)
              /\ b[j] = Cell(r, (j - i) + 1) /\ Proved(b, i)
              /\ i > 1 => b[i - 1].record.seq < r.seq
    BY <1>1, <1>2, <2>1, RecordAround
  <2>3. b[j].part = (j - i) + 1
    BY <2>2 DEF Cell
  <2>4. (j - i) + 1 # 0
    BY <2>1, <2>2
  <2>5. Junk.part = 0
    BY DEF Junk, Cell
  <2>6. b[j] # Junk
    BY <2>3, <2>4, <2>5
  <2> QED  BY <1>1, <1>2, <2>1, <2>6
<1>6. w <= ValidEnd(f)
  <2>1. w <= F /\ \A i \in 1..w : f[i] = b[i]
    BY <1>1, <1>2, <1>5
  <2> QED  BY <1>1, <1>2, <2>1, PrefixStays
<1> QED  BY <1>2, <1>3, <1>4, <1>5, <1>6

LEMMA PowerLossLeaves ==
  ASSUME JournalInv, PowerLoss
  PROVE  /\ file' \in Files /\ file'.body \in Seq(Cells) /\ durable' = file'
         /\ file'.header # "valid" => file'.body = <<>>
         /\ step' = "down" /\ writing' = <<>>
         /\ \A i \in DOMAIN file'.body : file'.body[i].record.epoch <= epoch
         /\ ValidEnd(durable.body) <= ValidEnd(file'.body)
         /\ \A i \in 1..ValidEnd(durable.body) : file'.body[i] = durable.body[i]
         /\ ValidEnd(file'.body) <= ValidEnd(file.body)
         /\ \A i \in 1..ValidEnd(file'.body) : file.body[i] = file'.body[i]
<1> USE DEF JournalInv
<1>1. PICK lost \in SUBSET Unflushed, n \in Len(durable.body)..Len(file.body),
           header \in IF durable.header = "valid" THEN {"valid"}
                      ELSE {durable.header, file.header, "torn"} :
        file' = [header |-> header,
                 body |-> IF header = "valid" THEN Remains(lost, n) ELSE <<>>]
  BY DEF PowerLoss
<1>2. durable' = file' /\ step' = "down" /\ writing' = <<>>
  BY DEF PowerLoss
<1>3. PICK f, d, b : f = file.body /\ d = durable.body /\ b = file'.body
  OBVIOUS
<1>4. /\ b = (IF header = "valid" THEN Remains(lost, n) ELSE <<>>) /\ file'.header = header
      /\ f \in Seq(Cells) /\ d \in Seq(Cells) /\ epoch \in Nat
      /\ file' = [header |-> header, body |-> b]
  BY <1>1, <1>3, Bodies
<1>5. header \in {"none", "torn", "valid"}
  BY <1>1, Bodies DEF Files
<1>6. Begins(d, f)
  BY <1>3 DEF OnDisk
<1>7. header # "valid" => d = <<>> /\ Len(d) = 0
  BY <1>1, <1>3 DEF OnDisk
<1>8. Survives(f, d, b)
  <2>1. CASE header = "valid"
    BY <1>1, <1>3, <1>4, <1>6, <2>1, RemainsAre
  <2>2. CASE header # "valid"
    <3>1. b = <<>> /\ d = <<>>
      BY <1>4, <1>7, <2>2
    <3>2. b \in Seq(Cells) /\ Len(b) = 0 /\ Len(d) = 0
      BY <3>1
    <3>3. Len(f) \in Nat /\ 1..0 = {}
      BY <1>4
    <3> QED  BY <3>2, <3>3 DEF Survives
  <2> QED  BY <2>1, <2>2
<1>9. \A i \in DOMAIN b : b[i].record.epoch <= epoch
  <2> TAKE i \in DOMAIN b
  <2>1. i \in 1..Len(f) /\ (b[i] = f[i] \/ b[i] = Junk)
    BY <1>4, <1>8 DEF Survives
  <2>2. Junk.record.epoch = 0
    BY DEF Junk, Cell, Record
  <2>3. f[i].record.epoch <= epoch
    BY <1>3, <1>4, <2>1 DEF Typed
  <2> QED  BY <1>4, <2>1, <2>2, <2>3
<1>10. /\ ValidEnd(d) <= ValidEnd(b) /\ \A i \in 1..ValidEnd(d) : b[i] = d[i]
       /\ ValidEnd(b) <= ValidEnd(f) /\ \A i \in 1..ValidEnd(b) : f[i] = b[i]
  BY <1>4, <1>8, SurvivorsReplay
<1>11. b \in Seq(Cells) /\ file' \in Files
  BY <1>4, <1>5, <1>8 DEF Survives, Files
<1>12. file'.header # "valid" => b = <<>>
  BY <1>4
<1> QED  BY <1>2, <1>3, <1>9, <1>10, <1>11, <1>12

LEMMA PowerLossKeeps ==
  ASSUME JournalInv, PowerLoss
  PROVE  JournalInv'
<1> USE DEF JournalInv
<1>1. PICK b : b = file'.body
  OBVIOUS
<1>2. /\ file' \in Files /\ b \in Seq(Cells) /\ durable' = file'
      /\ file'.header # "valid" => b = <<>>
      /\ step' = "down" /\ writing' = <<>> /\ ~Writing'
      /\ \A i \in DOMAIN b : b[i].record.epoch <= epoch
      /\ UNCHANGED <<temp, end, lastSeq, since, epoch, memory, failed, told, claimed>>
  BY <1>1, PowerLossLeaves DEF PowerLoss, writerVars, Writing
<1>3. Typed'
  <2>1. TypeOK'
    BY <1>2 DEF Typed, TypeOK, Steps
  <2> QED  BY <1>1, <1>2, <2>1 DEF Typed
<1>4. OnDisk'
  <2>1. UnsavedCells' = {}
    <3>1. ValidEnd(b) \in Nat
      BY <1>2, ValidEndIs
    <3> QED  BY <1>1, <1>2, <3>1 DEF UnsavedCells
  <2>2. Begins(b, b)
    BY <1>2 DEF Begins
  <2> QED  BY <1>1, <1>2, <2>1, <2>2 DEF OnDisk
<1> QED  BY <1>2, <1>3, <1>4 DEF Appending, Known, Compacting, ActsOnDurableState

LEMMA StuttersKeep ==
  ASSUME JournalInv, UNCHANGED vars
  PROVE  JournalInv'
BY DEF JournalInv, vars, fileVars, writerVars, Typed, TypeOK, Writing, OnDisk, UnsavedCells,
       Appending, Base, ActsOnDurableState, Known, Compacting, Compacted

LEMMA StepsKeep ==
  ASSUME JournalInv, [Next]_vars
  PROVE  JournalInv'
<1>1. CASE Create
  BY <1>1, CreateKeeps
<1>2. CASE ClaimEpoch
  BY <1>2, ClaimEpochKeeps
<1>3. CASE AppendCell
  BY <1>3, AppendCellKeeps
<1>4. CASE AppendDone
  BY <1>4, AppendDoneKeeps
<1>5. CASE Crash \/ Exit \/ AppendFails
  BY <1>5, StepsAside DEF Crash, Exit, AppendFails
<1>6. CASE \E s \in Snapshots : Persist(s)
  BY <1>6, PersistKeeps
<1>7. CASE Compact
  BY <1>7, CompactKeeps
<1>8. CASE CompactRecord
  BY <1>8, CompactRecordKeeps
<1>9. CASE CompactReady
  BY <1>9, CompactReadyKeeps
<1>10. CASE CompactFails \/ Replace \/ ReplaceFails
  BY <1>10, CompactionEndsKeeps
<1>11. CASE PowerLoss
  BY <1>11, PowerLossKeeps
<1>12. CASE UNCHANGED vars
  BY <1>12, StuttersKeep
<1> QED  BY <1>1, <1>2, <1>3, <1>4, <1>5, <1>6, <1>7, <1>8, <1>9, <1>10, <1>11, <1>12 DEF Next

(* The inductive invariant: whatever was flushed, cut, compacted or lost,   *)
(* the flushed part of the file begins the file, what is not flushed holds  *)
(* at most one snapshot, and a record is only written behind a file that is *)
(* whole (journal.cpp:834, 876, controller.cpp:375).                        *)
THEOREM JournalInvariant == Spec => []JournalInv
<1>1. Init => JournalInv
  BY Starts
<1>2. JournalInv /\ [Next]_vars => JournalInv'
  BY StepsKeep
<1> QED  BY <1>1, <1>2, PTL DEF Spec

(* The variables of the journal keep their types (journal.cpp).             *)
THEOREM JournalTypes == Spec => []TypeOK
<1>1. JournalInv => TypeOK
  BY DEF JournalInv, Typed
<1> QED  BY <1>1, JournalInvariant, PTL

(* While the storage works, the controller acts on the state a restart      *)
(* would adopt after a loss of power, and the writer stands where a replay  *)
(* would end: on every system, even one on which a compaction that fails    *)
(* replaces the journal (journal.cpp:864, 961).                             *)
THEOREM ActsOnWhatIsStored == Spec => []ActsOnDurableState
<1>1. JournalInv => ActsOnDurableState
  BY DEF JournalInv
<1> QED  BY <1>1, JournalInvariant, PTL

-----------------------------------------------------------------------------
(* What the next results rest on: a compaction that fails leaves the files  *)
(* as they were.  It does where an open file cannot be replaced; where it   *)
(* can, the error path puts a part of the journal in its place              *)
(* (journal.cpp:934) and neither of them holds.                             *)
FailedCompactionKeepsTheFile == [][CompactFails => UNCHANGED <<file, durable>>]_vars

(* A system that lets no open file be replaced keeps the journal intact.    *)
THEOREM OpenFilesAreKept ==
  ASSUME ReplacesOpenFiles = FALSE
  PROVE  Spec => FailedCompactionKeepsTheFile
<1>1. [Next]_vars => [CompactFails => UNCHANGED <<file, durable>>]_vars
  BY DEF CompactFails
<1> QED  BY <1>1, PTL DEF Spec, FailedCompactionKeepsTheFile

(* What is flushed is where replay finds it.                                *)
LEMMA FlushedIsReplayed ==
  ASSUME JournalInv
  PROVE  /\ ValidEnd(durable.body) <= ValidEnd(file.body)
         /\ \A i \in 1..ValidEnd(durable.body) : file.body[i] = durable.body[i]
<1> USE DEF JournalInv
<1>1. PICK d, f : d = durable.body /\ f = file.body
  OBVIOUS
<1>2. d \in Seq(Cells) /\ f \in Seq(Cells) /\ Begins(d, f)
  BY <1>1, Bodies DEF OnDisk
<1>3. ValidEnd(d) \in 0..Len(d) /\ Len(d) \in Nat /\ Len(f) \in Nat /\ Len(d) <= Len(f)
  BY <1>2, ValidEndIs DEF Begins
<1>4. \A i \in 1..ValidEnd(d) : i \in 1..Len(d)
  BY <1>3
<1>5. ValidEnd(d) <= Len(f) /\ \A i \in 1..ValidEnd(d) : f[i] = d[i]
  BY <1>2, <1>3, <1>4 DEF Begins
<1> QED  BY <1>1, <1>2, <1>5, PrefixStays

OnRecord(body, e) == \E i \in 1..ValidEnd(body) : e <= body[i].record.epoch

LEMMA StaysOnRecord ==
  ASSUME NEW a \in Seq(Cells), NEW b \in Seq(Cells), ValidEnd(a) <= ValidEnd(b),
         \A i \in 1..ValidEnd(a) : b[i] = a[i], NEW e, OnRecord(a, e)
  PROVE  OnRecord(b, e)
<1>1. PICK i \in 1..ValidEnd(a) : e <= a[i].record.epoch
  BY DEF OnRecord
<1>2. ValidEnd(a) \in Nat /\ ValidEnd(b) \in Nat
  BY ValidEndIs
<1>3. i \in 1..ValidEnd(b) /\ b[i] = a[i]
  BY <1>2
<1> QED  BY <1>1, <1>3 DEF OnRecord

LEMMA EpochsStay ==
  ASSUME JournalInv, EpochInv, UNCHANGED <<durable, epoch, claimed>>,
         step' = "claiming" => step = "claiming"
  PROVE  EpochInv'
BY DEF EpochInv

LEMMA EpochSteps ==
  ASSUME JournalInv, EpochInv, [Next]_vars, CompactFails => UNCHANGED <<file, durable>>
  PROVE  EpochInv'
<1>1. PICK d, f : d = durable.body /\ f = file.body
  OBVIOUS
<1>2. /\ d \in Seq(Cells) /\ f \in Seq(Cells) /\ temp \in Seq(Cells) /\ epoch \in Nat
      /\ claimed \subseteq 1..MaxEpoch /\ MaxEpoch \in Nat
      /\ ValidEnd(d) <= ValidEnd(f) /\ \A i \in 1..ValidEnd(d) : f[i] = d[i]
  BY <1>1, Bodies, FlushedIsReplayed, Sizes DEF JournalInv, Typed, TypeOK
<1>3. /\ \A e \in claimed : e <= epoch
      /\ step = "claiming" => \A e \in claimed : e < epoch
      /\ \A e \in claimed : OnRecord(d, e)
  BY <1>1 DEF EpochInv, OnRecord
<1>4. \A e \in claimed : OnRecord(f, e)
  BY <1>2, <1>3, StaysOnRecord
<1>5. ASSUME \A e \in claimed' : e <= epoch', \A e \in claimed' : OnRecord(durable'.body, e),
             step' = "claiming" => \A e \in claimed' : e < epoch'
      PROVE  EpochInv'
  BY <1>5 DEF EpochInv, OnRecord
<1>6. CASE ClaimEpoch
  <2>1. PICK b : b = durable'.body
    OBVIOUS
  <2>2. PICK g : g = file'.body
    OBVIOUS
  <2>3. /\ g \in Seq(Cells) /\ Len(g) = ValidEnd(f) /\ Whole(g)
        /\ \A i \in 1..Len(g) : g[i] = f[i]
        /\ durable' = file' \/ durable' = durable
        /\ epoch' \in 1..MaxEpoch
        /\ \A i \in 1..ValidEnd(f) : f[i].record.epoch < epoch'
    BY <1>1, <1>6, <2>2, ClaimFinds DEF Files
  <2>4. claimed' = claimed
    BY <1>6 DEF ClaimEpoch
  <2>5. \A e \in claimed : OnRecord(g, e)
    <3>1. ValidEnd(g) = ValidEnd(f)
      BY <2>3 DEF Whole
    <3>2. \A i \in 1..ValidEnd(f) : g[i] = f[i]
      BY <2>3
    <3> QED  BY <1>4, <3>1, <3>2 DEF OnRecord
  <2>6. \A e \in claimed : OnRecord(b, e)
    BY <1>1, <1>3, <2>1, <2>2, <2>3, <2>5
  <2>7. \A e \in claimed : e < epoch' /\ e <= epoch'
    <3> TAKE e \in claimed
    <3>1. PICK i \in 1..ValidEnd(f) : e <= f[i].record.epoch
      BY <1>4 DEF OnRecord
    <3>2. f[i] \in Cells
      BY <1>2, ValidEndIs
    <3>3. f[i].record.epoch \in Nat
      BY <3>2 DEF Cells, Records
    <3>4. f[i].record.epoch < epoch'
      BY <2>3
    <3>5. e \in Nat /\ epoch' \in Nat
      BY <1>2, <2>3
    <3> QED  BY <3>1, <3>3, <3>4, <3>5
  <2> QED  BY <1>5, <2>1, <2>4, <2>6, <2>7
<1>7. CASE AppendDone
  <2>1. /\ durable' = file /\ claimed' = claimed \cup {epoch} /\ epoch' = epoch
        /\ step' = "running" /\ Writing /\ writing.cells = CellsOf(writing.record.payload)
    BY <1>7 DEF AppendDone, Flushed, Written
  <2>2. OnRecord(f, epoch)
    <3>1. PICK r, c : r = writing.record /\ c = CellsOf(r.payload)
      OBVIOUS
    <3>2. /\ c \in Nat \ {0} /\ r.epoch = epoch /\ Len(f) = end + c /\ Whole(f) /\ end \in Nat
      BY <1>1, <2>1, <3>1, Appended, Bodies DEF JournalInv
    <3>3. f[end + c] = Cell(r, c)
      BY <1>1, <2>1, <3>1, <3>2 DEF JournalInv, Appending
    <3>4. end + c \in 1..ValidEnd(f) /\ f[end + c].record.epoch = epoch
      BY <3>2, <3>3 DEF Whole, Cell
    <3>5. epoch <= f[end + c].record.epoch
      BY <1>2, <3>4
    <3> QED  BY <3>4, <3>5 DEF OnRecord
  <2>3. \A e \in claimed' : e <= epoch' /\ OnRecord(f, e)
    BY <1>2, <1>3, <1>4, <2>1, <2>2
  <2> QED  BY <1>1, <1>5, <2>1, <2>3
<1>8. CASE Replace \/ ReplaceFails
  <2>1. /\ step = "replacing" /\ step' # "claiming" /\ UNCHANGED <<epoch, claimed>>
        /\ \/ UNCHANGED <<file, durable>>
           \/ file' = [header |-> "valid", body |-> temp] /\ durable' = file'
    BY <1>8 DEF Replace, ReplaceFails
  <2>2. CASE UNCHANGED <<file, durable>>
    BY <2>1, <2>2, EpochsStay
  <2>3. CASE file' = [header |-> "valid", body |-> temp] /\ durable' = file'
    <3>1. /\ durable'.body = temp /\ ValidEnd(temp) = Len(temp) /\ 1 <= Len(temp)
          /\ \A i \in DOMAIN temp : temp[i].record.epoch = epoch
      BY <2>1, <2>3, TakesOver
    <3>2. 1 \in 1..ValidEnd(temp) /\ temp[1].record.epoch = epoch
      BY <1>2, <3>1
    <3>3. \A e \in claimed : OnRecord(temp, e)
      BY <1>3, <3>2 DEF OnRecord
    <3> QED  BY <1>3, <1>5, <2>1, <3>1, <3>3
  <2> QED  BY <2>1, <2>2, <2>3
<1>9. CASE PowerLoss
  <2>1. PICK b : b = durable'.body
    OBVIOUS
  <2>2. /\ b \in Seq(Cells) /\ step' = "down" /\ ValidEnd(d) <= ValidEnd(b)
        /\ \A i \in 1..ValidEnd(d) : b[i] = d[i]
    BY <1>1, <1>9, <2>1, PowerLossLeaves
  <2>3. UNCHANGED <<epoch, claimed>>
    BY <1>9 DEF PowerLoss
  <2>4. \A e \in claimed : OnRecord(b, e)
    BY <1>2, <1>3, <2>2, StaysOnRecord
  <2> QED  BY <1>3, <1>5, <2>1, <2>2, <2>3, <2>4
<1>10. CASE CompactFails
  BY <1>10, EpochsStay DEF CompactFails
<1>11. CASE Create \/ AppendCell \/ AppendFails \/ Exit \/ Compact \/ CompactRecord
            \/ CompactReady \/ Crash \/ UNCHANGED vars
  BY <1>11, EpochsStay DEF Create, AppendCell, AppendFails, Exit, Compact, CompactRecord,
     CompactReady, Crash, vars, fileVars
<1>12. CASE \E s \in Snapshots : Persist(s)
  <2>1. PICK s \in Snapshots : Persist(s)
    BY <1>12
  <2>2. step' # "claiming"
    BY <2>1 DEF Persist
  <2>3. UNCHANGED <<durable, epoch, claimed>>
    BY <2>1 DEF Persist, fileVars
  <2> QED  BY <2>2, <2>3, EpochsStay
<1> QED  BY <1>6, <1>7, <1>8, <1>9, <1>10, <1>11, <1>12 DEF Next

(* Every epoch under which a controller came up stays on a record that is   *)
(* flushed, so none is given out twice, whatever is compacted, torn or lost *)
(* (controller.cpp:410).                                                    *)
THEOREM EpochsAreFresh == Spec /\ FailedCompactionKeepsTheFile => EpochsNeverReused
<1>1. Init => EpochInv
  BY DEF Init, EpochInv
<1>2. /\ JournalInv /\ EpochInv /\ [Next]_vars
      /\ [CompactFails => UNCHANGED <<file, durable>>]_vars
      => EpochInv'
  <2>1. UNCHANGED vars /\ CompactFails => UNCHANGED <<file, durable>>
    BY DEF vars, fileVars
  <2> QED  BY <2>1, EpochSteps
<1>3. Spec /\ FailedCompactionKeepsTheFile => []EpochInv
  BY <1>1, <1>2, JournalInvariant, PTL DEF Spec, FailedCompactionKeepsTheFile
<1>4. EpochInv => [step = "claiming" /\ step' = "running" => \A e \in claimed : e < epoch]_vars
  BY DEF EpochInv
<1> QED  BY <1>3, <1>4, PTL DEF EpochsNeverReused

-----------------------------------------------------------------------------
(* The journal is a durable register.                                       *)

Kept == Newest(durable.body)

(* What is not flushed may be adopted in place of what is.                  *)
LEMMA UnsavedIs ==
  ASSUME JournalInv
  PROVE  /\ Unsaved \subseteq Snapshots
         /\ Newest(file.body) = Nothing => Kept = Nothing
         /\ Unsaved = IF Newest(file.body) = Kept THEN {} ELSE {Newest(file.body)}
<1>1. durable.body \in Seq(Cells) /\ file.body \in Seq(Cells)
  BY Bodies DEF JournalInv
<1>2. \/ Newest(file.body) = Kept
      \/ \E i \in (ValidEnd(durable.body) + 1)..ValidEnd(file.body) :
           Holds(file.body, i) /\ Newest(file.body) = file.body[i].record.payload
  BY <1>1, FlushedIsReplayed, NewestGrows DEF Kept
<1>3. Newest(file.body) = Kept \/ Newest(file.body) \in Snapshots
  BY <1>2 DEF Holds
<1> QED  BY <1>3, Sizes DEF Unsaved, Kept

(* Steps of the register.                                                   *)
LEMMA Withdraws ==
  ASSUME Kept' = Kept, told' = told, Offered' \subseteq Offered
  PROVE  [Store!Next]_(Store!storeVars)
BY DEF Kept, Store!Next, Store!Withdraw

LEMMA Commits ==
  ASSUME NEW v \in Offered \cap Snapshots, Kept' = v, told' \in {told, v, Nothing},
         Offered' \subseteq Offered
  PROVE  [Store!Next]_(Store!storeVars)
BY DEF Kept, Store!Next, Store!Commit

LEMMA Offers ==
  ASSUME NEW v \in Snapshots, Kept' = Kept, told' = told, Offered' = Offered \cup {v}
  PROVE  [Store!Next]_(Store!storeVars)
BY DEF Kept, Store!Next, Store!Offer

(* Nothing is left to be saved once all that is in the file is flushed.     *)
LEMMA Settled ==
  ASSUME durable' = file', step' \notin {"appending", "compacting", "replacing"}
  PROVE  Offered' = {}
BY DEF Offered, Unsaved, Underway

LEMMA QuietSteps ==
  ASSUME JournalInv, durable' = durable, file'.body = file.body, told' = told,
         Underway' \subseteq Underway
  PROVE  [Store!Next]_(Store!storeVars)
<1>1. Kept' = Kept /\ Offered' \subseteq Offered
  BY DEF Kept, Offered, Unsaved
<1> QED  BY <1>1, Withdraws

LEMMA RefinedByPersist ==
  ASSUME JournalInv, NEW s \in Snapshots, Persist(s)
  PROVE  [Store!Next]_(Store!storeVars)
<1>1. step = "running" /\ memory' = s /\ UNCHANGED <<file, durable, told>>
  BY DEF Persist, fileVars
<1>2. CASE ~failed /\ Fits(s)
  <2>1. step' = "appending" /\ durable = file
    BY <1>1, <1>2 DEF Persist, JournalInv, ActsOnDurableState
  <2>2. Offered = {} /\ Offered' = {s} /\ Kept' = Kept
    BY <1>1, <2>1, Sizes DEF Offered, Unsaved, Underway, Kept
  <2> QED  BY <1>1, <2>2, Offers
<1>3. CASE ~(~failed /\ Fits(s))
  <2>1. step' = step
    BY <1>3 DEF Persist
  <2>2. Underway' \subseteq Underway
    BY <1>1, <2>1 DEF Underway
  <2> QED  BY <1>1, <2>2, QuietSteps
<1> QED  BY <1>2, <1>3

LEMMA RefinedByCompact ==
  ASSUME JournalInv, Compact
  PROVE  [Store!Next]_(Store!storeVars)
<1>1. step = "running" /\ step' = "compacting" /\ UNCHANGED <<file, durable, told, memory>>
  BY DEF Compact
<1>2. memory \in Snapshots \cup {Nothing}
  BY CompactedIs DEF JournalInv
<1>3. Kept' = Kept /\ Offered' = Offered \cup ({memory} \ {Nothing})
  BY <1>1 DEF Kept, Offered, Unsaved, Underway
<1>4. CASE memory \in Snapshots
  <2>1. Offered' = Offered \cup {memory}
    BY <1>3, <1>4, Sizes
  <2> QED  BY <1>1, <1>3, <1>4, <2>1, Offers
<1>5. CASE memory = Nothing
  <2>1. Offered' \subseteq Offered
    BY <1>3, <1>5
  <2> QED  BY <1>1, <1>3, <2>1, Withdraws
<1> QED  BY <1>2, <1>4, <1>5

LEMMA RefinedByAppendCell ==
  ASSUME JournalInv, AppendCell
  PROVE  [Store!Next]_(Store!storeVars)
<1>1. Writing /\ UNCHANGED <<durable, step, memory, told>>
  BY DEF AppendCell
<1>2. Kept' = Kept
  BY <1>1 DEF Kept
<1>3. CASE step = "claiming"
  <2>1. Newest(file'.body) = Newest(file.body)
    BY <1>3, AppendCellKeeps
  <2>2. Offered' \subseteq Offered
    BY <1>1, <2>1 DEF Offered, Unsaved, Underway
  <2> QED  BY <1>1, <1>2, <2>2, Withdraws
<1>4. CASE step = "appending"
  <2>1. Kept = Newest(Base)
    BY <1>1, <1>4 DEF JournalInv, Appending, Kept
  <2>2. Newest(file'.body) \in {Kept, memory}
    BY <1>4, <2>1, AppendCellKeeps
  <2>3. Offered' \subseteq {memory} \ {Nothing}
    BY <1>1, <1>4, <2>2 DEF Offered, Unsaved, Underway, Kept
  <2>4. {memory} \ {Nothing} \subseteq Offered
    BY <1>4 DEF Offered, Underway
  <2> QED  BY <1>1, <1>2, <2>3, <2>4, Withdraws
<1> QED  BY <1>1, <1>3, <1>4 DEF Writing

LEMMA RefinedByAppendDone ==
  ASSUME JournalInv, AppendDone
  PROVE  [Store!Next]_(Store!storeVars)
<1>1. /\ Writing /\ writing.cells = CellsOf(writing.record.payload) /\ step' = "running"
      /\ durable' = file /\ file' = file
      /\ told' = (IF step = "appending" THEN memory ELSE told)
  BY DEF AppendDone, Written, Flushed
<1>2. Offered' = {} /\ Kept' = Newest(file.body)
  <2>1. Kept' = Newest(file.body)
    BY <1>1 DEF Kept
  <2> QED  BY <1>1, <2>1, Settled
<1>3. CASE step = "claiming"
  <2>1. told' = told
    BY <1>1, <1>3
  <2>2. CASE Newest(file.body) = Kept
    BY <1>2, <2>1, <2>2, Withdraws
  <2>3. CASE Newest(file.body) # Kept
    <3>1. Newest(file.body) \in Offered \cap Snapshots
      BY <2>3, UnsavedIs, Sizes DEF Offered
    <3> QED  BY <1>2, <2>1, <3>1, Commits
  <2> QED  BY <2>2, <2>3
<1>4. CASE step = "appending"
  <2>1. writing.record.payload = memory /\ memory \in Snapshots
    BY <1>1, <1>4 DEF JournalInv, Appending, Record
  <2>2. Newest(file.body) = memory
    BY <1>1, <2>1, Appended
  <2>3. memory \in Offered \cap Snapshots
    BY <1>4, <2>1, Sizes DEF Offered, Underway
  <2> QED  BY <1>1, <1>2, <1>4, <2>2, <2>3, Commits
<1> QED  BY <1>1, <1>3, <1>4 DEF Writing

LEMMA RefinedByClaimEpoch ==
  ASSUME JournalInv, ClaimEpoch
  PROVE  [Store!Next]_(Store!storeVars)
<1>1. /\ step \in {"down", "creating"} /\ step' \in {"down", "claiming"} /\ told' = Nothing
      /\ Newest(file'.body) = Newest(file.body)
      /\ durable' = file' \/ (durable' = durable /\ file' = file)
  BY ClaimFinds
<1>2. CASE durable' = file'
  <2>1. Offered' = {} /\ Kept' = Newest(file.body)
    <3>1. Kept' = Newest(file.body)
      BY <1>1, <1>2 DEF Kept
    <3> QED  BY <1>1, <1>2, <3>1, Settled
  <2>2. CASE Newest(file.body) = Kept
    <3>1. Offered = {}
      BY <1>1, <2>2 DEF Offered, Unsaved, Underway, Kept
    <3> QED  BY <1>1, <2>1, <2>2, <3>1 DEF Kept, Store!Next, Store!Forget
  <2>3. CASE Newest(file.body) # Kept
    <3>1. Newest(file.body) \in Offered \cap Snapshots
      BY <2>3, UnsavedIs, Sizes DEF Offered
    <3> QED  BY <1>1, <2>1, <3>1, Commits
  <2> QED  BY <2>2, <2>3
<1>3. CASE durable' = durable /\ file' = file
  <2>1. Kept' = Kept /\ Offered' = Offered
    BY <1>1, <1>3 DEF Kept, Offered, Unsaved, Underway
  <2> QED  BY <1>1, <2>1 DEF Kept, Store!Next, Store!Forget
<1> QED  BY <1>1, <1>2, <1>3

LEMMA RefinedByReplace ==
  ASSUME JournalInv, Replace \/ ReplaceFails
  PROVE  [Store!Next]_(Store!storeVars)
<1>1. /\ step = "replacing" /\ step' \in {"running", "stopping"} /\ told' = told
      /\ \/ UNCHANGED <<file, durable>>
         \/ file' = [header |-> "valid", body |-> temp] /\ durable' = file'
  BY DEF Replace, ReplaceFails
<1>2. CASE UNCHANGED <<file, durable>>
  <2>1. Underway' \subseteq Underway
    BY <1>1 DEF Underway
  <2> QED  BY <1>1, <1>2, <2>1, QuietSteps
<1>3. CASE file' = [header |-> "valid", body |-> temp] /\ durable' = file'
  <2>1. Newest(temp) = memory
    BY <1>1, <1>3, TakesOver
  <2>2. Kept' = memory /\ Offered' = {}
    <3>1. Kept' = memory
      BY <1>3, <2>1 DEF Kept
    <3> QED  BY <1>1, <1>3, <3>1, Settled
  <2>3. memory \in Snapshots \cup {Nothing}
    BY CompactedIs DEF JournalInv
  <2>4. CASE memory = Nothing
    <3>1. Kept = Nothing
      BY <1>1, <2>4, UnsavedIs DEF JournalInv, Known
    <3> QED  BY <1>1, <2>2, <2>4, <3>1, Withdraws
  <2>5. CASE memory \in Snapshots
    <3>1. memory \in Offered \cap Snapshots
      BY <1>1, <2>5, Sizes DEF Offered, Underway
    <3> QED  BY <1>1, <2>2, <3>1, Commits
  <2> QED  BY <2>3, <2>4, <2>5
<1> QED  BY <1>1, <1>2, <1>3

LEMMA RefinedByPowerLoss ==
  ASSUME JournalInv, PowerLoss
  PROVE  [Store!Next]_(Store!storeVars)
<1>1. PICK d, f, b : d = durable.body /\ f = file.body /\ b = file'.body
  OBVIOUS
<1>2. /\ d \in Seq(Cells) /\ f \in Seq(Cells) /\ b \in Seq(Cells) /\ durable' = file'
      /\ step' = "down" /\ told' = told
      /\ ValidEnd(d) <= ValidEnd(b) /\ \A i \in 1..ValidEnd(d) : b[i] = d[i]
      /\ ValidEnd(b) <= ValidEnd(f) /\ \A i \in 1..ValidEnd(b) : f[i] = b[i]
      /\ ValidEnd(d) <= ValidEnd(f) /\ \A i \in 1..ValidEnd(d) : f[i] = d[i]
  BY <1>1, Bodies, PowerLossLeaves, FlushedIsReplayed DEF JournalInv, PowerLoss
<1>3. Newest(b) = Newest(d) \/ Newest(b) = Newest(f)
  <2> SUFFICES ASSUME Newest(b) # Newest(d) PROVE Newest(b) = Newest(f)
    OBVIOUS
  <2>1. PICK i \in (ValidEnd(d) + 1)..ValidEnd(b) :
          Holds(b, i) /\ Newest(b) = b[i].record.payload
    BY <1>2, NewestGrows
  <2>2. ValidEnd(d) \in Nat /\ ValidEnd(b) \in Nat /\ ValidEnd(f) \in Nat
    BY <1>2, ValidEndIs
  <2>3. i \in (ValidEnd(d) + 1)..ValidEnd(f) /\ f[i] = b[i]
    BY <1>2, <2>2
  <2>4. Holds(f, i) /\ Newest(b) = f[i].record.payload
    BY <2>1, <2>3 DEF Holds
  <2>5. PICK k \in (ValidEnd(d) + 1)..ValidEnd(f) :
          Holds(f, k) /\ Newest(f) = f[k].record.payload
    BY <1>2, <2>3, <2>4, NewestGrows
  <2>6. i \in UnsavedCells /\ k \in UnsavedCells
    BY <1>1, <2>3, <2>5 DEF UnsavedCells
  <2> QED  BY <1>1, <2>4, <2>5, <2>6 DEF JournalInv, OnDisk, Holds
<1>4. Offered' = {} /\ Kept' = Newest(b)
  <2>1. Kept' = Newest(b)
    BY <1>1, <1>2 DEF Kept
  <2> QED  BY <1>2, <2>1, Settled
<1>5. CASE Newest(b) = Kept
  BY <1>2, <1>4, <1>5, Withdraws
<1>6. CASE Newest(b) # Kept
  <2>1. Newest(b) = Newest(file.body)
    BY <1>1, <1>3, <1>6 DEF Kept
  <2>2. Newest(b) \in Offered \cap Snapshots
    BY <1>6, <2>1, UnsavedIs, Sizes DEF Offered
  <2> QED  BY <1>2, <1>4, <2>2, Commits
<1> QED  BY <1>5, <1>6

LEMMA RefinedByQuiet ==
  ASSUME JournalInv,
         \/ Create \/ AppendFails \/ Exit \/ CompactRecord \/ CompactReady \/ Crash
         \/ CompactFails /\ UNCHANGED <<file, durable>>
         \/ UNCHANGED vars
  PROVE  [Store!Next]_(Store!storeVars)
<1>1. durable' = durable /\ file'.body = file.body /\ told' = told
  <2>1. CASE Create
    BY <2>1, Bodies DEF JournalInv, Create, Files
  <2> QED  BY <2>1 DEF AppendFails, Exit, CompactRecord, CompactReady, Crash, CompactFails,
                       vars, fileVars
<1>2. Underway' \subseteq Underway
  BY DEF Underway, Create, AppendFails, Exit, CompactRecord, CompactReady, Crash, CompactFails,
         vars, fileVars
<1> QED  BY <1>1, <1>2, QuietSteps

LEMMA StoreSteps ==
  ASSUME JournalInv, [Next]_vars, CompactFails => UNCHANGED <<file, durable>>
  PROVE  [Store!Next]_(Store!storeVars)
<1>1. CASE \E s \in Snapshots : Persist(s)
  BY <1>1, RefinedByPersist
<1>2. CASE Compact
  BY <1>2, RefinedByCompact
<1>3. CASE AppendCell
  BY <1>3, RefinedByAppendCell
<1>4. CASE AppendDone
  BY <1>4, RefinedByAppendDone
<1>5. CASE ClaimEpoch
  BY <1>5, RefinedByClaimEpoch
<1>6. CASE Replace \/ ReplaceFails
  BY <1>6, RefinedByReplace
<1>7. CASE PowerLoss
  BY <1>7, RefinedByPowerLoss
<1>8. CASE \/ Create \/ AppendFails \/ Exit \/ CompactRecord \/ CompactReady \/ Crash
           \/ CompactFails \/ UNCHANGED vars
  BY <1>8, RefinedByQuiet
<1> QED  BY <1>1, <1>2, <1>3, <1>4, <1>5, <1>6, <1>7, <1>8 DEF Next

(* The journal implements a durable register: what a restart adopts only    *)
(* ever becomes a value the controller was storing, what was reported as    *)
(* persisted is stored, and crashes, torn tails, repairs, compactions and   *)
(* losses of power change nothing else (journal.cpp:289, 834, 876).         *)
THEOREM JournalIsADurableRegister == Spec /\ FailedCompactionKeepsTheFile => StoreSpec
<1>1. Init => Store!Init
  <2>1. ASSUME Init PROVE Store!Init
    <3>1. /\ file.body = <<>> /\ durable.body = <<>> /\ step = "down" /\ told = Nothing
      BY <2>1 DEF Init, Empty
    <3>2. Newest(<<>>) = Nothing
      BY EmptyReplay
    <3> QED  BY <3>1, <3>2 DEF Store!Init, Offered, Unsaved, Underway
  <2> QED  BY <2>1
<1>2. /\ JournalInv /\ [Next]_vars
      /\ [CompactFails => UNCHANGED <<file, durable>>]_vars
      => [Store!Next]_(Store!storeVars)
  <2>1. UNCHANGED vars /\ CompactFails => UNCHANGED <<file, durable>>
    BY DEF vars, fileVars
  <2> QED  BY <2>1, StoreSteps
<1> QED  BY <1>1, <1>2, JournalInvariant, PTL
         DEF Spec, FailedCompactionKeepsTheFile, StoreSpec, Store!Spec
=============================================================================
