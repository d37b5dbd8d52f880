------------------------------- MODULE MCJournal -------------------------------
(* A small journal: one snapshot fits a cell and one takes two, so records   *)
(* tear and overwrite each other's ends.                                     *)
EXTENDS JournalSafety, TLC

CONSTANTS s1, s2, nothing

MCSnapshots == {s1, s2}
MCSize == (s1 :> 1) @@ (s2 :> 2)
=============================================================================
