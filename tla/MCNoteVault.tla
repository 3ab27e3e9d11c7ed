---------------------------- MODULE MCNoteVault ----------------------------
(* NoteVault on small sets of model values. *)
EXTENDS NoteVault, TLC

\* The calls are interchangeable, and so are the notes that are there at first.
Symmetry == Permutations(Task) \cup Permutations(Initial)

\* A run with a crash has one call less, and so has one that makes a note or has a second
\* edit; one that makes a note has one edit at most.  Where a race has crossed notes the
\* trash is all there is to check.
Made == DOMAIN typed \ Initial
Bounded ==
  /\ ops + crashes + Cardinality(Made) <= MaxOps
  /\ ops + edits <= MaxOps + 1
  /\ Made # {} => edits <= 1
  /\ crossed => ~rushed /\ Busy(OnTrash) # {}
=============================================================================
