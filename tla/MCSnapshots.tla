----------------------------- MODULE MCSnapshots -----------------------------
(* Snapshots of trees with a short text.  History is left out (MaxUndo is 0) *)
(* except for the roots the client retains.                                 *)
EXTENDS Snapshots, TLC

CONSTANTS a, b, lf

MCChar == {a, b, lf}

LineText == {<<b, lf>>}

NoText == {<< >>}

CharOrLine == {<<a>>, <<lf>>}

(* Snapshots are interchangeable. *)
SnapSymmetry == Permutations(SnapIds)

=============================================================================
