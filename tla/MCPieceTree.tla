------------------------------ MODULE MCPieceTree ------------------------------
(* PieceTree with three characters, for the runs of its edits and history. *)
EXTENDS PieceTree

CONSTANTS a, b, lf

MCChar == {a, b, lf}

(* A piece that can be split in front of its line feed. *)
LineText == {<<b, lf>>}

(* A document that is typed from nothing. *)
NoText == {<< >>}

OneChar == {<<a>>}

(* Two insertions that can be told apart. *)
CharOrLine == {<<a>>, <<lf>>}

=============================================================================
