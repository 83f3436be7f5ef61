---------------------------- MODULE MCTreeQueries ----------------------------
(* TreeQueries on every document that a few edits, undo and redo make.     *)
EXTENDS TreeQueries

CONSTANTS a, cr, lf

MCChar == {a, cr, lf}

(* Two of them make a line ending of two buffers; an empty buffer gets no  *)
(* piece.                                                                 *)
EndingParts == {<<a, cr>>, <<lf>>, << >>}

LineEndings == {<<lf>>, <<cr>>, <<a, lf>>}

=============================================================================
