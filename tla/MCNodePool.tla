------------------------------- MODULE MCNodePool ------------------------------
(* The editor's thread and one that drops and takes nodes beside it. *)
EXTENDS NodePool

CONSTANTS editor, reader

MCThreads == {editor, reader}

================================================================================
