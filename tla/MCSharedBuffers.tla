---------------------------- MODULE MCSharedBuffers ----------------------------
(* A tree and three snapshots. *)
EXTENDS SharedBuffers

CONSTANTS s1, s2, s3, tree

MCHolders == {tree, s1, s2, s3}

=============================================================================
