---------------------------- MODULE PersistentRoots ----------------------------
(***************************************************************************)
(* What RedBlackTree promises the piece tree: values that are sequences of *)
(* pieces.  An insertion or a removal gives a new value and leaves every   *)
(* value there was before as it is.                                        *)
(***************************************************************************)
EXTENDS PieceRoots

CONSTANTS
    Pieces,  \* the pieces that are inserted
    Names    \* the places that hold a RedBlackTree

VARIABLE roots  \* the value in each place

RootsInit == roots = [n \in Names |-> EmptyRoot]

Boundaries(root) == Starts(root) \cup {root.length}

(* What an operation can make of a value; it may also drop it. *)
Results(root) ==
    {root, EmptyRoot}
      \cup {InsertPiece(root, piece, at) : piece \in Pieces, at \in Boundaries(root)}
      \cup {RemovePiece(root, at) : at \in Starts(root)}

RootsNext ==
    \/ UNCHANGED roots
    \/ \E from, to \in Names :
          roots' \in {[roots EXCEPT ![to] = root] : root \in Results(roots[from])}

RootsSpec == RootsInit /\ [][RootsNext]_roots

=============================================================================
