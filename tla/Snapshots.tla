------------------------------ MODULE Snapshots ------------------------------
(***************************************************************************)
(* The read-only snapshots of a Tree: ReferenceSnapshot, which shares the  *)
(* buffers of the tree, and OwningSnapshot, which copies the modification  *)
(* buffer.  Both keep a root, the metadata of the document and a           *)
(* BufferCollection, and answer queries from those three.                  *)
(*                                                                         *)
(* The BufferCollection of a reference snapshot holds the pointers of the  *)
(* tree with the size and line start count of that moment: it reads bytes  *)
(* the tree may have written behind since, never past its own size.  How   *)
(* long the storage lives is the subject of SharedBuffers.                 *)
(***************************************************************************)
EXTENDS PieceTree

CONSTANT SnapIds  \* the snapshots clients hold at a time

NoSnap == [kind |-> "none"]

VARIABLES
    snaps,   \* the snapshots, by id
    alive    \* release_tree has not been called

snapVars == <<vars, snaps, alive>>

(* The first `count' line starts of a buffer. *)
FirstStarts(buffer, count) ==
    {s \in buffer.line_starts : Cardinality({t \in buffer.line_starts : t < s}) < count}

(* What a snapshot takes for the buffers of the document. *)
BuffersOf(snap) ==
    IF snap.kind = "owning" THEN snap.buffers
    ELSE [orig |-> m_buffers.orig,
          mod  |-> [text        |-> SubSeq(m_buffers.mod.text, 1, snap.size),
                    line_starts |-> FirstStarts(m_buffers.mod, snap.count)]]

SnapText(snap) == TextOf(BuffersOf(snap), snap.root)

SnapsInit == Init /\ snaps = [i \in SnapIds |-> NoSnap] /\ alive = TRUE

TreeStep == alive /\ Next /\ UNCHANGED <<snaps, alive>>

ReferenceOf(root) ==
    [kind  |-> "reference",
     root  |-> root,
     meta  |-> m_meta,
     size  |-> Len(m_buffers.mod.text),
     count |-> Cardinality(m_buffers.mod.line_starts)]

OwningOf(root) ==
    [kind |-> "owning", root |-> root, meta |-> m_meta, buffers |-> m_buffers]

TakeSnap(i, snap) ==
    /\ alive
    /\ built
    /\ snaps' = [snaps EXCEPT ![i] = snap]
    /\ UNCHANGED <<vars, alive>>

(* Tree::ref_snap, and assigning its result to a snapshot that exists. *)
ref_snap(i) == TakeSnap(i, ReferenceOf(m_root))

(* ReferenceSnapshot(tree, root) for a root the client retained: the      *)
(* metadata is that of the tree.                                          *)
ReferenceSnapshotOfRoot(i, h) ==
    heads[h] # EmptyRoot /\ TakeSnap(i, ReferenceOf(heads[h]))

owning_snap(i) == snaps[i] = NoSnap /\ TakeSnap(i, OwningOf(m_root))

(* OwningSnapshot(arena, tree, root) for a root the client retained. *)
OwningSnapshotOfRoot(i, h) ==
    /\ snaps[i] = NoSnap
    /\ heads[h] # EmptyRoot
    /\ TakeSnap(i, OwningOf(heads[h]))

(* Fault: the assignment leaves the old view of the buffers in place. *)
CopySnapKeepingView(i, j) ==
    /\ snaps[i].kind = "reference"
    /\ snaps[j].kind # "owning"
    /\ snaps' = [snaps EXCEPT ![j] = IF @ = NoSnap THEN snaps[i]
                                     ELSE [snaps[i] EXCEPT !.size = snaps[j].size]]
    /\ UNCHANGED <<vars, alive>>

(* The copy constructor and the copy assignment of ReferenceSnapshot. *)
CopySnap(i, j) ==
    /\ snaps[i].kind = "reference"
    /\ snaps[j].kind # "owning"
    /\ snaps' = [snaps EXCEPT ![j] = snaps[i]]
    /\ UNCHANGED <<vars, alive>>

ReleaseSnap(i) ==
    /\ snaps[i] # NoSnap
    /\ snaps' = [snaps EXCEPT ![i] = NoSnap]
    /\ UNCHANGED <<vars, alive>>

(* The destructor of Tree clears the history and drops the root.  Roots   *)
(* the client took with head() do not keep the storage alive, so it must  *)
(* have dropped them.  The bytes stay as long as a snapshot refers to     *)
(* them.                                                                  *)
release_tree ==
    /\ alive
    /\ built
    /\ alive' = FALSE
    /\ m_undo_stack' = << >>
    /\ m_redo_stack' = << >>
    /\ m_root' = EmptyRoot
    /\ heads' = [h \in Handles |-> EmptyRoot]
    /\ UNCHANGED <<built, m_buffers, m_meta, m_end_last_insert, snaps>>

SnapsNext ==
    \/ TreeStep
    \/ release_tree
    \/ \E i \in SnapIds :
          \/ ref_snap(i)
          \/ owning_snap(i)
          \/ ReleaseSnap(i)
          \/ \E j \in SnapIds : CopySnap(i, j)
          \/ \E h \in Handles : ReferenceSnapshotOfRoot(i, h) \/ OwningSnapshotOfRoot(i, h)

SnapsSpec == SnapsInit /\ [][SnapsNext]_snapVars

-----------------------------------------------------------------------------
Held == {i \in SnapIds : snaps[i] # NoSnap}

SnapsTypeOK ==
    /\ TypeOK
    /\ alive \in BOOLEAN
    /\ \A i \in Held : /\ snaps[i].kind \in {"reference", "owning"}
                       /\ IsRoot(snaps[i].root)
                       /\ snaps[i].meta \in BufferMeta

(* A snapshot that is held reads the same text before and after every     *)
(* step of the tree and of other clients, the release of the tree         *)
(* included (piece_tree.md: "Later edits do not change snapshot content"). *)
SnapshotTextStable ==
    [][\A i \in Held : snaps'[i] = snaps[i] => SnapText(snaps[i])' = SnapText(snaps[i])]_snapVars

(* Every piece of a snapshot lies inside the buffers that snapshot sees:  *)
(* the frozen size and line start count are enough for its root.          *)
SnapshotPiecesInView ==
    \A i \in Held : Tiled(snaps[i].root) /\ PiecesOK(BuffersOf(snaps[i]), snaps[i].root)

(* at() of a snapshot asserts that its offset is below the cached length, *)
(* and then that the descent found a node for it.                         *)
AtFindsNode ==
    \A i \in Held : \A offset \in 0..(snaps[i].meta.total_content_length - 1) :
        HasNode(snaps[i].root, offset)

=============================================================================
