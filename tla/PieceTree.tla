------------------------------- MODULE PieceTree -------------------------------
(***************************************************************************)
(* PieceTree::Tree with its builder (src/src/piece_tree/piece_tree.cpp):   *)
(* the document as a persistent root over append-only buffers, the history *)
(* of roots, and the roots its clients retain.                             *)
(*                                                                         *)
(* A Tree has no lock: one thread owns it, so each of its operations is    *)
(* one action.                                                             *)
(***************************************************************************)
EXTENDS PieceRoots

CONSTANTS
    InitialTexts,  \* the texts the builder accepts
    Texts,       \* the texts the clients insert
    Handles,     \* the retained roots (RedBlackTree values) of the clients
    MaxBuffers,  \* bound: immutable buffers a builder accepts
    MaxMod,      \* bound: characters ever appended to the modification buffer
    MaxUndo,     \* bound: entries of the undo stack
    MaxOpOffset  \* bound: cursor offsets the clients pass with undo, redo and commit

ASSUME TextsAssumption == Texts \subseteq Text /\ InitialTexts \subseteq Text
ASSUME BoundsAssumption ==
    /\ MaxBuffers \in Nat
    /\ MaxMod \in Nat
    /\ MaxUndo \in Nat
    /\ MaxOpOffset \in Nat

(* CharOffset::Sentinel, which no document offset equals. *)
Sentinel == -1

VARIABLES
    built,               \* tree_builder_finish has returned the tree
    m_buffers,           \* orig_buffers and mod_buffer
    m_root,
    m_meta,              \* the cached length and line feed count
    m_undo_stack,        \* the entry to be popped next comes first
    m_redo_stack,
    m_end_last_insert,
    heads                \* the roots the clients took with head()

vars == <<built, m_buffers, m_root, m_meta, m_undo_stack, m_redo_stack,
          m_end_last_insert, heads>>

BufferMeta == [lf_count : Nat, total_content_length : Nat]

MetaOf(root) == [lf_count |-> root.lf_count, total_content_length |-> root.length]

length == m_meta.total_content_length

Entry(root, offset) == [root |-> root, op_offset |-> offset]

Init ==
    /\ built = FALSE
    /\ m_buffers = [orig |-> << >>, mod |-> NewBuffer(<< >>)]
    /\ m_root = EmptyRoot
    /\ m_meta = MetaOf(EmptyRoot)
    /\ m_undo_stack = << >>
    /\ m_redo_stack = << >>
    /\ m_end_last_insert = Sentinel
    /\ heads = [h \in Handles |-> EmptyRoot]

set_root(root) ==
    /\ m_root' = root
    /\ m_meta' = MetaOf(root)

-----------------------------------------------------------------------------
(* The builder *)

(* A turn of the loop of build_tree puts the piece that is a whole buffer *)
(* behind those of the buffers before it.  Empty buffers get no piece.    *)
build_tree(root, buffers, index) ==
    LET buffer == buffers.orig[index]
        piece  == [index         |-> index,
                   first         |-> [line |-> 0, column |-> 0],
                   last          |-> cursor_from_offset(buffer, Len(buffer.text)),
                   length        |-> Len(buffer.text),
                   newline_count |-> Cardinality(buffer.line_starts) - 1]
    IN  IF buffer.text = << >> THEN root ELSE InsertPiece(root, piece, root.length)

(* A text is copied into a new immutable buffer.  The turn of build_tree  *)
(* for the buffer is taken here: nothing can happen to a tree between the *)
(* turns of that loop.                                                    *)
tree_builder_accept(text) ==
    /\ ~built
    /\ Len(m_buffers.orig) < MaxBuffers
    /\ m_buffers' = [m_buffers EXCEPT !.orig = Append(@, NewBuffer(text))]
    /\ m_root' = build_tree(m_root, m_buffers', Len(m_buffers'.orig))
    /\ UNCHANGED <<built, m_meta, m_undo_stack, m_redo_stack, m_end_last_insert, heads>>

tree_builder_finish ==
    /\ ~built
    /\ built' = TRUE
    /\ m_meta' = MetaOf(m_root)
    /\ UNCHANGED <<m_buffers, m_root, m_undo_stack, m_redo_stack, m_end_last_insert, heads>>

-----------------------------------------------------------------------------
(* Editing *)

append_undo(old_root, op_offset) ==
    /\ Len(m_undo_stack) < MaxUndo
    /\ m_undo_stack' = <<Entry(old_root, op_offset)>> \o m_undo_stack

(* An empty text and an offset behind the end return early. *)
insert(offset, text, suppress_history) ==
    /\ built
    /\ text # << >>
    /\ offset <= length
    /\ Len(m_buffers.mod.text) + Len(text) <= MaxMod
    /\ IF suppress_history
       THEN UNCHANGED <<m_undo_stack, m_redo_stack>>
       ELSE /\ m_redo_stack' = << >>
            /\ IF offset = m_end_last_insert
               THEN UNCHANGED m_undo_stack
               ELSE append_undo(m_root, offset)
    /\ m_buffers' = AppendText(m_buffers, text)
    /\ set_root(internal_insert(m_buffers', m_root, build_piece(m_buffers, text), offset))
    /\ m_end_last_insert' = offset + Len(text)
    /\ UNCHANGED <<built, heads>>

(* Zero characters and a range behind the end return early. *)
remove(offset, count, suppress_history) ==
    /\ built
    /\ count > 0
    /\ offset + count <= length
    /\ IF suppress_history
       THEN UNCHANGED <<m_undo_stack, m_redo_stack>>
       ELSE /\ m_redo_stack' = << >>
            /\ append_undo(m_root, offset)
    /\ set_root(internal_remove(m_buffers, m_root, offset, count))
    /\ m_end_last_insert' = Sentinel
    /\ UNCHANGED <<built, m_buffers, heads>>

-----------------------------------------------------------------------------
(* History *)

commit_head(offset) ==
    /\ built
    /\ m_redo_stack' = << >>
    /\ append_undo(m_root, offset)
    /\ m_end_last_insert' = Sentinel
    /\ UNCHANGED <<built, m_buffers, m_root, m_meta, heads>>

(* Fault: an insertion may continue one that was undone. *)
try_undo_keeping_end(op_offset) ==
    /\ built
    /\ m_undo_stack # << >>
    /\ m_redo_stack' = <<Entry(m_root, op_offset)>> \o m_redo_stack
    /\ m_undo_stack' = Tail(m_undo_stack)
    /\ set_root(Head(m_undo_stack).root)
    /\ UNCHANGED <<built, m_buffers, m_end_last_insert, heads>>

try_undo(op_offset) ==
    /\ built
    /\ m_undo_stack # << >>
    /\ m_redo_stack' = <<Entry(m_root, op_offset)>> \o m_redo_stack
    /\ m_undo_stack' = Tail(m_undo_stack)
    /\ set_root(Head(m_undo_stack).root)
    /\ m_end_last_insert' = Sentinel
    /\ UNCHANGED <<built, m_buffers, heads>>

try_redo(op_offset) ==
    /\ built
    /\ m_redo_stack # << >>
    /\ m_undo_stack' = <<Entry(m_root, op_offset)>> \o m_undo_stack
    /\ m_redo_stack' = Tail(m_redo_stack)
    /\ set_root(Head(m_redo_stack).root)
    /\ m_end_last_insert' = Sentinel
    /\ UNCHANGED <<built, m_buffers, heads>>

-----------------------------------------------------------------------------
(* Retained roots *)

head(h) ==
    /\ built
    /\ heads' = [heads EXCEPT ![h] = m_root]
    /\ UNCHANGED <<built, m_buffers, m_root, m_meta, m_undo_stack, m_redo_stack,
                   m_end_last_insert>>

snap_to(h) ==
    /\ built
    /\ set_root(heads[h])
    /\ m_end_last_insert' = Sentinel
    /\ UNCHANGED <<built, m_buffers, m_undo_stack, m_redo_stack, heads>>

Next ==
    \/ \E text \in InitialTexts : tree_builder_accept(text)
    \/ tree_builder_finish
    \/ \E offset \in 0..length :
          \/ \E text \in Texts, suppress \in BOOLEAN : insert(offset, text, suppress)
          \/ \E count \in 1..(length - offset), suppress \in BOOLEAN :
                remove(offset, count, suppress)
    \/ \E offset \in 0..length :
          /\ offset <= MaxOpOffset
          /\ commit_head(offset) \/ try_undo(offset) \/ try_redo(offset)
    \/ \E h \in Handles : head(h) \/ snap_to(h)

Spec == Init /\ [][Next]_vars

-----------------------------------------------------------------------------
(* The roots something holds a reference to. *)
RetainedRoots ==
    {m_root} \cup {heads[h] : h \in Handles}
             \cup {m_undo_stack[i].root : i \in DOMAIN m_undo_stack}
             \cup {m_redo_stack[i].root : i \in DOMAIN m_redo_stack}

TypeOK ==
    /\ built \in BOOLEAN
    /\ m_buffers \in BufferCollection
    /\ m_meta \in BufferMeta
    /\ m_end_last_insert \in Nat \cup {Sentinel}
    /\ \A entries \in {m_undo_stack, m_redo_stack} :
          \A i \in DOMAIN entries : entries[i].op_offset \in Nat
    /\ \A root \in RetainedRoots : IsRoot(root)

(* The line starts that every insertion appends to the modification       *)
(* buffer are those one would compute from its whole text anew.           *)
LineStartsExact ==
    \A buffer \in {m_buffers.mod} \cup {m_buffers.orig[i] : i \in DOMAIN m_buffers.orig} :
        buffer.line_starts = calculate_line_starts(buffer.text)

(* The pieces of every root that is still reachable tile its document:    *)
(* find_node finds exactly one piece for each offset, whatever was split, *)
(* coalesced and removed before, so node_at(...).node is never null where *)
(* insert and remove dereference it.                                      *)
RootsTiled == \A root \in RetainedRoots : Tiled(root)

(* Every piece names a range inside its buffer by the cursors             *)
(* cursor_from_offset gives for its ends, and counts that range's line    *)
(* feeds, although the modification buffer has grown since.               *)
PiecesInBuffers == \A root \in RetainedRoots : PiecesOK(m_buffers, root)

(* The cached metadata of every reachable root counts the characters and  *)
(* the line feeds of its text, and m_meta is the metadata of m_root.      *)
MetadataExact ==
    /\ \A root \in RetainedRoots :
          root.lf_count =
            Cardinality({k \in 1..root.length : TextOf(m_buffers, root)[k] = LF})
    /\ built => m_meta = MetaOf(m_root)

(* An offset that undo or redo will return is inside the document it      *)
(* restores, if the caller's offsets were inside the current one.         *)
HistoryOffsetsInBounds ==
    \A entries \in {m_undo_stack, m_redo_stack} :
        \A i \in DOMAIN entries : entries[i].op_offset <= entries[i].root.length

(* "Edits record persistent roots" (piece_tree.md:304): after an edit     *)
(* that does not suppress the history there is something to undo.         *)
RecordedEditLeavesUndo ==
    [][(\E offset \in 0..length, text \in Texts : insert(offset, text, FALSE))
         => m_undo_stack' # << >>]_vars

(* No operation changes what a root reads that was retained before it:    *)
(* the buffers only grow behind everything that pieces name.              *)
RetainedTextStable ==
    [][\A root \in RetainedRoots :
          TextOf(m_buffers', root) = TextOf(m_buffers, root)]_vars

-----------------------------------------------------------------------------
(* The document and its history that this tree stands for. *)

(* The texts of the roots, as a function: TLC evaluates a root once when it *)
(* applies a function to it.                                              *)
DocText == [root \in RetainedRoots |-> TextOf(m_buffers, root)]

DocTimeline ==
    LET past == Len(m_undo_stack)
    IN  [i \in 1..(past + 1 + Len(m_redo_stack)) |->
           DocText[IF i <= past THEN m_undo_stack[past + 1 - i].root
                   ELSE IF i = past + 1 THEN m_root
                   ELSE m_redo_stack[i - past - 1].root]]

DocMarks ==
    LET past == Len(m_undo_stack)
    IN  [i \in 1..(past + 1 + Len(m_redo_stack)) |->
           IF i <= past THEN m_undo_stack[past + 1 - i].op_offset
           ELSE IF i = past + 1 THEN Sentinel
           ELSE m_redo_stack[i - past - 1].op_offset]

Document == INSTANCE TextDocument WITH
    Texts     <- Texts \cup InitialTexts,
    NoOffset  <- Sentinel,
    open      <- built,
    timeline  <- DocTimeline,
    now       <- Len(m_undo_stack) + 1,
    marks     <- DocMarks,
    insertEnd <- m_end_last_insert,
    kept      <- [h \in Handles |-> DocText[heads[h]]]

(* The tree implements a text with a linear history: pieces, coalescing,  *)
(* splitting, the removal loop and the two stacks are invisible.          *)
ImplementsDocument == Document!DocSpec

=============================================================================
