------------------------------ MODULE PieceRoots ------------------------------
(***************************************************************************)
(* The roots of the piece tree: immutable sequences of pieces keyed by the *)
(* document offset at which each piece starts.  This is the contract of    *)
(* RedBlackTree (insert, remove, find_node) without its balancing, and the *)
(* pure functions of Tree that compute a new root from an old one.         *)
(*                                                                         *)
(* A root is a record of                                                   *)
(*   pieces  a function from start offsets to pieces, and                  *)
(*   length, lf_count  the cached metadata of the whole tree, updated by    *)
(*           every insertion and removal as update_node_metadata does.     *)
(***************************************************************************)
EXTENDS CharBuffers

(* BufferIndex::ModBuf; the immutable buffers have the indices 1, 2, ... *)
ModBuf == 0

(* What a tree or a snapshot reads its characters from. *)
BufferCollection == [orig : Seq(CharBuffer), mod : CharBuffer]

buffer_at(buffers, index) ==
    IF index = ModBuf THEN buffers.mod ELSE buffers.orig[index]

Piece == [index : Nat, first : Cursor, last : Cursor, length : Nat, newline_count : Nat]

NoPieces == [s \in {} |-> s]

EmptyRoot == [pieces |-> NoPieces, length |-> 0, lf_count |-> 0]

Starts(root) == DOMAIN root.pieces

(* The document offset just behind the piece that starts at s. *)
End(root, s) == s + root.pieces[s].length

(* There is a node for the character at offset. *)
HasNode(root, offset) ==
    \E s \in Starts(root) : s <= offset /\ offset < End(root, s)

find_node(root, offset) ==
    CHOOSE position \in {[piece        |-> root.pieces[s],
                          start_offset |-> s,
                          remainder    |-> offset - s] : s \in Starts(root)} :
        0 <= position.remainder /\ position.remainder < position.piece.length

-----------------------------------------------------------------------------
(* RedBlackTree::insert and RedBlackTree::remove *)

(* A piece is put in front of the piece that starts at `at'; the pieces   *)
(* behind move by its length.                                             *)
InsertPiece(root, piece, at) ==
    LET before == {s \in Starts(root) : s < at}
        after  == {s + piece.length : s \in Starts(root) \ before}
    IN  [pieces   |-> [s \in before \cup {at} \cup after |->
                         IF s < at THEN root.pieces[s]
                         ELSE IF s = at THEN piece
                         ELSE root.pieces[s - piece.length]],
         length   |-> root.length + piece.length,
         lf_count |-> root.lf_count + piece.newline_count]

(* The piece that starts at `at' is taken out; the pieces behind it move  *)
(* back by its length.                                                    *)
RemovePiece(root, at) ==
    LET piece  == root.pieces[at]
        before == {s \in Starts(root) : s < at}
        after  == {s - piece.length : s \in Starts(root) \ (before \cup {at})}
    IN  [pieces   |-> [s \in before \cup after |->
                         IF s < at THEN root.pieces[s]
                         ELSE root.pieces[s + piece.length]],
         length   |-> root.length - piece.length,
         lf_count |-> root.lf_count - piece.newline_count]

IsRoot(root) ==
    /\ root.length \in Nat
    /\ root.lf_count \in Nat
    /\ Starts(root) \subseteq Nat
    /\ \A s \in Starts(root) : root.pieces[s] \in Piece

(* Every character of the document is in exactly one piece. *)
Tiled(root) ==
    /\ \A offset \in 0..(root.length - 1) : HasNode(root, offset)
    /\ \A s \in Starts(root) :
          /\ root.pieces[s].length > 0
          /\ End(root, s) <= root.length
          /\ \A t \in Starts(root) : s < t => End(root, s) <= t

-----------------------------------------------------------------------------
(* Pieces of a buffer *)

(* The piece of the bytes first_offset .. last_offset-1 of a buffer. *)
PieceOf(buffers, index, first_offset, last_offset) ==
    LET buffer == buffer_at(buffers, index)
    IN  [index         |-> index,
         first         |-> cursor_from_offset(buffer, first_offset),
         last          |-> cursor_from_offset(buffer, last_offset),
         length        |-> last_offset - first_offset,
         newline_count |-> lf_count_in_range(buffer, first_offset, last_offset)]

(* Fault: every part of a piece begins where the piece begins. *)
piece_range_from_base(buffers, piece, first, last) ==
    LET base == cursor_offset(buffer_at(buffers, piece.index), piece.first)
    IN  PieceOf(buffers, piece.index, base, base + (last - first))

piece_range(buffers, piece, first, last) ==
    LET base == cursor_offset(buffer_at(buffers, piece.index), piece.first)
    IN  PieceOf(buffers, piece.index, base + first, base + last)

(* Fault: the bytes are written one place too early. *)
AppendTextOverlapping(buffers, text) ==
    LET old == buffers.mod.text
    IN  IF old = << >> THEN [buffers EXCEPT !.mod = Extend(@, text)]
        ELSE [buffers EXCEPT !.mod = [Extend(@, text) EXCEPT
                !.text = SubSeq(old, 1, Len(old) - 1) \o text \o <<text[Len(text)]>>]]

(* What build_piece appends to the modification buffer ... *)
AppendText(buffers, text) == [buffers EXCEPT !.mod = Extend(@, text)]

(* ... and the piece it returns, which names the appended bytes. *)
build_piece(buffers, text) ==
    LET first == Len(buffers.mod.text)
        now   == AppendText(buffers, text)
    IN  [index         |-> ModBuf,
         first         |-> cursor_from_offset(now.mod, first),
         last          |-> cursor_from_offset(now.mod, first + Len(text)),
         length        |-> Len(text),
         newline_count |-> Cardinality({k \in 1..Len(text) : text[k] = LF})]

(* The buffer a piece names exists, and for some range of it the piece is *)
(* what PieceOf returns.                                                  *)
PieceOK(buffers, piece) ==
    /\ piece.index \in 0..Len(buffers.orig)
    /\ \E first \in 0..Len(buffer_at(buffers, piece.index).text) :
          /\ first + piece.length <= Len(buffer_at(buffers, piece.index).text)
          /\ piece = PieceOf(buffers, piece.index, first, first + piece.length)

PiecesOK(buffers, root) ==
    \A s \in Starts(root) : PieceOK(buffers, root.pieces[s])

-----------------------------------------------------------------------------
(* The edits of a root *)

(* The piece that ends at insert_at is the last thing written to the      *)
(* modification buffer: the new piece continues it.                       *)
Continues(root, piece, insert_at) ==
    /\ insert_at > 0
    /\ LET previous == find_node(root, insert_at - 1)
       IN  /\ previous.start_offset + previous.piece.length = insert_at
           /\ previous.piece.index = ModBuf
           /\ previous.piece.last = piece.first

(* Fault: the combined piece keeps the end of its left part. *)
CombinedKeepsEnd(left, right) ==
    [left EXCEPT !.length = @ + right.length, !.newline_count = @ + right.newline_count]

(* Fault: the combined piece keeps the count of its left part. *)
CombinedKeepsCount(left, right) ==
    [left EXCEPT !.last = right.last, !.length = @ + right.length]

(* The piece of two adjacent ranges of a buffer. *)
Combined(left, right) ==
    [index         |-> left.index,
     first         |-> left.first,
     last          |-> right.last,
     length        |-> left.length + right.length,
     newline_count |-> left.newline_count + right.newline_count]

Coalesce(root, piece, insert_at) ==
    LET previous == find_node(root, insert_at - 1)
    IN  InsertPiece(RemovePiece(root, previous.start_offset),
                    Combined(previous.piece, piece), previous.start_offset)

(* insert_at is inside a piece: it becomes a left and a right part with   *)
(* the new piece between them.                                            *)
SplitAround(buffers, root, piece, insert_at) ==
    LET position == find_node(root, insert_at)
        start    == position.start_offset
        left     == piece_range(buffers, position.piece, 0, position.remainder)
        right    == piece_range(buffers, position.piece,
                                position.remainder, position.piece.length)
        removed  == RemovePiece(root, start)
        withLeft == InsertPiece(removed, left, start)
        withNew  == InsertPiece(withLeft, piece, start + left.length)
    IN  InsertPiece(withNew, right, start + left.length + piece.length)

(* buffers already hold the text of the piece. *)
internal_insert(buffers, root, piece, insert_at) ==
    IF Continues(root, piece, insert_at)
    THEN Coalesce(root, piece, insert_at)
    ELSE IF \/ insert_at = root.length
            \/ find_node(root, insert_at).remainder = 0
    THEN InsertPiece(root, piece, insert_at)
    ELSE SplitAround(buffers, root, piece, insert_at)

(* Fault: empty parts go back, too. *)
PutBackAlways(root, part, at) == InsertPiece(root, part, at)

(* A part that is left over goes back, unless it is empty. *)
PutBack(root, part, at) ==
    IF part.length # 0 THEN InsertPiece(root, part, at) ELSE root

(* One turn of the loop of internal_remove: what it takes of the piece at *)
(* offset, and what it puts back of that piece.                           *)
RemoveTurn(buffers, root, offset, remaining) ==
    LET position   == find_node(root, offset)
        piece      == position.piece
        first      == position.remainder
        available  == piece.length - first
        remove_now == IF remaining < available THEN remaining ELSE available
        left       == piece_range(buffers, piece, 0, first)
        right      == piece_range(buffers, piece, first + remove_now, piece.length)
        removed    == RemovePiece(root, position.start_offset)
        withLeft   == PutBack(removed, left, position.start_offset)
    IN  [root      |-> PutBack(withLeft, right, position.start_offset + left.length),
         remaining |-> remaining - remove_now]

(* The loop after k turns; it takes at least one character per turn. *)
RemoveLoop(buffers, root, offset, count) ==
    LET loop[k \in 0..count] ==
          IF k = 0
          THEN [root |-> root, remaining |-> count]
          ELSE LET now == loop[k - 1]
               IN  IF now.remaining > 0
                   THEN RemoveTurn(buffers, now.root, offset, now.remaining)
                   ELSE now
    IN  loop

internal_remove(buffers, root, offset, count) ==
    RemoveLoop(buffers, root, offset, count)[count].root

-----------------------------------------------------------------------------
(* The characters of a root *)

char_at_tree(buffers, root, offset) ==
    LET position == find_node(root, offset)
        buffer   == buffer_at(buffers, position.piece.index)
    IN  buffer.text[cursor_offset(buffer, position.piece.first)
                      + position.remainder + 1]

TextOf(buffers, root) ==
    [k \in 1..root.length |-> char_at_tree(buffers, root, k - 1)]

=============================================================================
