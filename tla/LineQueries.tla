----------------------------- MODULE LineQueries -----------------------------
(***************************************************************************)
(* The line queries of trees and snapshots: line_at, the three line        *)
(* ranges and the line contents, computed from the cached line feed counts *)
(* of the pieces and the line starts of their buffers, beside reference    *)
(* definitions on the plain text.                                          *)
(***************************************************************************)
EXTENDS PieceRoots, FiniteSetsExt

CONSTANT CR  \* the carriage return, which the CRLF queries look at

ASSUME CRAssumption == CR # LF

(* The line feeds in the pieces before the piece at s: the sum of the     *)
(* left_subtree_lf_count on the way down to its node.                     *)
LineFeedsBefore(root, s) ==
    MapThenSumSet(LAMBDA t : root.pieces[t].newline_count,
                  {t \in Starts(root) : t < s})

(* Where line number `line' starts: behind its line feed, in the piece    *)
(* that holds it; behind the last character if there is no such piece.    *)
line_offset(buffers, root, line) ==
    LET holds(s) == /\ LineFeedsBefore(root, s) < line
                    /\ line <= LineFeedsBefore(root, s) + root.pieces[s].newline_count
    IN  IF line = 0 THEN 0
        ELSE IF \E s \in Starts(root) : holds(s)
        THEN LET s           == CHOOSE t \in Starts(root) : holds(t)
                 piece       == root.pieces[s]
                 buffer      == buffer_at(buffers, piece.index)
                 piece_first == cursor_offset(buffer, piece.first)
                 target      == line - LineFeedsBefore(root, s)
             IN  s + LineStart(buffer, line_start_index(buffer, piece_first) + target)
                   - piece_first
        ELSE root.length

(* The walk down the tree stops at a piece that holds the offset or ends  *)
(* there; at the seam of two pieces it is the shape of the tree that      *)
(* decides which.  These are the answers it can give.                     *)
line_at_offset(buffers, root, offset) ==
    IF Starts(root) = {} THEN {0}
    ELSE {LET piece  == root.pieces[s]
              buffer == buffer_at(buffers, piece.index)
              first  == cursor_offset(buffer, piece.first)
          IN  LineFeedsBefore(root, s)
                + lf_count_in_range(buffer, first, first + (offset - s)) :
            s \in {t \in Starts(root) : t <= offset /\ offset <= End(root, t)}}

(* Fault: a line that is only a line ending keeps its carriage return. *)
tree_line_range_keeping_cr(buffers, lf_count, root, line, strip_cr, include_newline) ==
    LET first == line_offset(buffers, root, line)
        next  == line_offset(buffers, root, line + 1)
        last  == IF line >= lf_count THEN root.length
                 ELSE IF include_newline THEN next
                 ELSE IF /\ strip_cr
                         /\ next - 2 > first
                         /\ char_at_tree(buffers, root, next - 2) = CR
                 THEN next - 2
                 ELSE next - 1
    IN  [first |-> first, last |-> last]

(* lf_count is that of the cached metadata. *)
tree_line_range(buffers, lf_count, root, line, strip_cr, include_newline) ==
    LET first == line_offset(buffers, root, line)
        next  == line_offset(buffers, root, line + 1)
        last  == IF line >= lf_count THEN root.length
                 ELSE IF include_newline THEN next
                 ELSE IF /\ strip_cr
                         /\ next - 1 > first
                         /\ char_at_tree(buffers, root, next - 2) = CR
                 THEN next - 2
                 ELSE next - 1
    IN  [first |-> first, last |-> last]

get_line_range(buffers, lf_count, root, line) ==
    tree_line_range(buffers, lf_count, root, line, FALSE, FALSE)

get_line_range_crlf(buffers, lf_count, root, line) ==
    tree_line_range(buffers, lf_count, root, line, TRUE, FALSE)

get_line_range_with_newline(buffers, lf_count, root, line) ==
    tree_line_range(buffers, lf_count, root, line, FALSE, TRUE)

(* The characters one by one, each found by a descent of its own. *)
assemble_tree_range(buffers, root, range) ==
    [k \in 1..(range.last - range.first) |-> char_at_tree(buffers, root, range.first + k - 1)]

get_line_content(buffers, lf_count, root, line) ==
    assemble_tree_range(buffers, root, get_line_range(buffers, lf_count, root, line))

(* The content without its line ending, and whether that ending is a line *)
(* feed without a carriage return.                                        *)
get_line_content_crlf(buffers, lf_count, root, line) ==
    LET next_start == line_offset(buffers, root, line + 1)
    IN  [content    |-> assemble_tree_range(buffers, root,
                            get_line_range_crlf(buffers, lf_count, root, line)),
         incomplete |-> /\ line < lf_count
                        /\ ~(next_start >= 2
                             /\ char_at_tree(buffers, root, next_start - 2) = CR)]

-----------------------------------------------------------------------------
(* Reference: the same questions asked of the text itself. *)

LineFeeds(text) == {k \in 1..Len(text) : text[k] = LF}

(* The position of the n'th line feed. *)
LineFeed(text, n) ==
    CHOOSE k \in LineFeeds(text) : Cardinality({j \in LineFeeds(text) : j <= k}) = n

RefHasLineFeed(text, line) == line < Cardinality(LineFeeds(text))

(* The characters before every character of a line, and up to its end,    *)
(* the line ending included; the last line has none.                      *)
RefLineFirst(text, line) == IF line = 0 THEN 0 ELSE LineFeed(text, line)

RefLineEnd(text, line) ==
    IF RefHasLineFeed(text, line) THEN LineFeed(text, line + 1) ELSE Len(text)

RefHasCR(text, line) ==
    /\ RefHasLineFeed(text, line)
    /\ RefLineEnd(text, line) - 1 > RefLineFirst(text, line)
    /\ text[RefLineEnd(text, line) - 1] = CR

RefRange(text, line, dropped) ==
    [first |-> RefLineFirst(text, line), last |-> RefLineEnd(text, line) - dropped]

RefLineAt(text, offset) == Cardinality({f \in LineFeeds(text) : f <= offset})

=============================================================================
