----------------------------- MODULE CharBuffers -----------------------------
(***************************************************************************)
(* Character buffers of the piece tree (src/src/piece_tree/piece_tree.cpp): *)
(* the bytes of a buffer together with the offsets at which its lines      *)
(* start, and the line/column cursors by which pieces point into it.       *)
(*                                                                         *)
(* The array `line_starts' of the code is strictly increasing, so it is    *)
(* represented by its SET of elements: element number l of the array is    *)
(* the member with exactly l smaller members, and the binary search of     *)
(* line_start_index is a count.                                            *)
(***************************************************************************)
EXTENDS Integers, Sequences, FiniteSets

CONSTANTS
    Char,  \* the characters a text is made of
    LF     \* the line feed, the only character the buffers look at

ASSUME LFAssumption == LF \in Char

Text == Seq(Char)

CharBuffer == [text : Text, line_starts : SUBSET Nat]

Cursor == [line : Nat, column : Nat]

(* Where lines start in a text: at 0 and after every line feed. *)
calculate_line_starts(text) == {0} \cup {k \in 1..Len(text) : text[k] = LF}

NewBuffer(text) ==
    [text |-> text, line_starts |-> calculate_line_starts(text)]

(* Fault: a line starts at its predecessor's line feed. *)
ExtendAtLineFeed(buffer, text) ==
    LET size == Len(buffer.text)
    IN  [text        |-> buffer.text \o text,
         line_starts |-> buffer.line_starts
                           \cup {size + k - 1 : k \in {i \in 1..Len(text) : text[i] = LF}}]

(* The bytes and the line starts build_piece writes after those a buffer  *)
(* already has; nothing written before is touched.                        *)
Extend(buffer, text) ==
    LET size == Len(buffer.text)
    IN  [text        |-> buffer.text \o text,
         line_starts |-> buffer.line_starts
                           \cup {size + k : k \in {i \in 1..Len(text) : text[i] = LF}}]

(* The line whose start is the last one at or before byte_offset. *)
line_start_index(buffer, byte_offset) ==
    Cardinality({s \in buffer.line_starts : s <= byte_offset}) - 1

(* line_starts.starts[line] *)
LineStart(buffer, line) ==
    CHOOSE s \in buffer.line_starts :
        Cardinality({t \in buffer.line_starts : t < s}) = line

cursor_from_offset(buffer, byte_offset) ==
    LET line == line_start_index(buffer, byte_offset)
    IN  [line |-> line, column |-> byte_offset - LineStart(buffer, line)]

cursor_offset(buffer, cursor) ==
    LineStart(buffer, cursor.line) + cursor.column

(* Fault: the ends of the range are swapped. *)
lf_count_backwards(buffer, first_offset, last_offset) ==
    line_start_index(buffer, first_offset) - line_start_index(buffer, last_offset)

(* Both branches of the code compute the same difference. *)
lf_count_in_range(buffer, first_offset, last_offset) ==
    line_start_index(buffer, last_offset) - line_start_index(buffer, first_offset)

=============================================================================
