--------------------------------- MODULE Editor --------------------------------
(***************************************************************************)
(* The editor of src/src/program.cpp: a caret in a document, and a render  *)
(* buffer with the text and the lines of the last frame that was drawn.    *)
(*                                                                         *)
(* editor_handle_input looks at the keys in a fixed order, and a frame may *)
(* bring several of them.  Each is a step here; `looked_at' is how far the *)
(* order has been gone through.  Then draw_code_buffer rebuilds the render *)
(* buffer, once, if an edit made the document dirty.  In between the caret *)
(* moves on an edited document by the lines of the frame before.           *)
(*                                                                         *)
(* The document is TextDocument, which PieceTree implements.               *)
(***************************************************************************)
EXTENDS TextDocument, FiniteSets, SequencesExt, FiniteSetsExt

CONSTANTS
    LF, CR,
    Typed,       \* the printable characters that are typed
    Spaces,      \* what the tab key inserts
    Columns,     \* the columns of mouse clicks
    Wide,        \* values of an unsigned size, for its underflow
    MaxLength,   \* bound on the length of the document
    MaxHistory,  \* bound on the length of the timeline
    MaxKeys      \* bound on the keys pressed in a frame

ASSUME EditorAssumption ==
    /\ Texts = {<<c>> : c \in Typed \cup {LF}} \cup {Spaces}
    /\ {Wide, MaxLength, MaxHistory, MaxKeys} \subseteq Nat \ {0}
    /\ Columns \subseteq Nat
    /\ LF # CR

VARIABLES
    caret,        \* EditorState::cursor and EditorState::goal_column
    dirty,        \* the document was edited since the render buffer was built
    render_text,  \* RenderBuffer::text
    line_count,   \* RenderBuffer::line_count, 0 if building it failed
    looked_at,    \* the rank of the last key that was handled, 0 after drawing
    keys          \* the number of keys handled in this frame

editorVars == <<caret, dirty, render_text, line_count, looked_at, keys>>

Smaller(a, b) == IF a < b THEN a ELSE b

document_length == Len(current)

EditorInit ==
    /\ caret = [cursor |-> 0, goal_column |-> 0]
    /\ dirty = FALSE
    /\ render_text = << >>
    /\ line_count = 0
    /\ looked_at = 0
    /\ keys = 0

-----------------------------------------------------------------------------
(* Lines *)

(* Tree::line_at and Tree::line_count of the current document. *)
line_at(text, offset) == Cardinality({i \in 1..offset : text[i] = LF})

LineFeeds(text) == line_at(text, Len(text))

(* The first offset of a line and the offset of its line feed or the end. *)
LineFirst(text, line) ==
    IF line = 0 THEN 0
    ELSE CHOOSE i \in 1..Len(text) : text[i] = LF /\ line_at(text, i) = line

LineBreak(text, line) ==
    IF line = LineFeeds(text) THEN Len(text) ELSE LineFirst(text, line + 1) - 1

(* Fault: the line takes its carriage return for a character. *)
RenderLineWithReturn(text, line) ==
    [offset |-> LineFirst(text, line),
     size   |-> LineBreak(text, line) - LineFirst(text, line)]

(* RenderBuffer::lines[line], the line ending excluded. *)
RenderLine(text, line) ==
    LET first == LineFirst(text, line)
        last  == LineBreak(text, line)
    IN  [offset |-> first,
         size   |-> IF last > first /\ text[last] = CR THEN last - first - 1
                    ELSE last - first]

(* Fault: a span that began on an earlier line has been dealt with. *)
SkippedAtStart(spans, cursor, first) ==
    Cardinality({k \in DOMAIN spans : k <= cursor \/ spans[k].offset < first})

(* How many spans the first cursor of render_buffer_collect_lines leaves   *)
(* behind when it comes to a line from where it was.                       *)
Skipped(spans, cursor, first) ==
    cursor + Cardinality({k \in DOMAIN spans :
        /\ k > cursor
        /\ \A i \in cursor + 1 .. k : spans[i].offset + spans[i].size <= first})

(* And how many the second cursor then runs through. *)
RunThrough(spans, cursor, last) ==
    Cardinality({k \in DOMAIN spans :
        /\ k > cursor
        /\ \A i \in cursor + 1 .. k : spans[i].offset < last})

(* The spans of every line, as the two cursors find them, which only move  *)
(* forward from line to line.                                             *)
LineSpans(text, spans) ==
    LET lines[k \in 1 .. LineFeeds(text) + 1] ==
            LET cursor == IF k = 1 THEN 0 ELSE lines[k-1].first_span
                first  == Skipped(spans, cursor, LineFirst(text, k - 1))
            IN  [first_span |-> first,
                 span_count |-> RunThrough(spans, first, LineBreak(text, k - 1))]
    IN  lines

-----------------------------------------------------------------------------
(* Moving the caret *)

(* Fault: the difference has a sign. *)
editor_move_to_signed(c, text, count, offset, keep_goal_column) ==
    LET cursor == Smaller(offset, document_length)
        line == line_at(current, cursor)
    IN  [cursor |-> cursor,
         goal_column |->
            IF keep_goal_column \/ line >= count THEN c.goal_column
            ELSE cursor - RenderLine(text, line).offset]

(* The caret after editor_move_to, with the render buffer of a text; the   *)
(* goal column is an unsigned difference.                                  *)
editor_move_to(c, text, count, offset, keep_goal_column) ==
    LET cursor == Smaller(offset, document_length)
        line == line_at(current, cursor)
    IN  [cursor |-> cursor,
         goal_column |->
            IF keep_goal_column \/ line >= count THEN c.goal_column
            ELSE (cursor - RenderLine(text, line).offset) % Wide]

Moved(offset) == editor_move_to(caret, render_text, line_count, offset, FALSE)

(* Where a caret goes on a line of the last frame. *)
Target(c, line) ==
    LET target == RenderLine(render_text, line)
    IN  target.offset + Smaller(c.goal_column, target.size)

(* The line above or below, among those of the last frame. *)
LineBeside(c, delta) ==
    LET line == line_at(current, c.cursor) + delta
    IN  IF line < 0 THEN 0 ELSE Smaller(line, line_count - 1)

(* Fault: the goal column becomes the column of every line on the way. *)
editor_move_vertical_forgetting(c, delta) ==
    editor_move_to(c, render_text, line_count, Target(c, LineBeside(c, delta)), FALSE)

editor_move_vertical(c, delta) ==
    editor_move_to(c, render_text, line_count, Target(c, LineBeside(c, delta)), TRUE)

-----------------------------------------------------------------------------
(* The keys of a frame *)

KeyOrder == <<"text", "enter", "tab", "backspace", "delete", "left", "right",
              "up", "down", "home_end", "undo", "redo">>

Rank(key) == CHOOSE k \in DOMAIN KeyOrder : KeyOrder[k] = key

(* A key is handled after those before it in the order, and only text may  *)
(* bring several characters.                                              *)
Pressed(key) ==
    /\ keys < MaxKeys
    /\ IF key = "text" THEN looked_at <= Rank(key) ELSE looked_at < Rank(key)
    /\ looked_at' = Rank(key)
    /\ keys' = keys + 1
    /\ UNCHANGED <<render_text, line_count>>

EditedAt(cursor) ==
    /\ caret' = [caret EXCEPT !.cursor = cursor]
    /\ dirty' = TRUE

(* The tree refuses an insertion behind the end, and the caret moves on    *)
(* nevertheless.                                                          *)
editor_insert(new) ==
    /\ document_length + Len(new) <= MaxLength
    /\ caret.cursor # insertEnd => now < MaxHistory
    /\ IF caret.cursor <= document_length
       THEN DocInsert(current, caret.cursor, new, TRUE)
       ELSE UNCHANGED docVars
    /\ EditedAt(caret.cursor + Len(new))

(* Fault: the caret stays where it was. *)
editor_remove_in_place(offset) ==
    /\ offset < document_length
    /\ now < MaxHistory
    /\ DocRemove(current, offset, 1, TRUE)
    /\ EditedAt(caret.cursor)

(* At the end of the document there is nothing to remove. *)
editor_remove(offset) ==
    /\ offset < document_length
    /\ now < MaxHistory
    /\ DocRemove(current, offset, 1, TRUE)
    /\ EditedAt(offset)

Type ==
    /\ Pressed("text")
    /\ \E c \in Typed : editor_insert(<<c>>)

Enter == Pressed("enter") /\ editor_insert(<<LF>>)

Tab == Pressed("tab") /\ editor_insert(Spaces)

Backspace ==
    /\ Pressed("backspace")
    /\ caret.cursor > 0
    /\ editor_remove(caret.cursor - 1)

Delete == Pressed("delete") /\ editor_remove(caret.cursor)

Left ==
    /\ Pressed("left")
    /\ caret.cursor > 0
    /\ caret' = Moved(caret.cursor - 1)
    /\ UNCHANGED <<docVars, dirty>>

Right ==
    /\ Pressed("right")
    /\ caret' = Moved(caret.cursor + 1)
    /\ UNCHANGED <<docVars, dirty>>

Vertical(key, delta) ==
    /\ Pressed(key)
    /\ line_count # 0
    /\ caret' = editor_move_vertical(caret, delta)
    /\ UNCHANGED <<docVars, dirty>>

Up == Vertical("up", -1)

Down == Vertical("down", 1)

(* Home and End, or both: the line is looked up once. *)
HomeEnd ==
    LET line   == line_at(current, caret.cursor)
        target == RenderLine(render_text, line)
        home   == Moved(target.offset)
    IN  /\ Pressed("home_end")
        /\ line < line_count
        /\ \/ caret' = home
           \/ \E c \in {caret, home} :
                 caret' = editor_move_to(c, render_text, line_count,
                                         target.offset + target.size, FALSE)
        /\ UNCHANGED <<docVars, dirty>>

(* The caret goes to the offset that comes back with the text. *)
History(to) ==
    /\ DocMove(to, caret.cursor)
    /\ EditedAt(Smaller(marks[to], Len(timeline[to])))

(* Fault: the text is drawn only when it is edited the next time. *)
UndoUnnoticed ==
    /\ Pressed("undo")
    /\ now > 1
    /\ DocMove(now - 1, caret.cursor)
    /\ caret' = [caret EXCEPT !.cursor = Smaller(marks[now - 1], Len(timeline[now - 1]))]
    /\ UNCHANGED dirty

Undo ==
    /\ Pressed("undo")
    /\ now > 1
    /\ History(now - 1)

Redo ==
    /\ Pressed("redo")
    /\ now < Len(timeline)
    /\ History(now + 1)

-----------------------------------------------------------------------------
(* Drawing *)

(* render_buffer_rebuild.  If the text cannot be pushed there are no lines, *)
(* and if the lines cannot, the text has none.                             *)
render_buffer_rebuild ==
    IF dirty
    THEN \/ render_text' = current /\ line_count' = LineFeeds(current) + 1
         \/ render_text' \in {current, << >>} /\ line_count' = 0
    ELSE UNCHANGED <<render_text, line_count>>

(* The rest of a frame: editor_handle_input ends with limiting the caret,   *)
(* and a click takes it to one of the new lines.                           *)
draw_code_buffer ==
    /\ render_buffer_rebuild
    /\ dirty' = FALSE
    /\ \/ caret' = [caret EXCEPT !.cursor = Smaller(@, document_length)]
       \/ \E line \in 0 .. line_count' - 1, column \in Columns :
             LET target == RenderLine(render_text', line)
             IN  caret' = editor_move_to(caret, render_text', line_count',
                            target.offset + Smaller(column, target.size), FALSE)
    /\ looked_at' = 0
    /\ keys' = 0
    /\ UNCHANGED docVars

editor_handle_input ==
    \/ Type \/ Enter \/ Tab
    \/ Backspace \/ Delete
    \/ Left \/ Right \/ Up \/ Down \/ HomeEnd
    \/ Undo \/ Redo

EditorNext == editor_handle_input \/ draw_code_buffer

-----------------------------------------------------------------------------
Lines == 0 .. LineFeeds(current)

EditorTypeOK ==
    /\ caret \in [cursor : Nat, goal_column : 0 .. Wide - 1]
    /\ dirty \in BOOLEAN
    /\ line_count \in {0, LineFeeds(render_text) + 1}
    /\ looked_at \in 0 .. Len(KeyOrder)
    /\ keys \in 0 .. MaxKeys

(* Between any two keys the caret is inside the document, although moves   *)
(* use the lines of a frame in which the text was another one: so the tree *)
(* never refuses what the editor inserts, and the last clamp of            *)
(* editor_handle_input never has anything to do.                          *)
CursorInDocument == caret.cursor <= document_length

(* The renderer reads nothing but the render buffer: unless that could not *)
(* be built it is the text that is edited, except between an edit, an undo *)
(* or a redo and the end of its frame.                                     *)
FrameShowsDocument ==
    \/ dirty
    \/ line_count = 0
    \/ render_text = current /\ line_count = LineFeeds(current) + 1

(* The lists of at most two spans a parser may return for a text: sorted,  *)
(* not empty and not overlapping.                                          *)
SpanLists(length) ==
    LET span == {s \in [offset : 0 .. length - 1, size : 1 .. length] :
                    s.offset + s.size <= length}
    IN  {<< >>} \cup {<<s>> : s \in span}
          \cup {p \in span \X span : p[1].offset + p[1].size <= p[2].offset}

(* The spans of a line are those that have a character between its start   *)
(* and its line feed, one that crosses a line break being listed on each   *)
(* of its lines, although the cursors never go back.                       *)
LineSpansExact ==
    looked_at = 0 =>
        \A spans \in SpanLists(Len(render_text)) :
            \A line \in 0 .. line_count - 1 :
                LET found == LineSpans(render_text, spans)[line + 1]
                IN  {k \in DOMAIN spans :
                        /\ spans[k].offset < LineBreak(render_text, line)
                        /\ LineFirst(render_text, line) < spans[k].offset + spans[k].size}
                    = found.first_span + 1 .. found.first_span + found.span_count

(* On an unedited text Up and Down undo each other for a caret that is as  *)
(* far on its line as the goal column and the line allow, whatever the     *)
(* length of the line between.                                             *)
VerticalMovesReturn ==
    FrameShowsDocument /\ line_count # 0 /\ ~dirty =>
        LET line == line_at(current, caret.cursor)
        IN  caret.cursor = Target(caret, line) =>
                \A delta \in {-1, 1} : line + delta \in Lines =>
                    editor_move_vertical(editor_move_vertical(caret, delta), -delta) = caret

(* On an unedited text a key takes the caret to the line delta further, if *)
(* there is one, but never between a carriage return and its line feed.    *)
LineMoves(key, delta) ==
    looked_at < Rank(key) /\ looked_at' = Rank(key) /\ ~dirty =>
        /\ line_at(current, caret'.cursor) = LineBeside(caret, delta)
        /\ \A i \in DOMAIN current \ {1} :
              i - 1 = caret'.cursor => current[i-1] # CR \/ current[i] # LF

(* On an unedited text Up and Down go to the next line, if there is one,   *)
(* and Home and End stay on theirs, and none of them divides the two       *)
(* characters of a line ending, whatever the column they head for.         *)
LineMovesHitLine ==
    [][/\ LineMoves("up", -1)
       /\ LineMoves("down", 1)
       /\ LineMoves("home_end", 0)]_<<docVars, editorVars>>

=============================================================================
