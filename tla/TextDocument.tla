----------------------------- MODULE TextDocument -----------------------------
(***************************************************************************)
(* What the piece tree promises an editor: a text that is edited in place, *)
(* with a linear history.  The history is a timeline of texts; `now' is    *)
(* the current one.  Undo and redo only move along the timeline and a      *)
(* recorded edit cuts off what lay ahead, so no sequence of undos and      *)
(* redos can lose or change a text.                                        *)
(*                                                                         *)
(* This is the documented behaviour of Tree (piece_tree.md, "Editing",     *)
(* "Undo and redo", "Persistent roots"): there are no pieces, no buffers   *)
(* and no line starts here.  PieceTree implements it.                      *)
(***************************************************************************)
EXTENDS Integers, Sequences

CONSTANTS
    Texts,     \* the texts that may be inserted
    Handles,   \* the places where a client keeps a state of the document
    NoOffset   \* where the last insertion ended when that is forgotten

VARIABLES
    open,        \* the builder has finished and the document may be edited
    timeline,    \* the texts of the history, oldest first
    now,         \* the position of the current text in the timeline
    marks,       \* per position, the offset stored with that text
    insertEnd,   \* where the last insertion ended, or NoOffset
    kept         \* the texts clients hold on to, by handle

docVars == <<open, timeline, now, marks, insertEnd, kept>>

current == timeline[now]

TextAfterInsert(text, offset, new) ==
    SubSeq(text, 1, offset) \o new \o SubSeq(text, offset + 1, Len(text))

TextAfterRemove(text, offset, count) ==
    SubSeq(text, 1, offset) \o SubSeq(text, offset + count + 1, Len(text))

(* Position i holds the current text, which has no stored offset. *)
Mark(m, i, offset) == [m EXCEPT ![i] = offset]

DocInit ==
    /\ open = FALSE
    /\ timeline = << << >> >>
    /\ now = 1
    /\ marks = <<NoOffset>>
    /\ insertEnd = NoOffset
    /\ kept = [h \in Handles |-> << >>]

(* The builder accepts the next part of the initial text. *)
DocAccept(text) ==
    /\ ~open
    /\ timeline' = <<current \o text>>
    /\ UNCHANGED <<open, now, marks, insertEnd, kept>>

DocFinish ==
    /\ ~open
    /\ open' = TRUE
    /\ UNCHANGED <<timeline, now, marks, insertEnd, kept>>

(* The current text becomes `text' and everything ahead of it is gone; if *)
(* `boundary', the text it replaces stays behind with `offset'.           *)
Edit(text, boundary, offset) ==
    /\ now' = IF boundary THEN now + 1 ELSE now
    /\ marks' = IF boundary
                THEN Append(Mark(SubSeq(marks, 1, now), now, offset), NoOffset)
                ELSE SubSeq(marks, 1, now)
    /\ timeline' = Append(SubSeq(timeline, 1, now' - 1), text)

(* The current text is replaced and the rest of the history stays. *)
EditUnrecorded(text) ==
    /\ UNCHANGED <<now, marks>>
    /\ timeline' = [timeline EXCEPT ![now] = text]

(* An insertion where the last one ended shares its history boundary. *)
DocInsert(text, offset, new, recorded) ==
    /\ open
    /\ insertEnd' = offset + Len(new)
    /\ IF recorded
       THEN Edit(TextAfterInsert(text, offset, new), offset # insertEnd, offset)
       ELSE EditUnrecorded(TextAfterInsert(text, offset, new))
    /\ UNCHANGED <<open, kept>>

DocRemove(text, offset, count, recorded) ==
    /\ open
    /\ insertEnd' = NoOffset
    /\ IF recorded
       THEN Edit(TextAfterRemove(text, offset, count), TRUE, offset)
       ELSE EditUnrecorded(TextAfterRemove(text, offset, count))
    /\ UNCHANGED <<open, kept>>

(* The text moved away from keeps the caller's offset, and the text moved *)
(* to gives its own back.                                                 *)
DocMove(to, offset) ==
    /\ open
    /\ now' = to
    /\ to \in DOMAIN marks
    /\ marks' = Mark(Mark(marks, now, offset), to, NoOffset)
    /\ insertEnd' = NoOffset
    /\ UNCHANGED <<open, timeline, kept>>

DocUndo(offset) == DocMove(now - 1, offset)

DocRedo(offset) == DocMove(now + 1, offset)

DocCommit(offset) ==
    /\ open
    /\ insertEnd' = NoOffset
    /\ Edit(current, TRUE, offset)
    /\ UNCHANGED <<open, kept>>

(* A client keeps the current text; no later edit changes what it keeps. *)
DocHead(h) ==
    /\ open
    /\ UNCHANGED <<open, now, marks, insertEnd>>
    /\ kept' = [kept EXCEPT ![h] = current]
    /\ UNCHANGED timeline

(* The current text becomes a text kept before. *)
DocSnapTo(h) ==
    /\ open
    /\ insertEnd' = NoOffset
    /\ EditUnrecorded(kept[h])
    /\ UNCHANGED <<open, kept>>

DocNext ==
    \/ \E text \in Texts : DocAccept(text)
    \/ DocFinish
    \/ \E h \in Handles : DocHead(h) \/ DocSnapTo(h)
    \/ LET text == current
       IN  \/ \E offset \in 0..Len(text) :
                 DocUndo(offset) \/ DocRedo(offset) \/ DocCommit(offset)
           \/ \E offset \in 0..Len(text), new \in Texts, recorded \in BOOLEAN :
                 DocInsert(text, offset, new, recorded)
           \/ \E recorded \in BOOLEAN, offset \in 0..Len(text) :
                 \E count \in 1..(Len(text) - offset) :
                    DocRemove(text, offset, count, recorded)

DocSpec == DocInit /\ [][DocNext]_docVars

=============================================================================
