--------------------------- MODULE ApplicationProofs ---------------------------
(***************************************************************************)
(* Theorems about the document with a history and the editor in its        *)
(* application, for files and insertions of any characters, any bounds and *)
(* every way of failing: the caret stays in the document and keeps to the  *)
(* lines it moves by, what is drawn is the document with the spans of its  *)
(* lines, and starting up and shutting down lose and leave nothing.        *)
(***************************************************************************)
EXTENDS Application, SequenceTheorems, FiniteSetTheorems, WellFoundedInduction, TLAPS

-----------------------------------------------------------------------------
(* The document and its history: the timeline stays a sequence of texts    *)
(* over one alphabet, with an offset beside each of them except the        *)
(* current one.                                                            *)

HistoryTyped(L) ==
    /\ timeline \in Seq(Seq(L))
    /\ now \in 1..Len(timeline)
    /\ marks \in Seq(Nat \cup {NoOffset})
    /\ Len(marks) = Len(timeline)
    /\ \A i \in 1..Len(marks) : i # now => marks[i] \in Nat

LEMMA CurrentTyped ==
  ASSUME NEW L, HistoryTyped(L)
  PROVE  current \in Seq(L) /\ Len(current) \in Nat
  <1>1. current \in Seq(L)
    BY ElementOfSeq DEF HistoryTyped, current
  <1> QED  BY <1>1, LenProperties

-----------------------------------------------------------------------------
(* The texts *)

LEMMA Joined ==
  ASSUME NEW L, NEW left \in Seq(L), NEW right \in Seq(L)
  PROVE  /\ left \o right \in Seq(L)
         /\ Len(left \o right) = Len(left) + Len(right)
  BY ConcatProperties

LEMMA InsertedText ==
  ASSUME NEW L, NEW text \in Seq(L), NEW new \in Seq(L), NEW offset \in 0..Len(text)
  PROVE  /\ TextAfterInsert(text, offset, new) \in Seq(L)
         /\ Len(TextAfterInsert(text, offset, new)) = Len(text) + Len(new)
  <1> DEFINE front == SubSeq(text, 1, offset)
             back  == SubSeq(text, offset + 1, Len(text))
  <1>1. Len(text) \in Nat /\ Len(new) \in Nat /\ \A i \in 1..Len(text) : text[i] \in L
    BY LenProperties, ElementOfSeq
  <1>2. front \in Seq(L) /\ Len(front) = offset
    <2>1. \A i \in 1..offset : text[i] \in L
      BY <1>1
    <2> QED  BY <1>1, <2>1, SubSeqProperties
  <1>3. back \in Seq(L) /\ Len(back) = Len(text) - offset
    <2>1. \A i \in (offset + 1)..Len(text) : text[i] \in L
      BY <1>1
    <2> QED  BY <1>1, <2>1, SubSeqProperties
  <1> HIDE DEF front, back
  <1>4. front \o new \in Seq(L) /\ Len(front \o new) = Len(front) + Len(new)
    BY <1>2, Joined, Zenon
  <1>5. /\ (front \o new) \o back \in Seq(L)
        /\ Len((front \o new) \o back) = Len(front \o new) + Len(back)
    BY <1>3, <1>4, Joined, Zenon
  <1>6. TextAfterInsert(text, offset, new) = (front \o new) \o back
    BY Zenon DEF TextAfterInsert, front, back
  <1>7. (Len(front) + Len(new)) + Len(back) = Len(text) + Len(new)
    BY <1>1, <1>2, <1>3
  <1> QED  BY <1>4, <1>5, <1>6, <1>7, Zenon

LEMMA RemovedText ==
  ASSUME NEW L, NEW text \in Seq(L), NEW offset \in Nat, NEW count \in Nat,
         offset + count <= Len(text)
  PROVE  /\ TextAfterRemove(text, offset, count) \in Seq(L)
         /\ Len(TextAfterRemove(text, offset, count)) = Len(text) - count
  <1> DEFINE front == SubSeq(text, 1, offset)
             back  == SubSeq(text, offset + count + 1, Len(text))
  <1>1. Len(text) \in Nat /\ \A i \in 1..Len(text) : text[i] \in L
    BY LenProperties, ElementOfSeq
  <1>2. front \in Seq(L) /\ Len(front) = offset
    <2>1. \A i \in 1..offset : text[i] \in L
      BY <1>1
    <2> QED  BY <1>1, <2>1, SubSeqProperties
  <1>3. back \in Seq(L) /\ Len(back) = Len(text) - (offset + count)
    <2>1. \A i \in (offset + count + 1)..Len(text) : text[i] \in L
      BY <1>1
    <2> QED  BY <1>1, <2>1, SubSeqProperties
  <1> HIDE DEF front, back
  <1>4. front \o back \in Seq(L) /\ Len(front \o back) = Len(front) + Len(back)
    BY <1>2, <1>3, Joined, Zenon
  <1>5. TextAfterRemove(text, offset, count) = front \o back
    BY Zenon DEF TextAfterRemove, front, back
  <1>6. Len(front) + Len(back) = Len(text) - count
    BY <1>1, <1>2, <1>3
  <1> QED  BY <1>4, <1>5, <1>6, Zenon

-----------------------------------------------------------------------------
(* The history *)

(* The positions up to `last'. *)
LEMMA Shortened ==
  ASSUME NEW S, NEW seq \in Seq(S), NEW last \in 0..Len(seq)
  PROVE  LET cut == SubSeq(seq, 1, last)
         IN  /\ cut \in Seq(S)
             /\ Len(cut) = last
             /\ \A i \in 1..last : cut[i] = seq[i]
  <1>1. Len(seq) \in Nat /\ \A i \in 1..last : seq[i] \in S
    BY LenProperties, ElementOfSeq
  <1> QED  BY <1>1, SubSeqProperties

LEMMA Extended ==
  ASSUME NEW S, NEW seq \in Seq(S), NEW x \in S
  PROVE  LET new == Append(seq, x)
         IN  /\ new \in Seq(S)
             /\ Len(new) = Len(seq) + 1
             /\ new[Len(seq) + 1] = x
             /\ \A i \in 1..Len(seq) : new[i] = seq[i]
  OBVIOUS

LEMMA EditTyped ==
  ASSUME NEW L, HistoryTyped(L), NEW text \in Seq(L), NEW boundary, NEW offset \in Nat,
         Edit(text, boundary, offset)
  PROVE  HistoryTyped(L)' /\ current' = text
  <1> DEFINE M == Nat \cup {NoOffset}
             cut == SubSeq(marks, 1, now)
             past == SubSeq(timeline, 1, now' - 1)
  <1>1. /\ now \in Nat /\ now >= 1 /\ now <= Len(timeline) /\ Len(timeline) \in Nat
        /\ timeline \in Seq(Seq(L)) /\ marks \in Seq(M) /\ Len(marks) = Len(timeline)
    BY LenProperties DEF HistoryTyped
  <1>2. now' \in Nat /\ now' >= 1 /\ now' - 1 \in 0..Len(timeline)
    BY <1>1 DEF Edit
  <1>3. past \in Seq(Seq(L)) /\ Len(past) = now' - 1
    BY <1>1, <1>2, Shortened
  <1>4. timeline' = Append(past, text)
    BY DEF Edit
  <1> HIDE DEF past
  <1>5. timeline' \in Seq(Seq(L)) /\ Len(timeline') = now' /\ timeline'[now'] = text
    <2>1. /\ timeline' \in Seq(Seq(L)) /\ Len(timeline') = Len(past) + 1
          /\ timeline'[Len(past) + 1] = text
      BY <1>3, <1>4, Extended, Zenon
    <2>2. Len(past) + 1 = now'
      <3>1. \A a, b \in Int : a = b - 1 => a + 1 = b
        OBVIOUS
      <3>2. Len(past) \in Int /\ now' \in Int
        BY <1>2, <1>3
      <3> QED  BY <1>3, <3>1, <3>2, Zenon
    <2> QED  BY <2>1, <2>2, Zenon
  <1>6. /\ cut \in Seq(M) /\ Len(cut) = now
        /\ \A i \in 1..now : cut[i] = marks[i]
    BY <1>1, Shortened
  <1> HIDE DEF cut
  <1>7. /\ marks' \in Seq(M)
        /\ Len(marks') = now'
        /\ \A i \in 1..now' : i # now' => marks'[i] \in Nat
    <2>1. CASE boundary
      <3> DEFINE stored == [cut EXCEPT ![now] = offset]
      <3>1. marks' = Append(stored, NoOffset) /\ now' = now + 1
        BY <2>1 DEF Edit, Mark, cut
      <3>2. /\ stored \in Seq(M) /\ Len(stored) = now
            /\ \A i \in 1..now : stored[i] = IF i = now THEN offset ELSE cut[i]
        BY <1>1, <1>6, ExceptSeq
      <3> HIDE DEF stored
      <3>3. /\ marks' \in Seq(M) /\ Len(marks') = now + 1
            /\ \A i \in 1..now : marks'[i] = stored[i]
        BY <3>1, <3>2, Extended
      <3>4. \A i \in 1..now : stored[i] \in Nat
        <4>1. ASSUME NEW i \in 1..now, i # now
              PROVE  marks[i] \in Nat
          BY <1>1, <4>1 DEF HistoryTyped
        <4> QED  BY <1>6, <3>2, <4>1, Zenon
      <3> QED  BY <1>1, <3>1, <3>3, <3>4
    <2>2. CASE ~boundary
      <3>1. marks' = cut /\ now' = now
        BY <2>2 DEF Edit, cut
      <3>2. ASSUME NEW i \in 1..now, i # now
            PROVE  cut[i] \in Nat
        <4>1. i \in 1..Len(marks) /\ cut[i] = marks[i]
          BY <1>1, <1>6
        <4> QED  BY <3>2, <4>1, Zenon DEF HistoryTyped
      <3> QED  BY <1>6, <3>1, <3>2, Zenon
    <2> QED  BY <2>1, <2>2
  <1> QED  BY <1>2, <1>5, <1>7 DEF HistoryTyped, current

LEMMA MoveTyped ==
  ASSUME NEW L, HistoryTyped(L), NEW to \in 1..Len(timeline), NEW offset \in Nat,
         DocMove(to, offset)
  PROVE  HistoryTyped(L)' /\ current' = timeline[to]
  <1> DEFINE M == Nat \cup {NoOffset}
             left == [marks EXCEPT ![now] = offset]
  <1>1. /\ timeline' = timeline /\ now' = to
        /\ marks' = [left EXCEPT ![to] = NoOffset]
    BY DEF DocMove, Mark
  <1>2. /\ now \in 1..Len(marks) /\ to \in 1..Len(marks)
        /\ marks \in Seq(M)
    BY DEF HistoryTyped
  <1>3. /\ left \in Seq(M) /\ Len(left) = Len(marks)
        /\ \A i \in 1..Len(marks) : left[i] = IF i = now THEN offset ELSE marks[i]
    BY <1>2, ExceptSeq
  <1> HIDE DEF left
  <1>4. /\ marks' \in Seq(M) /\ Len(marks') = Len(marks)
        /\ \A i \in 1..Len(marks) : marks'[i] = IF i = to THEN NoOffset ELSE left[i]
    BY <1>1, <1>2, <1>3, ExceptSeq
  <1> QED  BY <1>1, <1>3, <1>4 DEF HistoryTyped, current

(* The builder replaces the only text there is. *)
LEMMA AcceptTyped ==
  ASSUME NEW L, HistoryTyped(L), Len(timeline) = 1, NEW text \in Seq(L), DocAccept(text)
  PROVE  /\ HistoryTyped(L)'
         /\ Len(timeline') = 1
         /\ Len(current') >= Len(current)
  <1>1. current \in Seq(L) /\ Len(current) \in Nat /\ Len(text) \in Nat /\ now = 1
    BY CurrentTyped, LenProperties DEF HistoryTyped
  <1> DEFINE new == current \o text
  <1>2. new \in Seq(L) /\ Len(new) = Len(current) + Len(text)
    BY <1>1, ConcatProperties
  <1>3. timeline' = <<new>> /\ now' = now /\ marks' = marks
    BY DEF DocAccept
  <1> HIDE DEF new
  <1>4. timeline' \in Seq(Seq(L)) /\ Len(timeline') = 1 /\ timeline'[1] = new
    BY <1>2, <1>3
  <1>5. HistoryTyped(L)'
    BY <1>1, <1>3, <1>4 DEF HistoryTyped
  <1>6. Len(current') >= Len(current)
    BY <1>1, <1>2, <1>3, <1>4 DEF current
  <1> QED  BY <1>4, <1>5, <1>6

LEMMA InitTyped ==
  ASSUME NEW L, DocInit
  PROVE  HistoryTyped(L) /\ Len(timeline) = 1 /\ Len(current) = 0
  <1>1. << >> \in Seq(L) /\ Len(<< >>) = 0
    BY EmptySeq
  <1>2. <<NoOffset>> \in Seq(Nat \cup {NoOffset}) /\ Len(<<NoOffset>>) = 1
    OBVIOUS
  <1>3. << << >> >> \in Seq(Seq(L)) /\ Len(<< << >> >>) = 1 /\ << << >> >>[1] = << >>
    BY <1>1
  <1> QED  BY <1>1, <1>2, <1>3 DEF DocInit, HistoryTyped, current

-----------------------------------------------------------------------------
(* Lines *)

Feeds(text, offset) == {i \in 1..offset : text[i] = LF}

LEMMA FeedsFinite ==
  ASSUME NEW text, NEW offset \in Nat
  PROVE  /\ IsFiniteSet(Feeds(text, offset))
         /\ line_at(text, offset) = Cardinality(Feeds(text, offset))
         /\ line_at(text, offset) \in Nat
  <1>1. IsFiniteSet(1..offset) /\ Feeds(text, offset) \in SUBSET (1..offset)
    BY FS_Interval DEF Feeds
  <1>2. IsFiniteSet(Feeds(text, offset))
    BY <1>1, FS_Subset, Zenon
  <1>3. line_at(text, offset) = Cardinality(Feeds(text, offset))
    BY DEF line_at, Feeds
  <1> QED  BY <1>2, <1>3, FS_CardinalityType, Zenon

LEMMA FeedsGrow ==
  ASSUME NEW text, NEW i \in Nat, NEW j \in Nat, i <= j
  PROVE  line_at(text, i) <= line_at(text, j)
  <1>1. Feeds(text, i) \in SUBSET Feeds(text, j)
    BY DEF Feeds
  <1>2. /\ IsFiniteSet(Feeds(text, j))
        /\ line_at(text, i) = Cardinality(Feeds(text, i))
        /\ line_at(text, j) = Cardinality(Feeds(text, j))
    BY FeedsFinite, Zenon
  <1> QED  BY <1>1, <1>2, FS_Subset, Zenon

LEMMA FeedsStep ==
  ASSUME NEW text, NEW i \in Nat
  PROVE  line_at(text, i + 1) = line_at(text, i) + (IF text[i+1] = LF THEN 1 ELSE 0)
  <1>1. i + 1 \in Nat /\ i + 1 \notin Feeds(text, i)
    BY DEF Feeds
  <1>2. CASE text[i+1] = LF
    <2>1. Feeds(text, i + 1) = Feeds(text, i) \cup {i + 1}
      BY <1>2 DEF Feeds
    <2>2. Cardinality(Feeds(text, i + 1)) = Cardinality(Feeds(text, i)) + 1
      BY <1>1, <2>1, FeedsFinite, FS_AddElement, Zenon
    <2> QED  BY <1>1, <1>2, <2>2, FeedsFinite, Zenon
  <1>3. CASE text[i+1] # LF
    <2>1. Feeds(text, i + 1) = Feeds(text, i)
      BY <1>3 DEF Feeds
    <2>2. line_at(text, i + 1) = line_at(text, i) /\ line_at(text, i) \in Nat
      BY <1>1, <2>1, FeedsFinite, Zenon
    <2> QED  BY <1>3, <2>2
  <1> QED  BY <1>2, <1>3

(* A line after the first one begins behind the first line feed to have as *)
(* many up to it.                                                          *)
LEMMA FeedOfLine ==
  ASSUME NEW text, NEW length \in Nat, NEW line \in Nat \ {0},
         line <= line_at(text, length)
  PROVE  \E i \in 1..length : text[i] = LF /\ line_at(text, i) = line
  <1> DEFINE T == {i \in Nat : line <= line_at(text, i)}
  <1>1. length \in T /\ T \subseteq Nat
    OBVIOUS
  <1>2. PICK x \in T : \A y \in T : ~ (<<y, x>> \in OpToRel(<, Nat))
    BY <1>1, WFMin, NatLessThanWellFounded, Zenon
  <1>3. \A y \in T : ~(y < x)
    <2> SUFFICES ASSUME NEW y \in T, y < x PROVE FALSE
      OBVIOUS
    <2>1. y \in Nat /\ x \in Nat
      OBVIOUS
    <2>2. <<y, x>> \in OpToRel(<, Nat)
      BY <2>1, SMT DEF OpToRel
    <2> QED  BY <1>2, <2>2
  <1>4. x \in Nat /\ x <= length /\ line <= line_at(text, x)
    BY <1>1, <1>3
  <1>5. x # 0
    <2>1. Feeds(text, 0) = {}
      BY DEF Feeds
    <2>2. line_at(text, 0) = 0
      BY <2>1, FeedsFinite, FS_EmptySet
    <2> QED  BY <1>4, <2>2
  <1>6. x - 1 \in Nat /\ x - 1 + 1 = x
    BY <1>4, <1>5
  <1>7. line_at(text, x - 1) \in Nat /\ line_at(text, x - 1) < line
    BY <1>3, <1>6, FeedsFinite
  <1>8. line_at(text, x) = line_at(text, x - 1) + (IF text[x] = LF THEN 1 ELSE 0)
    BY <1>6, FeedsStep
  <1>9. text[x] = LF /\ line_at(text, x) = line
    BY <1>4, <1>7, <1>8
  <1>10. x \in 1..length
    BY <1>4, <1>5
  <1> QED  BY <1>9, <1>10

LEMMA FirstOfLine ==
  ASSUME NEW text, Len(text) \in Nat, NEW line \in Nat \ {0}, line <= LineFeeds(text)
  PROVE  /\ LineFirst(text, line) \in 1..Len(text)
         /\ text[LineFirst(text, line)] = LF
         /\ line_at(text, LineFirst(text, line)) = line
  <1>1. \E i \in 1..Len(text) : text[i] = LF /\ line_at(text, i) = line
    BY FeedOfLine DEF LineFeeds
  <1>2. LineFirst(text, line)
          = CHOOSE i \in 1..Len(text) : text[i] = LF /\ line_at(text, i) = line
    BY DEF LineFirst
  <1> QED  BY <1>1, <1>2, Zenon

(* A line ends behind its first character or where it begins, and inside  *)
(* the text.                                                              *)
LEMMA LineBounds ==
  ASSUME NEW text, Len(text) \in Nat, NEW line \in 0..LineFeeds(text)
  PROVE  /\ LineFirst(text, line) \in 0..Len(text)
         /\ LineBreak(text, line) \in LineFirst(text, line)..Len(text)
  <1>1. LineFeeds(text) \in Nat /\ LineFeeds(text) = line_at(text, Len(text))
    BY FeedsFinite DEF LineFeeds
  <1>2. ASSUME NEW l \in Nat \ {0}, l <= LineFeeds(text)
        PROVE  /\ LineFirst(text, l) \in 1..Len(text)
               /\ line_at(text, LineFirst(text, l)) = l
    BY <1>2, FirstOfLine
  <1>3. /\ LineFirst(text, line) \in 0..Len(text)
        /\ line = 0 \/ line_at(text, LineFirst(text, line)) = line
        /\ line = 0 => LineFirst(text, line) = 0
    <2>1. CASE line = 0
      BY <2>1 DEF LineFirst
    <2>2. CASE line # 0
      BY <1>1, <1>2, <2>2
    <2> QED  BY <2>1, <2>2
  <1>4. CASE line = LineFeeds(text)
    BY <1>3, <1>4 DEF LineBreak
  <1>5. CASE line # LineFeeds(text)
    <2>1. line + 1 \in Nat \ {0} /\ line + 1 <= LineFeeds(text)
      BY <1>1, <1>5
    <2> DEFINE next == LineFirst(text, line + 1)
    <2>2. next \in 1..Len(text) /\ line_at(text, next) = line + 1
      BY <1>2, <2>1
    <2>3. LineBreak(text, line) = next - 1
      BY <1>5 DEF LineBreak
    <2> HIDE DEF next
    <2>4. CASE line = 0
      BY <1>3, <2>2, <2>3, <2>4
    <2>5. CASE line # 0
      <3>1. ~(next <= LineFirst(text, line))
        <4> SUFFICES ASSUME next <= LineFirst(text, line) PROVE FALSE
          OBVIOUS
        <4>1. line_at(text, next) <= line_at(text, LineFirst(text, line))
          BY <1>3, <2>2, FeedsGrow
        <4> QED  BY <1>3, <2>2, <2>5, <4>1
      <3> QED  BY <1>3, <2>2, <2>3, <3>1
    <2> QED  BY <2>4, <2>5
  <1> QED  BY <1>3, <1>4, <1>5

LEMMA RenderLineTyped ==
  ASSUME NEW text, Len(text) \in Nat, NEW line \in 0..LineFeeds(text)
  PROVE  RenderLine(text, line).offset \in Nat /\ RenderLine(text, line).size \in Nat
  <1>1. /\ LineFirst(text, line) \in Nat
        /\ LineBreak(text, line) \in Nat /\ LineFirst(text, line) <= LineBreak(text, line)
    BY LineBounds
  <1> QED  BY <1>1 DEF RenderLine

-----------------------------------------------------------------------------
(* The caret *)

Carets == [cursor : Nat, goal_column : 0 .. Wide - 1]

LEMMA CaretAt ==
  ASSUME NEW c \in Carets, NEW cursor \in Nat
  PROVE  /\ [c EXCEPT !.cursor = cursor] \in Carets
         /\ [c EXCEPT !.cursor = cursor].cursor = cursor
  BY DEF Carets

(* Every move ends inside the document. *)
LEMMA MoveToTyped ==
  ASSUME NEW L, HistoryTyped(L), NEW c \in Carets,
         NEW text, Len(text) \in Nat, NEW count \in {0, LineFeeds(text) + 1},
         NEW offset \in Nat, NEW keep \in BOOLEAN
  PROVE  /\ editor_move_to(c, text, count, offset, keep) \in Carets
         /\ editor_move_to(c, text, count, offset, keep).cursor <= document_length
  <1> DEFINE cursor == Smaller(offset, document_length)
             line == line_at(current, cursor)
             column == IF keep \/ line >= count THEN c.goal_column
                       ELSE (cursor - RenderLine(text, line).offset) % Wide
  <1>1. document_length \in Nat
    BY CurrentTyped DEF document_length
  <1>2. cursor \in Nat /\ cursor <= document_length
    BY <1>1 DEF Smaller
  <1>3. line \in Nat
    BY <1>2, FeedsFinite, Zenon
  <1>4. LineFeeds(text) \in Nat
    BY FeedsFinite DEF LineFeeds
  <1>5. column \in 0 .. Wide - 1
    <2>1. CASE keep \/ line >= count
      BY <2>1 DEF Carets
    <2>2. CASE ~(keep \/ line >= count)
      <3>1. line \in 0..LineFeeds(text)
        BY <1>3, <1>4, <2>2
      <3>2. RenderLine(text, line).offset \in Nat
        BY <3>1, RenderLineTyped, Zenon
      <3>3. column = (cursor - RenderLine(text, line).offset) % Wide
        BY <2>2, Zenon
      <3>4. Wide \in Nat \ {0} /\ cursor - RenderLine(text, line).offset \in Int
        BY <1>2, <3>2, EditorAssumption
      <3>5. \A i \in Int, n \in Nat \ {0} : i % n \in 0 .. n - 1
        OBVIOUS
      <3> QED  BY <3>3, <3>4, <3>5, Zenon
    <2> QED  BY <2>1, <2>2, Zenon
  <1>6. editor_move_to(c, text, count, offset, keep)
          = [cursor |-> cursor, goal_column |-> column]
    BY Zenon DEF editor_move_to
  <1> HIDE DEF cursor, column
  <1> QED  BY <1>2, <1>5, <1>6 DEF Carets

-----------------------------------------------------------------------------
(* The invariant *)

EditorInv ==
    /\ HistoryTyped(Letters)
    /\ ~open => Len(timeline) = 1
    /\ caret \in Carets
    /\ CursorInDocument
    /\ render_text \in Seq(Letters)
    /\ line_count \in {0, LineFeeds(render_text) + 1}

Document == <<open, timeline, now, marks>>

Drawn == <<render_text, line_count>>

LEMMA Kept ==
  ASSUME EditorInv, UNCHANGED <<Document, Drawn, caret>>
  PROVE  EditorInv'
  BY DEF EditorInv, Document, Drawn, HistoryTyped, CursorInDocument, document_length,
         current, LineFeeds, line_at

(* Of a step that leaves the last frame alone. *)
LEMMA FrameKept ==
  ASSUME EditorInv, UNCHANGED Drawn
  PROVE  /\ render_text' \in Seq(Letters)
         /\ line_count' \in {0, LineFeeds(render_text') + 1}
  BY DEF EditorInv, Drawn

LEMMA MovedCaret ==
  ASSUME EditorInv, UNCHANGED <<Document, Drawn>>,
         NEW c \in Carets, NEW offset \in Nat, NEW keep \in BOOLEAN,
         caret' = editor_move_to(c, render_text, line_count, offset, keep)
  PROVE  EditorInv'
  <1>1. Len(render_text) \in Nat
    BY LenProperties DEF EditorInv
  <1>2. caret' \in Carets /\ caret'.cursor <= document_length
    BY <1>1, MoveToTyped DEF EditorInv
  <1>3. document_length' = document_length /\ HistoryTyped(Letters)'
        /\ (~open' => Len(timeline') = 1)
    BY DEF EditorInv, HistoryTyped, Document, document_length, current
  <1> QED  BY <1>2, <1>3, FrameKept DEF EditorInv, CursorInDocument, Drawn

LEMMA InsertStep ==
  ASSUME EditorInv, UNCHANGED Drawn, NEW new \in Seq(Letters), editor_insert(new)
  PROVE  EditorInv'
  <1> DEFINE text == TextAfterInsert(current, caret.cursor, new)
  <1>1. /\ current \in Seq(Letters) /\ Len(current) \in Nat
        /\ caret.cursor \in 0..Len(current) /\ caret.cursor \in Nat /\ Len(new) \in Nat
    <2>1. current \in Seq(Letters) /\ Len(current) \in Nat /\ Len(new) \in Nat
      BY CurrentTyped, LenProperties DEF EditorInv
    <2> QED  BY <2>1 DEF EditorInv, Carets, CursorInDocument, document_length
  <1>2. text \in Seq(Letters) /\ Len(text) = Len(current) + Len(new)
    BY <1>1, InsertedText, Zenon
  <1>3. /\ DocInsert(current, caret.cursor, new, TRUE)
        /\ caret' = [caret EXCEPT !.cursor = caret.cursor + Len(new)]
    <2>1. caret.cursor <= document_length
      BY <1>1 DEF document_length
    <2> QED  BY <2>1, Zenon DEF editor_insert, EditedAt
  <1>4. /\ Edit(text, caret.cursor # insertEnd, caret.cursor)
        /\ open /\ open' = open
    BY <1>3 DEF DocInsert
  <1> HIDE DEF text
  <1>5. HistoryTyped(Letters)' /\ current' = text
    BY <1>1, <1>2, <1>4, EditTyped, Zenon DEF EditorInv
  <1>6. caret' \in Carets /\ caret'.cursor = caret.cursor + Len(new)
    <2>1. caret.cursor + Len(new) \in Nat
      BY <1>1
    <2> QED  BY <1>3, <2>1, CaretAt, Zenon DEF EditorInv
  <1>7. CursorInDocument'
    BY <1>1, <1>2, <1>5, <1>6 DEF CursorInDocument, document_length
  <1> QED  BY <1>4, <1>5, <1>6, <1>7, FrameKept, Zenon DEF EditorInv

LEMMA RemoveStep ==
  ASSUME EditorInv, UNCHANGED Drawn, NEW offset \in Nat, editor_remove(offset)
  PROVE  EditorInv'
  <1> DEFINE text == TextAfterRemove(current, offset, 1)
  <1>1. /\ current \in Seq(Letters) /\ Len(current) \in Nat
        /\ offset + 1 <= Len(current)
    BY CurrentTyped DEF EditorInv, editor_remove, document_length
  <1>2. text \in Seq(Letters) /\ Len(text) = Len(current) - 1
    BY <1>1, RemovedText
  <1>3. /\ DocRemove(current, offset, 1, TRUE)
        /\ caret' = [caret EXCEPT !.cursor = offset]
    BY DEF editor_remove, EditedAt
  <1>4. Edit(text, TRUE, offset) /\ open /\ open' = open
    BY <1>3 DEF DocRemove
  <1> HIDE DEF text
  <1>5. HistoryTyped(Letters)' /\ current' = text
    BY <1>1, <1>2, <1>4, EditTyped, Zenon DEF EditorInv
  <1>6. caret' \in Carets /\ caret'.cursor = offset
    BY <1>3, CaretAt, Zenon DEF EditorInv
  <1>7. CursorInDocument'
    BY <1>1, <1>2, <1>5, <1>6 DEF CursorInDocument, document_length
  <1> QED  BY <1>4, <1>5, <1>6, <1>7, FrameKept, Zenon DEF EditorInv

LEMMA HistoryStep ==
  ASSUME EditorInv, UNCHANGED Drawn, NEW to \in 1..Len(timeline), to # now, History(to)
  PROVE  EditorInv'
  <1>1. caret.cursor \in Nat /\ DocMove(to, caret.cursor)
        /\ caret' = [caret EXCEPT !.cursor = Smaller(marks[to], Len(timeline[to]))]
    BY DEF EditorInv, Carets, History, EditedAt
  <1>2. HistoryTyped(Letters)' /\ current' = timeline[to]
    BY <1>1, MoveTyped, Zenon DEF EditorInv
  <1>3. marks[to] \in Nat /\ Len(timeline[to]) \in Nat
    <2>1. timeline[to] \in Seq(Letters)
      BY ElementOfSeq DEF EditorInv, HistoryTyped
    <2> QED  BY <2>1, LenProperties DEF EditorInv, HistoryTyped
  <1>4. /\ caret' \in Carets
        /\ caret'.cursor = Smaller(marks[to], Len(timeline[to]))
    <2>1. Smaller(marks[to], Len(timeline[to])) \in Nat
      BY <1>3 DEF Smaller
    <2> QED  BY <1>1, <2>1, CaretAt, Zenon DEF EditorInv
  <1>5. CursorInDocument'
    BY <1>2, <1>3, <1>4 DEF CursorInDocument, document_length, Smaller
  <1>6. open /\ open' = open
    BY <1>1 DEF DocMove
  <1> QED  BY <1>2, <1>4, <1>5, <1>6, FrameKept, Zenon DEF EditorInv

LEMMA LinesLooked ==
  ASSUME EditorInv, NEW line \in Nat, line < line_count
  PROVE  /\ RenderLine(render_text, line).offset \in Nat
         /\ RenderLine(render_text, line).size \in Nat
  <1>1. Len(render_text) \in Nat
    BY LenProperties DEF EditorInv
  <1>2. LineFeeds(render_text) \in Nat
    BY <1>1, FeedsFinite DEF LineFeeds
  <1>3. line \in 0..LineFeeds(render_text)
    BY <1>2 DEF EditorInv
  <1> QED  BY <1>1, <1>3, RenderLineTyped, Zenon

(* Every move by a line of the last frame, whatever the text has become. *)
LEMMA VerticalStep ==
  ASSUME EditorInv, NEW key, NEW delta \in Int, Vertical(key, delta)
  PROVE  EditorInv'
  <1> DEFINE line == LineBeside(caret, delta)
             here == line_at(current, caret.cursor)
  <1>1. /\ line_count # 0
        /\ caret' = editor_move_to(caret, render_text, line_count,
                                   Target(caret, line), TRUE)
        /\ UNCHANGED <<Document, Drawn>>
    BY Zenon DEF Vertical, Pressed, editor_move_vertical, Document, Drawn, docVars
  <1>2. /\ caret \in Carets /\ caret.cursor \in Nat /\ caret.goal_column \in Nat
    BY DEF EditorInv, Carets
  <1>3. here \in Nat
    BY <1>2, FeedsFinite, Zenon
  <1>4. line_count \in Nat /\ line_count >= 1
    <2>1. LineFeeds(render_text) \in Nat
      BY LenProperties, FeedsFinite DEF EditorInv, LineFeeds
    <2> QED  BY <1>1, <2>1 DEF EditorInv
  <1>5. line = IF here + delta < 0 THEN 0 ELSE Smaller(here + delta, line_count - 1)
    BY Zenon DEF LineBeside
  <1> HIDE DEF line, here
  <1>6. line \in Nat /\ line < line_count
    BY <1>3, <1>4, <1>5 DEF Smaller
  <1>7. Target(caret, line) \in Nat
    BY <1>2, <1>6, LinesLooked DEF Target, Smaller
  <1> QED  BY <1>1, <1>2, <1>7, MovedCaret

LEMMA HomeEndStep ==
  ASSUME EditorInv, HomeEnd
  PROVE  EditorInv'
  <1> DEFINE line == line_at(current, caret.cursor)
             target == RenderLine(render_text, line)
             home == Moved(target.offset)
  <1>1. /\ line < line_count
        /\ \/ caret' = home
           \/ \E c \in {caret, home} :
                 caret' = editor_move_to(c, render_text, line_count,
                                         target.offset + target.size, FALSE)
        /\ UNCHANGED <<Document, Drawn>>
    BY Zenon DEF HomeEnd, Pressed, Document, Drawn, docVars
  <1>2. caret \in Carets /\ caret.cursor \in Nat
    BY DEF EditorInv, Carets
  <1>3. line \in Nat
    BY <1>2, FeedsFinite, Zenon
  <1>4. target.offset \in Nat /\ target.offset + target.size \in Nat
    BY <1>1, <1>3, LinesLooked
  <1> HIDE DEF target
  <1>5. home = editor_move_to(caret, render_text, line_count, target.offset, FALSE)
    BY DEF Moved
  <1>6. home \in Carets
    <2>1. Len(render_text) \in Nat
      BY LenProperties DEF EditorInv
    <2> QED  BY <1>2, <1>4, <1>5, <2>1, MoveToTyped DEF EditorInv
  <1>7. CASE caret' = home
    BY <1>1, <1>2, <1>4, <1>5, <1>7, MovedCaret
  <1>8. ASSUME NEW c \in {caret, home},
               caret' = editor_move_to(c, render_text, line_count,
                                       target.offset + target.size, FALSE)
        PROVE  EditorInv'
    <2>1. c \in Carets
      BY <1>2, <1>6
    <2> QED  BY <1>1, <1>4, <1>8, <2>1, MovedCaret
  <1> QED  BY <1>1, <1>7, <1>8

LEMMA TypedTexts ==
  /\ \A c \in Typed : <<c>> \in Seq(Letters)
  /\ <<LF>> \in Seq(Letters)
  /\ Spaces \in Seq(Letters)
  BY EditorAssumption, FilesAssumption

LEMMA KeyStep ==
  ASSUME EditorInv, editor_handle_input
  PROVE  EditorInv'
  <1>1. /\ caret.cursor \in Nat /\ caret \in Carets
        /\ now \in 1..Len(timeline) /\ Len(timeline) \in Nat
    BY LenProperties DEF EditorInv, Carets, HistoryTyped
  <1>2. CASE Type
    BY <1>2, TypedTexts, InsertStep DEF Type, Pressed, Drawn
  <1>3. CASE Enter
    BY <1>3, TypedTexts, InsertStep DEF Enter, Pressed, Drawn
  <1>4. CASE Tab
    BY <1>4, TypedTexts, InsertStep DEF Tab, Pressed, Drawn
  <1>5. CASE Backspace
    <2>1. caret.cursor - 1 \in Nat
      BY <1>1, <1>5 DEF Backspace
    <2> QED  BY <1>5, <2>1, RemoveStep DEF Backspace, Pressed, Drawn
  <1>6. CASE Delete
    BY <1>1, <1>6, RemoveStep DEF Delete, Pressed, Drawn
  <1>7. CASE Left
    <2>1. caret.cursor - 1 \in Nat
      BY <1>1, <1>7 DEF Left
    <2>2. /\ caret' = editor_move_to(caret, render_text, line_count, caret.cursor - 1, FALSE)
          /\ UNCHANGED <<Document, Drawn>>
      BY <1>7, Zenon DEF Left, Moved, Pressed, Document, Drawn, docVars
    <2> QED  BY <1>1, <2>1, <2>2, MovedCaret
  <1>8. CASE Right
    <2>1. /\ caret' = editor_move_to(caret, render_text, line_count, caret.cursor + 1, FALSE)
          /\ UNCHANGED <<Document, Drawn>>
      BY <1>8, Zenon DEF Right, Moved, Pressed, Document, Drawn, docVars
    <2>2. caret.cursor + 1 \in Nat
      BY <1>1
    <2> QED  BY <1>1, <2>1, <2>2, MovedCaret, Zenon
  <1>9. CASE Up
    BY <1>9, VerticalStep DEF Up
  <1>10. CASE Down
    BY <1>10, VerticalStep DEF Down
  <1>11. CASE HomeEnd
    BY <1>11, HomeEndStep
  <1>12. CASE Undo
    <2>1. now - 1 \in 1..Len(timeline) /\ now - 1 # now
      BY <1>1, <1>12 DEF Undo
    <2> QED  BY <1>12, <2>1, HistoryStep DEF Undo, Pressed, Drawn
  <1>13. CASE Redo
    <2>1. now + 1 \in 1..Len(timeline) /\ now + 1 # now
      BY <1>1, <1>13 DEF Redo
    <2> QED  BY <1>13, <2>1, HistoryStep DEF Redo, Pressed, Drawn
  <1> QED  BY <1>2, <1>3, <1>4, <1>5, <1>6, <1>7, <1>8, <1>9, <1>10, <1>11, <1>12, <1>13
           DEF editor_handle_input

-----------------------------------------------------------------------------
(* The application *)

LEMMA FrameStep ==
  ASSUME EditorInv, draw_code_buffer
  PROVE  EditorInv'
  <1>1. /\ current \in Seq(Letters) /\ Len(current) \in Nat
        /\ document_length = Len(current)
        /\ caret \in Carets /\ caret.cursor \in Nat /\ caret.cursor <= Len(current)
    BY CurrentTyped DEF EditorInv, CursorInDocument, Carets, document_length
  <1>2. UNCHANGED Document
    BY DEF draw_code_buffer, docVars, Document
  <1>3. /\ render_text' \in Seq(Letters) /\ Len(render_text') \in Nat
        /\ line_count' \in {0, LineFeeds(render_text') + 1}
    <2>1. CASE dirty
      <3>1. << >> \in Seq(Letters)
        BY EmptySeq
      <3>2. \/ render_text' = current /\ line_count' = LineFeeds(current) + 1
            \/ render_text' \in {current, << >>} /\ line_count' = 0
        BY <2>1, Zenon DEF draw_code_buffer, render_buffer_rebuild
      <3>3. render_text' \in Seq(Letters)
        BY <1>1, <3>1, <3>2, Zenon
      <3>4. line_count' \in {0, LineFeeds(render_text') + 1}
        BY <3>2, Zenon
      <3> QED  BY <3>3, <3>4, LenProperties
    <2>2. CASE ~dirty
      <3>1. UNCHANGED Drawn
        BY <2>2, Zenon DEF draw_code_buffer, render_buffer_rebuild, Drawn
      <3> QED  BY <3>1, FrameKept, LenProperties
    <2> QED  BY <2>1, <2>2
  <1>4. caret' \in Carets /\ caret'.cursor <= document_length
    <2>1. CASE caret' = [caret EXCEPT !.cursor = Smaller(@, document_length)]
      <3>1. /\ Smaller(caret.cursor, document_length) \in Nat
            /\ Smaller(caret.cursor, document_length) <= document_length
        BY <1>1 DEF Smaller
      <3> QED  BY <1>1, <2>1, <3>1, CaretAt, Zenon
    <2>2. ASSUME NEW line \in 0 .. line_count' - 1, NEW column \in Columns,
                 caret' = editor_move_to(caret, render_text', line_count',
                            RenderLine(render_text', line).offset
                              + Smaller(column, RenderLine(render_text', line).size), FALSE)
          PROVE  caret' \in Carets /\ caret'.cursor <= document_length
      <3> DEFINE target == RenderLine(render_text', line)
      <3>1. LineFeeds(render_text') \in Nat
        BY <1>3, FeedsFinite DEF LineFeeds
      <3>2. line \in 0..LineFeeds(render_text')
        <4>1. \A feeds \in Nat : \A count \in {0, feeds + 1} :
                 0..count - 1 \subseteq 0..feeds
          OBVIOUS
        <4> QED  BY <1>3, <2>2, <3>1, <4>1, Zenon
      <3>3. target.offset \in Nat /\ target.size \in Nat
        BY <1>3, <3>2, RenderLineTyped, Zenon
      <3>4. column \in Nat
        BY <2>2, EditorAssumption
      <3> HIDE DEF target
      <3>5. target.offset + Smaller(column, target.size) \in Nat
        BY <3>3, <3>4 DEF Smaller
      <3> QED  BY <1>1, <1>3, <2>2, <3>5, MoveToTyped, Zenon DEF EditorInv, target
    <2> QED  BY <2>1, <2>2, Zenon DEF draw_code_buffer
  <1>5. document_length' = document_length /\ HistoryTyped(Letters)'
        /\ (~open' => Len(timeline') = 1)
    BY <1>2 DEF EditorInv, HistoryTyped, Document, document_length, current
  <1> QED  BY <1>3, <1>4, <1>5 DEF EditorInv, CursorInDocument

LEMMA AcceptStep ==
  ASSUME EditorInv, UNCHANGED <<Drawn, caret>>, NEW text \in Files, DocAccept(text)
  PROVE  EditorInv'
  <1>1. ~open /\ open' = open /\ text \in Seq(Letters)
    BY FilesAssumption DEF DocAccept
  <1>2. HistoryTyped(Letters)' /\ Len(timeline') = 1 /\ Len(current') >= Len(current)
    BY <1>1, AcceptTyped DEF EditorInv
  <1>3. CursorInDocument'
    <2>1. Len(current) \in Nat /\ Len(current') \in Nat
      <3>1. current' \in Seq(Letters)
        BY <1>2, ElementOfSeq DEF HistoryTyped, current
      <3> QED  BY <3>1, CurrentTyped, LenProperties DEF EditorInv
    <2> QED  BY <1>2, <2>1 DEF EditorInv, CursorInDocument, document_length, Carets
  <1> QED  BY <1>1, <1>2, <1>3, FrameKept DEF EditorInv

LEMMA AppStep ==
  ASSUME EditorInv, [AppNext]_allVars
  PROVE  EditorInv'
  <1>1. CASE SDL_AppInit
    <2>1. CASE AcceptFile
      <3>1. CASE \E text \in Files : DocAccept(text)
        BY <2>1, <3>1, AcceptStep DEF AcceptFile, editorVars, Drawn
      <3>2. CASE UNCHANGED docVars
        BY <2>1, <3>2, Kept DEF AcceptFile, docVars, editorVars, Document, Drawn
      <3> QED  BY <2>1, <3>1, <3>2 DEF AcceptFile
    <2>2. CASE FinishBuilder
      <3>1. /\ UNCHANGED <<timeline, now, marks, Drawn, caret>>
            /\ open' = TRUE \/ open' = open
        BY <2>2 DEF FinishBuilder, DocFinish, docVars, editorVars, Drawn
      <3> QED  BY <3>1 DEF EditorInv, HistoryTyped, Drawn, CursorInDocument,
                            document_length, current, LineFeeds, line_at
    <2>3. CASE Acquire \/ PushEditor \/ FindFile \/ StartBuilder \/ MakeParser \/ LogOpened
      <3>1. UNCHANGED <<Document, Drawn, caret>>
        BY <2>3 DEF Acquire, PushEditor, FindFile, StartBuilder, MakeParser, LogOpened,
                    docVars, editorVars, Document, Drawn
      <3> QED  BY <3>1, Kept
    <2> QED  BY <1>1, <2>1, <2>2, <2>3 DEF SDL_AppInit
  <1>2. CASE HandleKey
    BY <1>2, KeyStep DEF HandleKey
  <1>3. CASE Frame
    BY <1>3, FrameStep DEF Frame
  <1>4. CASE QuitEvent \/ Release \/ UNCHANGED allVars
    <2>1. UNCHANGED <<Document, Drawn, caret>>
      BY <1>4 DEF QuitEvent, Release, allVars, docVars, editorVars, Document, Drawn
    <2> QED  BY <2>1, Kept
  <1> QED  BY <1>1, <1>2, <1>3, <1>4 DEF AppNext

LEMMA AppStart ==
  ASSUME AppInit
  PROVE  EditorInv
  <1>1. HistoryTyped(Letters) /\ Len(timeline) = 1 /\ Len(current) = 0
    BY InitTyped DEF AppInit
  <1>2. render_text \in Seq(Letters)
    BY EmptySeq DEF AppInit, EditorInit
  <1>3. [cursor |-> 0, goal_column |-> 0] \in Carets
    BY EditorAssumption DEF Carets
  <1> QED  BY <1>1, <1>2, <1>3 DEF AppInit, EditorInit, EditorInv,
                                   CursorInDocument, document_length

(* The caret never leaves the document, whichever keys a frame brings and  *)
(* however often the lines of the frame before are used on a text that is  *)
(* no longer theirs (editor_move_to, editor_undo and editor_redo limit it, *)
(* and insertions and removals move it along).                             *)
THEOREM CaretStaysInDocument == AppSpec => []CursorInDocument
  <1>1. AppInit => EditorInv
    BY AppStart
  <1>2. EditorInv /\ [AppNext]_allVars => EditorInv'
    BY AppStep
  <1>3. EditorInv => CursorInDocument
    BY DEF EditorInv
  <1> QED  BY <1>1, <1>2, <1>3, PTL DEF AppSpec

-----------------------------------------------------------------------------
(* What is drawn *)

(* Before the first frame there are no lines. *)
DrawnInv ==
    /\ FrameShowsDocument
    /\ stage \in {"running", "quitting", "ended", "crashed"} \/ line_count = 0

(* A step that changes the document before the first frame, or marks it.   *)
LEMMA StillDrawn ==
  ASSUME DrawnInv, UNCHANGED Drawn,
         \/ line_count = 0
         \/ dirty' = TRUE
         \/ UNCHANGED <<docVars, dirty>>
  PROVE  FrameShowsDocument'
  BY DEF DrawnInv, FrameShowsDocument, Drawn, docVars, current, LineFeeds, line_at

LEMMA DrawnStep ==
  ASSUME DrawnInv, [AppNext]_allVars
  PROVE  DrawnInv'
  <1> DEFINE later == {"running", "quitting", "ended", "crashed"}
  <1>1. CASE SDL_AppInit
    <2>1. stage \notin later /\ UNCHANGED Drawn
      BY <1>1 DEF SDL_AppInit, Acquire, PushEditor, FindFile, StartBuilder, AcceptFile,
                  FinishBuilder, MakeParser, LogOpened, editorVars, Drawn
    <2>2. line_count = 0 /\ line_count' = 0
      BY <2>1 DEF DrawnInv, Drawn
    <2> QED  BY <2>1, <2>2, StillDrawn DEF DrawnInv
  <1>2. CASE HandleKey
    <2>1. /\ UNCHANGED Drawn
          /\ stage \in later /\ stage' \in later
          /\ dirty' = TRUE \/ UNCHANGED <<docVars, dirty>>
      BY <1>2, Zenon
         DEF HandleKey, appVars, editor_handle_input, Pressed, Drawn,
             Type, Enter, Tab, Backspace, Delete, editor_insert, editor_remove, EditedAt,
             Left, Right, Up, Down, Vertical, HomeEnd, Undo, Redo, History
    <2> QED  BY <2>1, StillDrawn DEF DrawnInv
  <1>3. CASE Frame
    <2>1. stage' \in later
      BY <1>3 DEF Frame
    <2>2. /\ UNCHANGED docVars /\ render_buffer_rebuild
      BY <1>3 DEF Frame, draw_code_buffer
    <2>3. ASSUME dirty PROVE FrameShowsDocument'
      <3>1. current' = current
        BY <2>2 DEF docVars, current
      <3>2. \/ render_text' = current /\ line_count' = LineFeeds(current) + 1
            \/ line_count' = 0
        BY <2>2, <2>3, Zenon DEF render_buffer_rebuild
      <3>3. LineFeeds(current)' = LineFeeds(current)
        BY <3>1 DEF LineFeeds, line_at
      <3> QED  BY <3>1, <3>2, <3>3, Zenon DEF FrameShowsDocument
    <2>4. ASSUME ~dirty PROVE FrameShowsDocument'
      <3>1. UNCHANGED Drawn /\ current' = current
        BY <2>2, <2>4 DEF render_buffer_rebuild, Drawn, docVars, current
      <3> QED  BY <2>4, <3>1 DEF DrawnInv, FrameShowsDocument, Drawn, LineFeeds, line_at
    <2> QED  BY <2>1, <2>3, <2>4 DEF DrawnInv
  <1>4. CASE QuitEvent \/ Release \/ UNCHANGED allVars
    <2>1. /\ UNCHANGED <<docVars, Drawn, dirty>>
          /\ stage' = stage \/ stage' \in later
      BY <1>4 DEF QuitEvent, Release, Fails, allVars, editorVars, appVars, Drawn
    <2> QED  BY <2>1, StillDrawn DEF DrawnInv, Drawn
  <1> QED  BY <1>1, <1>2, <1>3, <1>4 DEF AppNext

(* Whatever is edited, undone or redone, a frame ends with the text of the *)
(* document in the render buffer, with all its lines, or with none if      *)
(* there is no memory for it (render_buffer_rebuild, and the dirty flag    *)
(* that each of them sets).                                                *)
THEOREM FramesShowTheDocument == AppSpec => []FrameShowsDocument
  <1>1. AppInit => DrawnInv
    BY DEF AppInit, EditorInit, DrawnInv, FrameShowsDocument
  <1>2. DrawnInv /\ [AppNext]_allVars => DrawnInv'
    BY DrawnStep
  <1>3. DrawnInv => FrameShowsDocument
    BY DEF DrawnInv
  <1> QED  BY <1>1, <1>2, <1>3, PTL DEF AppSpec

-----------------------------------------------------------------------------
(* Up and Down *)

LEMMA OnLine ==
  ASSUME NEW text, Len(text) \in Nat, NEW line \in 0..LineFeeds(text),
         NEW offset \in LineFirst(text, line)..LineBreak(text, line)
  PROVE  line_at(text, offset) = line
  <1>1. /\ LineFirst(text, line) \in Nat /\ LineBreak(text, line) \in Nat
        /\ LineBreak(text, line) <= Len(text)
        /\ offset \in Nat /\ LineFirst(text, line) <= offset /\ offset <= LineBreak(text, line)
        /\ line \in Nat /\ line <= LineFeeds(text)
    <2>1. LineFeeds(text) \in Nat
      BY FeedsFinite DEF LineFeeds
    <2> QED  BY <2>1, LineBounds
  <1>2. line_at(text, offset) \in Nat
    BY <1>1, FeedsFinite, Zenon
  <1>3. line <= line_at(text, offset)
    <2>1. CASE line = 0
      BY <1>2, <2>1
    <2>2. CASE line # 0
      <3>1. line_at(text, LineFirst(text, line)) = line
        BY <1>1, <2>2, FirstOfLine
      <3>2. line_at(text, LineFirst(text, line)) <= line_at(text, offset)
        BY <1>1, FeedsGrow
      <3> QED  BY <3>1, <3>2
    <2> QED  BY <2>1, <2>2
  <1>4. line_at(text, LineBreak(text, line)) = line
    <2>1. CASE line = LineFeeds(text)
      BY <2>1 DEF LineBreak, LineFeeds
    <2>2. CASE line # LineFeeds(text)
      <3> DEFINE next == LineFirst(text, line + 1)
                 last == LineBreak(text, line)
      <3>1. line + 1 \in Nat \ {0} /\ line + 1 <= LineFeeds(text)
        <4>1. LineFeeds(text) \in Nat
          BY FeedsFinite DEF LineFeeds
        <4> QED  BY <1>1, <2>2, <4>1
      <3>2. next \in 1..Len(text) /\ text[next] = LF /\ line_at(text, next) = line + 1
        BY <3>1, FirstOfLine, Zenon
      <3>3. last = next - 1
        BY <2>2 DEF LineBreak
      <3> HIDE DEF next, last
      <3>4. last \in Nat /\ last + 1 = next
        BY <3>2, <3>3
      <3>5. line_at(text, last) \in Nat
        BY <3>4, FeedsFinite, Zenon
      <3>6. line_at(text, last + 1) = line_at(text, last) + (IF text[last+1] = LF THEN 1 ELSE 0)
        BY <3>4, FeedsStep, Zenon
      <3>7. line + 1 = line_at(text, last) + 1
        BY <3>2, <3>4, <3>6
      <3> QED  BY <1>1, <3>5, <3>7 DEF last
    <2> QED  BY <2>1, <2>2
  <1>5. line_at(text, offset) <= line_at(text, LineBreak(text, line))
    BY <1>1, FeedsGrow
  <1> QED  BY <1>1, <1>2, <1>3, <1>4, <1>5

LEMMA TargetOnLine ==
  ASSUME EditorInv, render_text = current, NEW c \in Carets,
         NEW line \in 0..LineFeeds(current)
  PROVE  /\ Target(c, line) \in Nat /\ Target(c, line) <= document_length
         /\ line_at(current, Target(c, line)) = line
  <1> DEFINE target == RenderLine(current, line)
             first == LineFirst(current, line)
             last == LineBreak(current, line)
  <1>1. Len(current) \in Nat
    BY CurrentTyped DEF EditorInv
  <1>2. /\ first \in Nat /\ last \in Nat /\ first <= last /\ last <= Len(current)
    BY <1>1, LineBounds
  <1>3. target.offset = first /\ target.size \in Nat /\ target.size <= last - first
    BY <1>2 DEF RenderLine
  <1>4. Target(c, line) = target.offset + Smaller(c.goal_column, target.size)
    BY Zenon DEF Target
  <1> HIDE DEF target, first, last
  <1>5. Target(c, line) \in first..last
    BY <1>2, <1>3, <1>4 DEF Smaller, Carets
  <1>6. line_at(current, Target(c, line)) = line
    BY <1>1, <1>5, OnLine DEF first, last
  <1> QED  BY <1>2, <1>5, <1>6 DEF document_length

(* On an unedited text Up and Down undo each other from a caret that is as *)
(* far on its line as the goal column and the line allow, whatever the     *)
(* lines are (editor_move_vertical keeps the goal column).                 *)
THEOREM VerticalMovesComeBack == AppSpec => []VerticalMovesReturn
  <1>1. ASSUME EditorInv
        PROVE  VerticalMovesReturn
    <2> DEFINE line == line_at(current, caret.cursor)
    <2> SUFFICES ASSUME FrameShowsDocument, line_count # 0, ~dirty,
                        caret.cursor = Target(caret, line),
                        NEW delta \in {-1, 1}, line + delta \in Lines
                 PROVE  editor_move_vertical(editor_move_vertical(caret, delta), -delta) = caret
      BY DEF VerticalMovesReturn
    <2> DEFINE other == line + delta
               moved == [cursor |-> Target(caret, other), goal_column |-> caret.goal_column]
    <2>1. /\ render_text = current /\ line_count = LineFeeds(current) + 1
          /\ LineFeeds(current) \in Nat
      <3>1. Len(current) \in Nat
        BY <1>1, CurrentTyped DEF EditorInv
      <3> QED  BY <3>1, FeedsFinite DEF FrameShowsDocument, LineFeeds
    <2>2. /\ caret \in Carets /\ caret.cursor \in Nat /\ caret.cursor <= document_length
          /\ caret.goal_column \in Nat /\ document_length \in Nat
      <3>1. document_length \in Nat
        BY <1>1, CurrentTyped DEF EditorInv, document_length
      <3> QED  BY <1>1, <3>1 DEF EditorInv, Carets, CursorInDocument
    <2>3. line \in 0..LineFeeds(current)
      <3>1. line \in Nat
        BY <2>2, FeedsFinite, Zenon
      <3>2. line <= LineFeeds(current)
        BY <2>2, FeedsGrow DEF LineFeeds, document_length
      <3> QED  BY <2>1, <3>1, <3>2
    <2>4. other \in 0..LineFeeds(current)
      BY DEF Lines
    <2>5. /\ Target(caret, other) \in Nat /\ Target(caret, other) <= document_length
          /\ line_at(current, Target(caret, other)) = other
      BY <1>1, <2>1, <2>2, <2>4, TargetOnLine, Zenon
    <2> HIDE DEF line
    <2>6. editor_move_vertical(caret, delta) = moved
      <3>1. LineBeside(caret, delta) = other
        BY <2>1, <2>3, <2>4 DEF LineBeside, Smaller, line
      <3>2. Smaller(Target(caret, other), document_length) = Target(caret, other)
        BY <2>2, <2>5 DEF Smaller
      <3> QED  BY <3>1, <3>2, Zenon DEF editor_move_vertical, editor_move_to
    <2>7. editor_move_vertical(moved, -delta)
            = [cursor |-> caret.cursor, goal_column |-> caret.goal_column]
      <3>1. line_at(current, moved.cursor) + (-delta) = line
        BY <2>3, <2>5
      <3>2. LineBeside(moved, -delta) = line
        BY <2>1, <2>3, <3>1 DEF LineBeside, Smaller
      <3>3. Target(moved, line) = caret.cursor
        BY DEF Target
      <3>4. Smaller(caret.cursor, document_length) = caret.cursor
        BY <2>2 DEF Smaller
      <3> QED  BY <3>2, <3>3, <3>4, Zenon DEF editor_move_vertical, editor_move_to
    <2> QED  BY <2>2, <2>6, <2>7 DEF Carets
  <1>2. AppInit => EditorInv
    BY AppStart
  <1>3. EditorInv /\ [AppNext]_allVars => EditorInv'
    BY AppStep
  <1> QED  BY <1>1, <1>2, <1>3, PTL DEF AppSpec

-----------------------------------------------------------------------------
(* Resources *)

(* The stages from one of SDL_AppInit on, without those of the end. *)
FromLog       == {"log", "running"}
FromParser    == {"parser"} \cup FromLog
FromRender    == {"render_arena"} \cup FromParser
FromTree      == {"tree"} \cup FromRender
FromDocument  == {"document"} \cup FromTree
FromBuilder   == {"builder"} \cup FromDocument
FromArena     == {"document_arena"} \cup FromBuilder
FromPath      == {"path"} \cup FromArena
FromRenderer  == {"renderer"} \cup FromPath
FromPlatform  == {"platform"} \cup FromRenderer
FromContext   == {"context"} \cup FromPlatform
FromClaim     == {"claim"} \cup FromContext
FromDevice    == {"device"} \cup FromClaim
FromWindow    == {"window"} \cup FromDevice
FromSDL       == {"sdl"} \cup FromWindow
FromEditor    == {"editor_state"} \cup FromSDL

Ending == {"quitting", "ended", "crashed"}

(* What has been acquired for certain when a stage is reached, as far as a *)
(* later stage rests on it.                                                *)
Supplied ==
    /\ stage \in FromEditor   => "app_arena" \in held
    /\ stage \in FromSDL      => "editor_state" \in held
    /\ stage \in FromWindow   => "sdl" \in held
    /\ stage \in FromDevice   => "window" \in held
    /\ stage \in FromClaim    => "device" \in held
    /\ stage \in FromPlatform => "context" \in held
    /\ stage \in FromBuilder  => "document_arena" \in held

(* What has not been acquired yet. *)
Unsupplied ==
    /\ stage = "app_arena" => held = {}
    /\ stage = "editor_state" => held = {"app_arena"}
    /\ "tree" \in held => stage \in FromRender \cup Ending

(* The support of each resource in turn. *)
Supported(r) ==
    /\ "window" \in r       => "sdl" \in r
    /\ "device" \in r       => "sdl" \in r
    /\ "claim" \in r        => "window" \in r /\ "device" \in r
    /\ "renderer" \in r     => "device" \in r /\ "context" \in r
    /\ "platform" \in r     => "window" \in r /\ "context" \in r
    /\ "editor_state" \in r => "app_arena" \in r
    /\ "builder" \in r      => "document_arena" \in r
    /\ "tree" \in r         => "document_arena" \in r /\ "editor_state" \in r
    /\ "parser" \in r       => "editor_state" \in r
    /\ "render_arena" \in r => "editor_state" \in r
    /\ "syntax_tree" \in r  => "editor_state" \in r

Resources ==
    {"app_arena", "editor_state", "sdl", "window", "device", "claim", "context",
     "platform", "renderer", "document_arena", "builder", "tree", "render_arena",
     "parser", "syntax_tree"}

(* The arenas of the builder are taken over by the tree or by nobody. *)
Owned ==
    /\ ~({"builder", "tree"} \subseteq held)
    /\ open => stage \in FromRender \cup Ending
    /\ open => "builder" \notin held
    /\ open /\ "document_arena" \in held => "tree" \in held

(* Without an editor state SDL_AppQuit has nothing to find the arena by. *)
Found == stage = "quitting" /\ "editor_state" \notin held => "app_arena" \notin held

LifeInv ==
    /\ stage \in FromEditor \cup Ending \cup {"app_arena"}
    /\ held \subseteq Resources
    /\ Supported(held)
    /\ Supplied
    /\ Unsupplied
    /\ Owned
    /\ Found
    /\ AllReleased

LEMMA SupportedMeans ==
  Supported(held) <=> NothingLosesItsSupport
  <1>1. /\ DOMAIN Needs = {"window", "device", "claim", "renderer", "platform",
                           "editor_state", "builder", "tree", "parser",
                           "render_arena", "syntax_tree"}
        /\ Needs["window"] = {"sdl"}
        /\ Needs["device"] = {"sdl"}
        /\ Needs["claim"] = {"window", "device"}
        /\ Needs["renderer"] = {"device", "context"}
        /\ Needs["platform"] = {"window", "context"}
        /\ Needs["editor_state"] = {"app_arena"}
        /\ Needs["builder"] = {"document_arena"}
        /\ Needs["tree"] = {"document_arena", "editor_state"}
        /\ Needs["parser"] = {"editor_state"}
        /\ Needs["render_arena"] = {"editor_state"}
        /\ Needs["syntax_tree"] = {"editor_state"}
    BY DEF Needs
  <1> QED  BY <1>1 DEF Supported, NothingLosesItsSupport

(* The way from stage to stage. *)
LEMMA Stagewise ==
  /\ Following("app_arena") = "editor_state" /\ Following("editor_state") = "sdl"
  /\ Following("sdl") = "window" /\ Following("window") = "device"
  /\ Following("device") = "claim" /\ Following("claim") = "context"
  /\ Following("context") = "platform" /\ Following("platform") = "renderer"
  /\ Following("renderer") = "path" /\ Following("path") = "document_arena"
  /\ Following("document_arena") = "builder" /\ Following("builder") = "document"
  /\ Following("document") = "tree" /\ Following("tree") = "render_arena"
  /\ Following("render_arena") = "parser" /\ Following("parser") = "log"
  <1>1. DOMAIN Startup = 1..17
    BY DEF Startup
  <1>2. \A name : \A k \in 1..17 : Startup[k] = name /\ (\A i \in 1..17 : Startup[i] = name => i = k)
                       => Place(Startup, name) = k
    BY <1>1, Zenon DEF Place
  <1>3. \A i, j \in 1..17 : Startup[i] = Startup[j] => i = j
    BY DEF Startup
  <1>4. \A k \in 1..17 : Place(Startup, Startup[k]) = k
    BY <1>2, <1>3, Zenon
  <1>5. \A k \in 1..16 : Following(Startup[k]) = Startup[k + 1]
    <2> TAKE k \in 1..16
    <2>1. k \in 1..17 /\ Startup[k] # "log"
      BY DEF Startup
    <2> QED  BY <1>4, <2>1, Zenon DEF Following
  <1> QED  BY <1>5 DEF Startup

USE DEF LifeInv, Resources, Supported, Supplied, Unsupplied, Owned, Found, AllReleased,
        FromEditor, FromSDL, FromWindow, FromDevice, FromClaim, FromContext,
        FromPlatform, FromRenderer, FromPath, FromArena, FromBuilder,
        FromDocument, FromTree, FromRender, FromParser, FromLog, Ending

LEMMA AcquireLife ==
  ASSUME LifeInv, Acquire
  PROVE  LifeInv'
  <1>1. /\ stage \in {"app_arena", "sdl", "window", "device", "claim", "context",
                     "platform", "renderer", "document_arena", "render_arena"}
        /\ UNCHANGED open
    BY DEF Acquire, docVars
  <1>2. CASE held' = held \cup {stage} /\ Proceeds
    <2>1. CASE stage = "app_arena"
      <3>1. stage' = "editor_state"
        BY <1>2, <2>1, Stagewise DEF Proceeds
      <3> QED  BY <1>1, <1>2, <2>1, <3>1
    <2>2. CASE stage = "sdl"
      <3>1. stage' = "window"
        BY <1>2, <2>2, Stagewise DEF Proceeds
      <3> QED  BY <1>1, <1>2, <2>2, <3>1
    <2>3. CASE stage = "window"
      <3>1. stage' = "device"
        BY <1>2, <2>3, Stagewise DEF Proceeds
      <3> QED  BY <1>1, <1>2, <2>3, <3>1
    <2>4. CASE stage = "device"
      <3>1. stage' = "claim"
        BY <1>2, <2>4, Stagewise DEF Proceeds
      <3> QED  BY <1>1, <1>2, <2>4, <3>1
    <2>5. CASE stage = "claim"
      <3>1. stage' = "context"
        BY <1>2, <2>5, Stagewise DEF Proceeds
      <3> QED  BY <1>1, <1>2, <2>5, <3>1
    <2>6. CASE stage = "context"
      <3>1. stage' = "platform"
        BY <1>2, <2>6, Stagewise DEF Proceeds
      <3> QED  BY <1>1, <1>2, <2>6, <3>1
    <2>7. CASE stage = "platform"
      <3>1. stage' = "renderer"
        BY <1>2, <2>7, Stagewise DEF Proceeds
      <3> QED  BY <1>1, <1>2, <2>7, <3>1
    <2>8. CASE stage = "renderer"
      <3>1. stage' = "path"
        BY <1>2, <2>8, Stagewise DEF Proceeds
      <3> QED  BY <1>1, <1>2, <2>8, <3>1
    <2>9. CASE stage = "document_arena"
      <3>1. stage' = "builder"
        BY <1>2, <2>9, Stagewise DEF Proceeds
      <3> QED  BY <1>1, <1>2, <2>9, <3>1
    <2>10. CASE stage = "render_arena"
      <3>1. stage' = "parser"
        BY <1>2, <2>10, Stagewise DEF Proceeds
      <3> QED  BY <1>1, <1>2, <2>10, <3>1
    <2> QED  BY <1>1, <2>1, <2>2, <2>3, <2>4, <2>5, <2>6, <2>7, <2>8, <2>9, <2>10
  <1>3. CASE UNCHANGED held /\ Fails
    BY <1>1, <1>3 DEF Fails
  <1> QED  BY <1>2, <1>3 DEF Acquire

LEMMA StartLife ==
  ASSUME LifeInv, PushEditor \/ FindFile \/ StartBuilder \/ MakeParser
  PROVE  LifeInv'
  <1> USE DEF Proceeds, Fails, docVars
  <1>1. CASE PushEditor
    BY <1>1, Stagewise DEF PushEditor
  <1>2. CASE FindFile
    BY <1>2, Stagewise DEF FindFile
  <1>3. CASE StartBuilder
    BY <1>3, Stagewise DEF StartBuilder
  <1>4. CASE MakeParser
    BY <1>4, Stagewise DEF MakeParser
  <1> QED  BY <1>1, <1>2, <1>3, <1>4

LEMMA DocumentLife ==
  ASSUME LifeInv, AcceptFile \/ FinishBuilder \/ LogOpened
  PROVE  LifeInv'
  <1>1. CASE AcceptFile
    <2>1. UNCHANGED <<open, held>> /\ stage = "document" /\ stage' \in {"tree", "crashed"}
      BY <1>1, Stagewise DEF AcceptFile, Proceeds, DocAccept, docVars
    <2> QED  BY <2>1
  <1>2. CASE FinishBuilder
    <2>1. stage = "tree" /\ stage' = "render_arena"
      BY <1>2, Stagewise DEF FinishBuilder, Proceeds
    <2>2. CASE /\ "builder" \in held /\ held' = (held \ {"builder"}) \cup {"tree"}
               /\ open' = TRUE
      BY <2>1, <2>2
    <2>3. CASE UNCHANGED <<held, open>>
      BY <2>1, <2>3
    <2> QED  BY <1>2, <2>2, <2>3 DEF FinishBuilder, DocFinish, docVars
  <1>3. CASE LogOpened
    <2>1. /\ stage = "log" /\ stage' \in {"running", "crashed"}
          /\ UNCHANGED <<open, held>>
      BY <1>3 DEF LogOpened, docVars
    <2> QED  BY <2>1
  <1> QED  BY <1>1, <1>2, <1>3

LEMMA RunningLife ==
  ASSUME LifeInv, HandleKey \/ Frame \/ QuitEvent
  PROVE  LifeInv'
  <1>1. /\ stage = "running" /\ stage' \in {"running", "quitting"}
        /\ open' = open
    <2>1. CASE HandleKey
      BY <2>1
         DEF HandleKey, appVars, editor_handle_input, docVars,
             Type, Enter, Tab, Backspace, Delete, editor_insert, editor_remove,
             DocInsert, DocRemove, DocMove,
             Left, Right, Up, Down, Vertical, HomeEnd, Undo, Redo, History
    <2> QED  BY <2>1 DEF Frame, draw_code_buffer, QuitEvent, Fails, docVars
  <1>2. \/ UNCHANGED held
        \/ held' = held \ {"syntax_tree"}
        \/ held' = held \cup {"syntax_tree"}
    BY DEF HandleKey, Frame, Parse, QuitEvent, appVars
  <1> QED  BY <1>1, <1>2

LEMMA TupleTyped ==
  ASSUME NEW S, NEW s, NEW n \in Nat, s = [i \in 1..n |-> s[i]], \A i \in 1..n : s[i] \in S
  PROVE  s \in Seq(S) /\ Len(s) = n
  OBVIOUS

(* The order of both shutdowns together, place by place. *)
LEMMA ShutdownOrder ==
  /\ DOMAIN Shutdown = 1..12
  /\ Shutdown[1] = "renderer" /\ Shutdown[2] = "platform" /\ Shutdown[3] = "context"
  /\ Shutdown[4] = "claim" /\ Shutdown[5] = "device" /\ Shutdown[6] = "window"
  /\ Shutdown[7] = "sdl" /\ Shutdown[8] = "syntax_tree" /\ Shutdown[9] = "parser"
  /\ Shutdown[10] = "tree" /\ Shutdown[11] = "render_arena" /\ Shutdown[12] = "app_arena"
  /\ UIResources = {"renderer", "platform", "context", "claim", "device", "window", "sdl"}
  <1> DEFINE ui   == UIShutdown
             rest == <<"syntax_tree", "parser", "tree", "render_arena", "app_arena">>
             S    == {ui[i] : i \in 1..7} \cup {rest[i] : i \in 1..5}
  <1>1. ui = [i \in 1..7 |-> ui[i]] /\ DOMAIN ui = 1..7
    BY DEF UIShutdown
  <1>2. rest = [i \in 1..5 |-> rest[i]]
    OBVIOUS
  <1>3. /\ ui[1] = "renderer" /\ ui[2] = "platform" /\ ui[3] = "context" /\ ui[4] = "claim"
        /\ ui[5] = "device" /\ ui[6] = "window" /\ ui[7] = "sdl"
    BY DEF UIShutdown
  <1>4. /\ rest[1] = "syntax_tree" /\ rest[2] = "parser" /\ rest[3] = "tree"
        /\ rest[4] = "render_arena" /\ rest[5] = "app_arena"
    OBVIOUS
  <1>5. Shutdown = ui \o rest
    BY DEF Shutdown
  <1>6. UIResources = {ui[i] : i \in 1..7}
    BY <1>1, Zenon DEF UIResources, ToSet
  <1> HIDE DEF ui, rest
  <1>7. ui \in Seq(S) /\ Len(ui) = 7 /\ rest \in Seq(S) /\ Len(rest) = 5
    <2>1. /\ 7 \in Nat /\ \A i \in 1..7 : ui[i] \in S
          /\ 5 \in Nat /\ \A i \in 1..5 : rest[i] \in S
      OBVIOUS
    <2> HIDE DEF S
    <2> QED  BY <1>1, <1>2, <2>1, TupleTyped
  <1> HIDE DEF S
  <1>8. /\ DOMAIN Shutdown = 1..12
        /\ \A i \in 1..7 : Shutdown[i] = ui[i]
        /\ \A i \in 8..12 : Shutdown[i] = rest[i - 7]
    <2>1. /\ Shutdown \in Seq(S) /\ Len(Shutdown) = Len(ui) + Len(rest)
          /\ \A i \in 1..Len(ui) + Len(rest) :
                Shutdown[i] = IF i <= Len(ui) THEN ui[i] ELSE rest[i - Len(ui)]
      <3>1. ui \in Seq(S) /\ rest \in Seq(S)
        BY <1>7
      <3> DEFINE all == ui \o rest
      <3>2. /\ all \in Seq(S) /\ Len(all) = Len(ui) + Len(rest)
            /\ \A i \in 1..Len(ui) + Len(rest) :
                  all[i] = IF i <= Len(ui) THEN ui[i] ELSE rest[i - Len(ui)]
        BY <3>1, ConcatProperties, Zenon
      <3>3. Shutdown = all
        BY <1>5
      <3> HIDE DEF all
      <3> QED  BY <3>2, <3>3
    <2>2. Len(Shutdown) = 12 /\ \A i \in 1..12 : Shutdown[i] = IF i <= 7 THEN ui[i] ELSE rest[i - 7]
      BY <1>7, <2>1
    <2>3. DOMAIN Shutdown = 1..12
      <3>1. Shutdown \in Seq(S) /\ Len(Shutdown) = 12
        BY <2>1, <2>2
      <3> QED  BY <3>1
    <2> QED  BY <2>2, <2>3
  <1>9. UIResources = {"renderer", "platform", "context", "claim", "device", "window", "sdl"}
    BY <1>3, <1>6
  <1> QED  BY <1>3, <1>4, <1>8, <1>9

(* What is released is there, and all before it in the order is gone, or   *)
(* cannot be found.                                                       *)
LEMMA FirstUnreleased ==
  ASSUME Unreleased # {}
  PROVE  /\ Min(Unreleased) \in 1..12
         /\ Shutdown[Min(Unreleased)] \in held
         /\ Shutdown[Min(Unreleased)] \in UIResources \/ "editor_state" \in held
         /\ \A k \in 1..12 : k < Min(Unreleased) =>
               ~(Shutdown[k] \in held /\ (Shutdown[k] \in UIResources \/ "editor_state" \in held))
  <1>1. DOMAIN Shutdown = 1..12
    BY ShutdownOrder
  <1>2. Unreleased \subseteq Nat
    BY <1>1 DEF Unreleased
  <1>3. PICK x \in Unreleased : \A y \in Unreleased : ~(<<y, x>> \in OpToRel(<, Nat))
    BY <1>2, WFMin, NatLessThanWellFounded, Zenon
  <1>4. \A y \in Unreleased : x <= y
    <2> SUFFICES ASSUME NEW y \in Unreleased, ~(x <= y) PROVE FALSE
      OBVIOUS
    <2>1. y \in Nat /\ x \in Nat /\ y < x
      BY <1>2
    <2>2. <<y, x>> \in OpToRel(<, Nat)
      BY <2>1, SMT DEF OpToRel
    <2> QED  BY <1>3, <2>2
  <1>5. Min(Unreleased) \in Unreleased /\ \A y \in Unreleased : Min(Unreleased) <= y
    BY <1>4, Zenon DEF Min
  <1> DEFINE m == Min(Unreleased)
  <1>6. m \in Unreleased /\ \A y \in Unreleased : m <= y
    BY <1>5, Zenon
  <1> HIDE DEF m
  <1>7. \A k \in 1..12 : k < m => k \notin Unreleased
    BY <1>2, <1>6
  <1> USE DEF m
  <1> QED  BY <1>1, <1>5, <1>7 DEF Unreleased

LEMMA ReleaseLife ==
  ASSUME LifeInv, Release
  PROVE  LifeInv'
  <1>1. stage = "quitting" /\ UNCHANGED open
    BY DEF Release, docVars
  <1>2. CASE Unreleased = {}
    <2>1. stage' = "ended" /\ UNCHANGED held
      BY <1>2 DEF Release
    <2>2. \A k \in 1..12 : ~(/\ Shutdown[k] \in held
                             /\ Shutdown[k] \in UIResources \/ "editor_state" \in held)
      BY <1>2, ShutdownOrder DEF Unreleased
    <2>3. held \subseteq (IF open THEN {} ELSE {"document_arena", "builder"})
      BY <1>1, <2>2, ShutdownOrder
    <2> QED  BY <1>1, <2>1, <2>3
  <1>3. CASE Unreleased # {}
    <2> DEFINE k == Min(Unreleased)
    <2>1. /\ k \in 1..12 /\ Shutdown[k] \in held
          /\ Shutdown[k] \in UIResources \/ "editor_state" \in held
          /\ \A i \in 1..12 : i < k =>
                ~(Shutdown[i] \in held /\ (Shutdown[i] \in UIResources \/ "editor_state" \in held))
      BY <1>3, FirstUnreleased
    <2>2. held' = held \ ReleasedWith(Shutdown[k]) /\ stage' = stage
      BY <1>3 DEF Release
    <2> HIDE DEF k
    <2>3. CASE k \in 1..7
      BY <1>1, <2>1, <2>2, <2>3, ShutdownOrder DEF ReleasedWith
    <2>4. CASE k \in 8..12
      BY <1>1, <2>1, <2>2, <2>4, ShutdownOrder DEF ReleasedWith
    <2> QED  BY <2>1, <2>3, <2>4
  <1> QED  BY <1>2, <1>3

LEMMA LifeStart ==
  ASSUME AppInit
  PROVE  LifeInv
  BY DEF AppInit, DocInit

HIDE DEF LifeInv, Resources, Supported, Supplied, Unsupplied, Owned, Found, AllReleased,
        FromEditor, FromSDL, FromWindow, FromDevice, FromClaim, FromContext,
        FromPlatform, FromRenderer, FromPath, FromArena, FromBuilder,
        FromDocument, FromTree, FromRender, FromParser, FromLog, Ending

LEMMA LifeStep ==
  ASSUME LifeInv, [AppNext]_allVars
  PROVE  LifeInv'
  <1>1. CASE UNCHANGED allVars
    <2>1. UNCHANGED <<stage, held, open>>
      BY <1>1 DEF allVars, appVars, docVars
    <2> QED  BY <2>1 DEF LifeInv, Supported, Supplied, Unsupplied, Owned, Found, AllReleased
  <1> QED  BY <1>1, AcquireLife, StartLife, DocumentLife, RunningLife, ReleaseLife
           DEF AppNext, SDL_AppInit

(* Wherever starting up fails and in every step of shutting down, what is  *)
(* left has what it rests on: UI::shutdown and SDL_AppQuit release in an   *)
(* order in which nothing goes before what uses it, and the application's  *)
(* arena is given up at once only while nothing else lies in it.           *)
THEOREM ResourcesKeepTheirSupport == AppSpec => []NothingLosesItsSupport
  <1>1. LifeInv => NothingLosesItsSupport
    BY SupportedMeans DEF LifeInv
  <1> QED  BY <1>1, LifeStart, LifeStep, PTL DEF AppSpec

(* Whichever acquisitions failed, SDL_AppQuit ends with nothing held, save *)
(* the arenas of a builder that could not be finished: an editor state is  *)
(* never without its arena, and with neither of them nothing hangs on it.  *)
THEOREM AllIsReleased == AppSpec => []AllReleased
  <1>1. LifeInv => AllReleased
    BY DEF LifeInv
  <1> QED  BY <1>1, LifeStart, LifeStep, PTL DEF AppSpec

-----------------------------------------------------------------------------
(* Keys *)

LEMMA Ranks ==
  /\ Rank("text") = 1 /\ Rank("enter") = 2 /\ Rank("tab") = 3
  /\ Rank("backspace") = 4 /\ Rank("delete") = 5 /\ Rank("left") = 6
  /\ Rank("right") = 7 /\ Rank("up") = 8 /\ Rank("down") = 9
  /\ Rank("home_end") = 10 /\ Rank("undo") = 11 /\ Rank("redo") = 12
  <1>1. DOMAIN KeyOrder = 1..12
    BY DEF KeyOrder
  <1>2. \A i, j \in 1..12 : KeyOrder[i] = KeyOrder[j] => i = j
    BY DEF KeyOrder
  <1>3. \A k \in 1..12 : Rank(KeyOrder[k]) = k
    BY <1>1, <1>2, Zenon DEF Rank
  <1> QED  BY <1>3 DEF KeyOrder

(* The keys, by what they do besides going on in the order. *)
LEMMA KeyRanks ==
  ASSUME editor_handle_input
  PROVE  /\ keys < MaxKeys /\ keys' = keys + 1
         /\ looked_at' \in 1..12
         /\ dirty' = dirty \/ dirty' = TRUE
         /\ looked_at' = 8 => Up
         /\ looked_at' = 9 => Down
         /\ looked_at' = 10 => HomeEnd
  <1> DEFINE Handled(key) == Pressed(key) /\ (dirty' = dirty \/ dirty' = TRUE)
  <1>1. \A key : Pressed(key) => keys < MaxKeys /\ keys' = keys + 1 /\ looked_at' = Rank(key)
    BY Zenon DEF Pressed
  <1>2. Type => Handled("text")
    BY Zenon DEF Type, editor_insert, EditedAt
  <1>3. Enter => Handled("enter")
    BY Zenon DEF Enter, editor_insert, EditedAt
  <1>4. Tab => Handled("tab")
    BY Zenon DEF Tab, editor_insert, EditedAt
  <1>5. Backspace => Handled("backspace")
    BY Zenon DEF Backspace, editor_remove, EditedAt
  <1>6. Delete => Handled("delete")
    BY Zenon DEF Delete, editor_remove, EditedAt
  <1>7. Left => Handled("left")
    BY Zenon DEF Left
  <1>8. Right => Handled("right")
    BY Zenon DEF Right
  <1>9. Up => Handled("up")
    BY Zenon DEF Up, Vertical
  <1>10. Down => Handled("down")
    BY Zenon DEF Down, Vertical
  <1>11. HomeEnd => Handled("home_end")
    BY Zenon DEF HomeEnd
  <1>12. Undo => Handled("undo")
    BY Zenon DEF Undo, History, EditedAt
  <1>13. Redo => Handled("redo")
    BY Zenon DEF Redo, History, EditedAt
  <1> HIDE DEF Handled
  <1>14. \A key : Handled(key) => keys < MaxKeys /\ keys' = keys + 1 /\ looked_at' = Rank(key)
    BY <1>1, Zenon DEF Handled
  <1>15. dirty' = dirty \/ dirty' = TRUE
    BY <1>2, <1>3, <1>4, <1>5, <1>6, <1>7, <1>8, <1>9, <1>10, <1>11, <1>12, <1>13, Zenon
       DEF editor_handle_input, Handled
  <1> DEFINE Counted ==
         /\ keys < MaxKeys /\ keys' = keys + 1
         /\ looked_at' \in 1..12
         /\ looked_at' = 8 => Up
         /\ looked_at' = 9 => Down
         /\ looked_at' = 10 => HomeEnd
  <1>16. ASSUME Type PROVE Counted
    BY <1>16, <1>2, <1>14, Ranks
  <1>17. ASSUME Enter PROVE Counted
    BY <1>17, <1>3, <1>14, Ranks
  <1>18. ASSUME Tab PROVE Counted
    BY <1>18, <1>4, <1>14, Ranks
  <1>19. ASSUME Backspace PROVE Counted
    BY <1>19, <1>5, <1>14, Ranks
  <1>20. ASSUME Delete PROVE Counted
    BY <1>20, <1>6, <1>14, Ranks
  <1>21. ASSUME Left PROVE Counted
    BY <1>21, <1>7, <1>14, Ranks
  <1>22. ASSUME Right PROVE Counted
    BY <1>22, <1>8, <1>14, Ranks
  <1>23. ASSUME Up PROVE Counted
    BY <1>23, <1>9, <1>14, Ranks
  <1>24. ASSUME Down PROVE Counted
    BY <1>24, <1>10, <1>14, Ranks
  <1>25. ASSUME HomeEnd PROVE Counted
    BY <1>25, <1>11, <1>14, Ranks
  <1>26. ASSUME Undo PROVE Counted
    BY <1>26, <1>12, <1>14, Ranks
  <1>27. ASSUME Redo PROVE Counted
    BY <1>27, <1>13, <1>14, Ranks
  <1>28. Counted
    BY <1>16, <1>17, <1>18, <1>19, <1>20, <1>21, <1>22, <1>23, <1>24, <1>25, <1>26, <1>27
       DEF editor_handle_input
  <1> QED  BY <1>15, <1>28, Zenon

Ordered ==
    /\ dirty \in BOOLEAN
    /\ looked_at \in 0..12
    /\ keys \in 0..MaxKeys

LEMMA OrderedStep ==
  ASSUME Ordered, [AppNext]_allVars
  PROVE  Ordered'
  <1>1. MaxKeys \in Nat
    BY EditorAssumption
  <1>2. CASE HandleKey
    <2>1. /\ keys < MaxKeys /\ keys' = keys + 1 /\ looked_at' \in 1..12
          /\ dirty' = dirty \/ dirty' = TRUE
      BY <1>2, KeyRanks, Zenon DEF HandleKey
    <2>2. dirty' \in BOOLEAN
      BY <2>1, Zenon DEF Ordered
    <2>3. looked_at' \in 0..12 /\ keys' \in 0..MaxKeys
      BY <1>1, <2>1 DEF Ordered
    <2> QED  BY <2>2, <2>3, Zenon DEF Ordered
  <1>3. CASE Frame
    <2>1. dirty' = FALSE /\ looked_at' = 0 /\ keys' = 0
      BY <1>3, Zenon DEF Frame, draw_code_buffer
    <2>2. 0 \in 0..MaxKeys /\ 0 \in 0..12 /\ FALSE \in BOOLEAN
      BY <1>1
    <2> QED  BY <2>1, <2>2, Zenon DEF Ordered
  <1>4. CASE SDL_AppInit \/ QuitEvent \/ Release \/ UNCHANGED allVars
    <2>1. UNCHANGED <<looked_at, keys>> /\ (dirty' = dirty \/ dirty' = TRUE)
      BY <1>4 DEF SDL_AppInit, Acquire, PushEditor, FindFile, StartBuilder, AcceptFile,
                  FinishBuilder, MakeParser, LogOpened, QuitEvent, Release, allVars, editorVars
    <2>2. dirty' \in BOOLEAN
      BY <2>1, Zenon DEF Ordered
    <2>3. looked_at' \in 0..12 /\ keys' \in 0..MaxKeys
      BY <2>1 DEF Ordered
    <2> QED  BY <2>2, <2>3, Zenon DEF Ordered
  <1> QED  BY <1>2, <1>3, <1>4 DEF AppNext

(* The types, of which the goal column says most: it stays an unsigned     *)
(* number below the modulus of its subtraction whatever line of whatever   *)
(* frame it is measured on (editor_move_to), and a frame handles no more   *)
(* keys than it was given, in their order (editor_handle_input).           *)
THEOREM ApplicationTyped == AppSpec => []AppTypeOK
  <1>1. AppInit => Ordered
    <2>1. MaxKeys \in Nat
      BY EditorAssumption
    <2>2. 0 \in 0..MaxKeys /\ 0 \in 0..12 /\ FALSE \in BOOLEAN
      BY <2>1
    <2> QED  BY <2>2, Zenon DEF AppInit, EditorInit, Ordered
  <1>2. ASSUME EditorInv, Ordered, LifeInv
        PROVE  AppTypeOK
    <2>1. EditorTypeOK
      <3>1. Len(KeyOrder) = 12
        BY DEF KeyOrder
      <3>2. caret \in [cursor : Nat, goal_column : 0 .. Wide - 1]
        BY <1>2 DEF EditorInv, Carets
      <3>3. line_count \in {0, LineFeeds(render_text) + 1}
        BY <1>2 DEF EditorInv
      <3> QED  BY <1>2, <3>1, <3>2, <3>3, Zenon DEF EditorTypeOK, Ordered
    <2>2. ToSet(Startup) = {Startup[k] : k \in 1..17}
      BY DEF Startup, ToSet
    <2>3. stage \in Stages
      BY <1>2, <2>2
         DEF LifeInv, Stages, Startup, FromEditor, FromSDL, FromWindow, FromDevice, FromClaim,
             FromContext, FromPlatform, FromRenderer, FromPath, FromArena, FromBuilder,
             FromDocument, FromTree, FromRender, FromParser, FromLog, Ending
    <2>4. Resources \subseteq ToSet(Startup) \cup {"syntax_tree"}
      BY <2>2 DEF Resources, Startup
    <2> QED  BY <1>2, <2>1, <2>3, <2>4, Zenon DEF AppTypeOK, LifeInv
  <1> QED  BY <1>1, <1>2, AppStart, AppStep, OrderedStep, LifeStart, LifeStep, PTL DEF AppSpec

-----------------------------------------------------------------------------
(* No place on a line as it is drawn is between the two characters of a    *)
(* line ending: a carriage return before the line feed is not drawn, and   *)
(* what is before a line is the line feed of another one.                  *)
Undivided(text, offset) ==
    \A i \in DOMAIN text \ {1} : i - 1 = offset => text[i-1] # CR \/ text[i] # LF

LEMMA PlaceOnLine ==
  ASSUME NEW L, NEW text \in Seq(L), NEW line \in 0..LineFeeds(text), NEW offset \in Int,
         RenderLine(text, line).offset <= offset,
         offset <= RenderLine(text, line).offset + RenderLine(text, line).size
  PROVE  /\ offset \in 0..Len(text)
         /\ line_at(text, offset) = line
         /\ Undivided(text, offset)
  <1> DEFINE first == LineFirst(text, line)
             last == LineBreak(text, line)
             size == RenderLine(text, line).size
  <1>1. Len(text) \in Nat /\ DOMAIN text = 1..Len(text)
    BY LenProperties
  <1>2. first \in Nat /\ last \in Nat /\ first <= last /\ last <= Len(text)
    BY <1>1, LineBounds
  <1>3. /\ RenderLine(text, line).offset = first
        /\ size \in Nat /\ size <= last - first
        /\ last > first /\ text[last] = CR => size = last - first - 1
    BY <1>2 DEF RenderLine
  <1>4. line = 0 \/ text[first] = LF
    <2>1. ASSUME line # 0 PROVE text[first] = LF
      <3>1. LineFeeds(text) \in Nat
        BY <1>1, FeedsFinite DEF LineFeeds
      <3>2. line \in Nat \ {0} /\ line <= LineFeeds(text)
        BY <2>1, <3>1
      <3> QED  BY <1>1, <3>2, FirstOfLine, Zenon
    <2> QED  BY <2>1
  <1>5. line = 0 => first = 0
    BY DEF LineFirst
  <1>6. \A o \in first..last : line_at(text, o) = line
    BY <1>1, OnLine, Zenon
  <1> HIDE DEF first, last, size
  <1>7. offset \in first..last /\ offset <= first + size
    BY <1>2, <1>3 DEF size
  <1>8. Undivided(text, offset)
    <2> SUFFICES ASSUME offset \in 1..Len(text), offset + 1 \in 1..Len(text),
                        text[offset] = CR, text[offset + 1] = LF
                 PROVE  FALSE
      BY <1>1, <1>2, <1>7 DEF Undivided
    <2>1. line_at(text, offset) = line /\ line \in Int
      BY <1>6, <1>7
    <2>2. line_at(text, offset + 1) = line + 1
      <3>1. offset \in Nat
        BY <1>2, <1>7
      <3> QED  BY <2>1, <3>1, FeedsStep
    <2>3. offset + 1 \notin first..last
      BY <1>6, <2>1, <2>2
    <2>4. offset = last
      BY <1>2, <1>7, <2>3
    <2>5. first = last
      BY <1>2, <1>3, <1>7, <2>4
    <2> QED  BY <1>4, <1>5, <2>4, <2>5, EditorAssumption
  <1> QED  BY <1>2, <1>6, <1>7, <1>8

(* Of a move on the lines of an unedited text. *)
LEMMA MoveOnLine ==
  ASSUME EditorInv, render_text = current,
         NEW c, NEW line \in 0..LineFeeds(current), NEW offset \in Int, NEW keep,
         RenderLine(render_text, line).offset <= offset,
         offset <= RenderLine(render_text, line).offset + RenderLine(render_text, line).size,
         caret' = editor_move_to(c, render_text, line_count, offset, keep)
  PROVE  line_at(current, caret'.cursor) = line /\ Undivided(current, caret'.cursor)
  <1>1. current \in Seq(Letters) /\ Len(current) \in Nat
    BY CurrentTyped DEF EditorInv
  <1>2. /\ offset \in 0..Len(current)
        /\ line_at(current, offset) = line
        /\ Undivided(current, offset)
    BY <1>1, PlaceOnLine, Zenon
  <1>3. Smaller(offset, document_length) = offset
    BY <1>1, <1>2 DEF Smaller, document_length
  <1>4. caret'.cursor = Smaller(offset, document_length)
    BY Zenon DEF editor_move_to
  <1> QED  BY <1>2, <1>3, <1>4, Zenon

HitsLine(delta) ==
    /\ line_at(current, caret'.cursor) = LineBeside(caret, delta)
    /\ Undivided(current, caret'.cursor)

(* What is known of the frame when the caret moves by its lines.           *)
LEMMA LinesOfFrame ==
  ASSUME EditorInv, FrameShowsDocument, ~dirty, line_count # 0
  PROVE  /\ render_text = current
         /\ line_count = LineFeeds(current) + 1 /\ LineFeeds(current) \in Nat
         /\ line_at(current, caret.cursor) \in 0..LineFeeds(current)
         /\ \A delta \in {-1, 0, 1} : LineBeside(caret, delta) \in 0..LineFeeds(current)
         /\ LineBeside(caret, 0) = line_at(current, caret.cursor)
  <1> DEFINE here == line_at(current, caret.cursor)
  <1>1. /\ Len(current) \in Nat /\ caret.cursor \in Nat /\ caret.cursor <= Len(current)
    BY CurrentTyped DEF EditorInv, Carets, CursorInDocument, document_length
  <1>2. LineFeeds(current) \in Nat /\ here \in Nat /\ here <= LineFeeds(current)
    BY <1>1, FeedsFinite, FeedsGrow DEF LineFeeds
  <1>3. render_text = current /\ line_count = LineFeeds(current) + 1
    BY DEF FrameShowsDocument
  <1>4. \A delta : LineBeside(caret, delta)
                     = IF here + delta < 0 THEN 0 ELSE Smaller(here + delta, line_count - 1)
    BY Zenon DEF LineBeside
  <1> HIDE DEF here
  <1>5. /\ \A delta \in {-1, 0, 1} : LineBeside(caret, delta) \in 0..LineFeeds(current)
        /\ LineBeside(caret, 0) = here
    BY <1>2, <1>3, <1>4 DEF Smaller
  <1> QED  BY <1>2, <1>3, <1>5 DEF here

LEMMA VerticalHits ==
  ASSUME EditorInv, FrameShowsDocument, ~dirty,
         NEW key, NEW delta \in {-1, 1}, Vertical(key, delta)
  PROVE  HitsLine(delta)
  <1> DEFINE line == LineBeside(caret, delta)
             target == RenderLine(render_text, line)
  <1>1. /\ line_count # 0
        /\ caret' = editor_move_to(caret, render_text, line_count, Target(caret, line), TRUE)
    BY Zenon DEF Vertical, editor_move_vertical
  <1>2. render_text = current /\ line \in 0..LineFeeds(current)
    BY <1>1, LinesOfFrame
  <1>3. target.offset \in Nat /\ target.size \in Nat
    BY <1>2, CurrentTyped, RenderLineTyped DEF EditorInv
  <1>4. caret.goal_column \in Nat
    BY EditorAssumption DEF EditorInv, Carets
  <1>5. Target(caret, line) = target.offset + Smaller(caret.goal_column, target.size)
    BY Zenon DEF Target
  <1>6. /\ Target(caret, line) \in Int
        /\ target.offset <= Target(caret, line)
        /\ Target(caret, line) <= target.offset + target.size
    BY <1>3, <1>4, <1>5 DEF Smaller
  <1> HIDE DEF line
  <1> QED  BY <1>1, <1>2, <1>6, MoveOnLine DEF HitsLine, line

LEMMA HomeEndHits ==
  ASSUME EditorInv, FrameShowsDocument, ~dirty, HomeEnd
  PROVE  HitsLine(0)
  <1> DEFINE line == line_at(current, caret.cursor)
             target == RenderLine(render_text, line)
             home == Moved(target.offset)
  <1>1. /\ line < line_count
        /\ \/ caret' = home
           \/ \E c \in {caret, home} :
                 caret' = editor_move_to(c, render_text, line_count,
                                         target.offset + target.size, FALSE)
    BY Zenon DEF HomeEnd
  <1>2. line \in Nat
    <2>1. caret.cursor \in Nat
      BY DEF EditorInv, Carets
    <2> QED  BY <2>1, FeedsFinite, Zenon
  <1>3. line_count # 0
    BY <1>1, <1>2
  <1>4. /\ render_text = current /\ line \in 0..LineFeeds(current)
        /\ LineBeside(caret, 0) = line
    BY <1>3, LinesOfFrame
  <1>5. target.offset \in Nat /\ target.size \in Nat
    BY <1>4, CurrentTyped, RenderLineTyped DEF EditorInv
  <1>6. PICK c, offset :
          /\ offset = target.offset \/ offset = target.offset + target.size
          /\ caret' = editor_move_to(c, render_text, line_count, offset, FALSE)
    BY <1>1, Zenon DEF Moved
  <1>7. offset \in Int /\ target.offset <= offset /\ offset <= target.offset + target.size
    BY <1>5, <1>6
  <1> HIDE DEF line
  <1>8. line_at(current, caret'.cursor) = line /\ Undivided(current, caret'.cursor)
    BY <1>4, <1>6, <1>7, MoveOnLine, Zenon
  <1> QED  BY <1>4, <1>8 DEF HitsLine

(* On an unedited text Up and Down go to the line beside, if there is one, *)
(* and Home and End stay on theirs, for every text and goal column, and    *)
(* never to the place between a carriage return and its line feed          *)
(* (editor_move_vertical, and the home and end keys).                      *)
THEOREM LineMovesKeepToLines == AppSpec => LineMovesHitLine
  <1> DEFINE Hits == /\ LineMoves("up", -1) /\ LineMoves("down", 1) /\ LineMoves("home_end", 0)
  <1>1. ASSUME EditorInv, FrameShowsDocument, [AppNext]_allVars
        PROVE  [Hits]_<<docVars, editorVars>>
    <2>1. CASE HandleKey
      <3>1. editor_handle_input
        BY <2>1 DEF HandleKey
      <3>2. ASSUME ~dirty, looked_at' = 8 PROVE HitsLine(-1)
        BY <1>1, <3>1, <3>2, KeyRanks, VerticalHits DEF Up
      <3>3. ASSUME ~dirty, looked_at' = 9 PROVE HitsLine(1)
        BY <1>1, <3>1, <3>3, KeyRanks, VerticalHits DEF Down
      <3>4. ASSUME ~dirty, looked_at' = 10 PROVE HitsLine(0)
        BY <1>1, <3>1, <3>4, KeyRanks, HomeEndHits
      <3> QED  BY <3>2, <3>3, <3>4, Ranks, Zenon DEF LineMoves, HitsLine, Undivided
    <2>2. CASE ~HandleKey
      <3>1. looked_at' = looked_at \/ looked_at' = 0
        BY <1>1, <2>2
           DEF AppNext, SDL_AppInit, Acquire, PushEditor, FindFile, StartBuilder, AcceptFile,
               FinishBuilder, MakeParser, LogOpened, Frame, draw_code_buffer,
               QuitEvent, Release, allVars, editorVars
      <3> QED  BY <3>1, Ranks DEF LineMoves
    <2> QED  BY <2>1, <2>2
  <1>2. DrawnInv => FrameShowsDocument
    BY DEF DrawnInv
  <1>3. AppInit => DrawnInv
    BY DEF AppInit, EditorInit, DrawnInv, FrameShowsDocument
  <1> QED  BY <1>1, <1>2, <1>3, AppStart, AppStep, DrawnStep, PTL DEF AppSpec, LineMovesHitLine

-----------------------------------------------------------------------------
(* Spans *)

(* Any list of spans a parser may return: sorted, not empty, not overlapping. *)
SortedSpans(spans) ==
    /\ spans \in Seq([offset : Nat, size : Nat \ {0}])
    /\ \A i, j \in 1..Len(spans) :
          i < j => spans[i].offset + spans[i].size <= spans[j].offset

LEMMA IntervalSize ==
  ASSUME NEW a \in Int, NEW b \in Int
  PROVE  Cardinality(a + 1 .. b) = IF a <= b THEN b - a ELSE 0
  <1>1. a + 1 \in Int
    OBVIOUS
  <1>2. Cardinality(a + 1 .. b) = IF a + 1 > b THEN 0 ELSE b - (a + 1) + 1
    BY <1>1, FS_Interval, Zenon
  <1> QED  BY <1>2

(* Numbers that do not decrease are up to a bound up to some place.        *)
LEMMA CutAt ==
  ASSUME NEW n \in Nat, NEW e \in [1..n -> Nat], NEW b \in Int,
         \A i, j \in 1..n : i < j => e[i] <= e[j]
  PROVE  \E m \in 0..n : \A k \in 1..n : e[k] <= b <=> k <= m
  <1> DEFINE T == {k \in Nat : k >= n \/ e[k+1] > b}
  <1>1. n \in T /\ T \subseteq Nat
    OBVIOUS
  <1>2. PICK m \in T : \A y \in T : ~ (<<y, m>> \in OpToRel(<, Nat))
    BY <1>1, WFMin, NatLessThanWellFounded, Zenon
  <1>3. \A y \in T : ~(y < m)
    <2> SUFFICES ASSUME NEW y \in T, y < m PROVE FALSE
      OBVIOUS
    <2>1. y \in Nat /\ m \in Nat
      OBVIOUS
    <2>2. <<y, m>> \in OpToRel(<, Nat)
      BY <2>1, SMT DEF OpToRel
    <2> QED  BY <1>2, <2>2
  <1>4. m \in 0..n /\ (m < n => e[m+1] > b)
    BY <1>1, <1>3
  <1>5. ASSUME NEW k \in 1..n PROVE e[k] <= b <=> k <= m
    <2>1. CASE k <= m
      <3>1. k - 1 \in Nat /\ k - 1 < m /\ k - 1 < n /\ k - 1 + 1 = k
        BY <1>4, <2>1
      <3>2. k - 1 \notin T
        BY <1>3, <3>1, Zenon
      <3>3. ~(e[k - 1 + 1] > b)
        BY <3>1, <3>2
      <3> QED  BY <2>1, <3>1, <3>3
    <2>2. CASE k > m
      <3>1. m + 1 \in 1..n /\ e[m+1] > b /\ e[m+1] \in Nat /\ e[k] \in Nat
        BY <1>4, <2>2
      <3>2. m + 1 = k \/ e[m+1] <= e[k]
        BY <1>4, <2>2, <3>1
      <3> QED  BY <1>4, <2>2, <3>1, <3>2
    <2> QED  BY <1>4, <2>1, <2>2
  <1> QED  BY <1>4, <1>5

(* How many spans end before a place, and how many begin before it. *)
Ended(spans, place) ==
    CHOOSE m \in 0..Len(spans) :
        \A k \in 1..Len(spans) : spans[k].offset + spans[k].size <= place <=> k <= m

Begun(spans, place) ==
    CHOOSE m \in 0..Len(spans) : \A k \in 1..Len(spans) : spans[k].offset < place <=> k <= m

LEMMA SpanCuts ==
  ASSUME NEW spans, SortedSpans(spans), NEW place \in Int
  PROVE  /\ Ended(spans, place) \in 0..Len(spans)
         /\ \A k \in 1..Len(spans) :
               spans[k].offset + spans[k].size <= place <=> k <= Ended(spans, place)
         /\ Begun(spans, place) \in 0..Len(spans)
         /\ \A k \in 1..Len(spans) : spans[k].offset < place <=> k <= Begun(spans, place)
  <1> DEFINE n == Len(spans)
             ends == [k \in 1..n |-> spans[k].offset + spans[k].size]
             starts == [k \in 1..n |-> spans[k].offset]
  <1>1. /\ n \in Nat
        /\ \A k \in 1..n : spans[k].offset \in Nat /\ spans[k].size \in Nat \ {0}
    <2>1. \A k \in 1..n : spans[k] \in [offset : Nat, size : Nat \ {0}]
      BY ElementOfSeq, Zenon DEF SortedSpans
    <2> QED  BY <2>1, LenProperties DEF SortedSpans
  <1>2. /\ ends \in [1..n -> Nat] /\ starts \in [1..n -> Nat]
        /\ \A i, j \in 1..n : i < j => ends[i] <= ends[j] /\ starts[i] <= starts[j]
    <2>1. /\ ends \in [1..n -> Nat] /\ starts \in [1..n -> Nat]
      BY <1>1
    <2>2. ASSUME NEW i \in 1..n, NEW j \in 1..n, i < j
          PROVE  ends[i] <= ends[j] /\ starts[i] <= starts[j]
      <3>1. spans[i].offset + spans[i].size <= spans[j].offset
        BY <2>2 DEF SortedSpans
      <3> QED  BY <1>1, <3>1
    <2> QED  BY <2>1, <2>2
  <1>3. \E m \in 0..n : \A k \in 1..n : ends[k] <= place <=> k <= m
    <2> HIDE DEF n, ends, starts
    <2> QED  BY <1>1, <1>2, CutAt
  <1>4. \E m \in 0..n : \A k \in 1..n : starts[k] <= place - 1 <=> k <= m
    <2>1. place - 1 \in Int
      OBVIOUS
    <2> HIDE DEF n, ends, starts
    <2> QED  BY <1>1, <1>2, <2>1, CutAt
  <1>5. \E m \in 0..n : \A k \in 1..n : spans[k].offset + spans[k].size <= place <=> k <= m
    BY <1>3, Zenon
  <1>6. \A k \in 1..n : starts[k] <= place - 1 <=> spans[k].offset < place
    BY <1>1
  <1>7. \E m \in 0..n : \A k \in 1..n : spans[k].offset < place <=> k <= m
    BY <1>4, <1>6, Zenon
  <1> QED  BY <1>5, <1>7, Zenon DEF Ended, Begun

LEMMA SkippedCount ==
  ASSUME NEW spans, SortedSpans(spans), NEW first \in Int,
         NEW cursor \in 0..Ended(spans, first)
  PROVE  Skipped(spans, cursor, first) = Ended(spans, first)
  <1> DEFINE m == Ended(spans, first)
             found == {k \in DOMAIN spans :
                          /\ k > cursor
                          /\ \A i \in cursor + 1 .. k : spans[i].offset + spans[i].size <= first}
  <1>1. /\ m \in 0..Len(spans) /\ Len(spans) \in Nat /\ DOMAIN spans = 1..Len(spans)
        /\ \A k \in 1..Len(spans) : spans[k].offset + spans[k].size <= first <=> k <= m
    BY SpanCuts, LenProperties DEF SortedSpans
  <1> HIDE DEF m
  <1>2. m \in Nat /\ cursor \in Nat /\ cursor <= m
    BY <1>1 DEF m
  <1>3. found = cursor + 1 .. m
    <2>1. ASSUME NEW k \in found PROVE k \in cursor + 1 .. m
      <3>1. k \in 1..Len(spans) /\ k > cursor /\ k \in cursor + 1 .. k
        BY <1>1, <1>2
      <3>2. spans[k].offset + spans[k].size <= first
        BY <3>1
      <3> QED  BY <1>1, <1>2, <3>1, <3>2
    <2>2. ASSUME NEW k \in cursor + 1 .. m PROVE k \in found
      <3>1. k \in DOMAIN spans /\ k > cursor
        BY <1>1, <1>2
      <3>2. \A i \in cursor + 1 .. k : i \in 1..Len(spans) /\ i <= m
        BY <1>1, <1>2
      <3>3. \A i \in cursor + 1 .. k : spans[i].offset + spans[i].size <= first
        BY <1>1, <3>2, Zenon
      <3> QED  BY <3>1, <3>3
    <2> QED  BY <2>1, <2>2
  <1>4. Cardinality(cursor + 1 .. m) = m - cursor
    BY <1>2, IntervalSize
  <1>5. Skipped(spans, cursor, first) = cursor + Cardinality(found)
    BY DEF Skipped
  <1> HIDE DEF found
  <1>6. Skipped(spans, cursor, first) = m
    BY <1>2, <1>3, <1>4, <1>5
  <1> QED  BY <1>6 DEF m

(* The spans the second cursor runs through. *)
RunsThrough(spans, cursor, last) ==
    cursor + 1 .. cursor + RunThrough(spans, cursor, last)
      = {k \in 1..Len(spans) : cursor < k /\ spans[k].offset < last}

LEMMA RunThroughCount ==
  ASSUME NEW spans, SortedSpans(spans), NEW last \in Int, NEW cursor \in 0..Len(spans)
  PROVE  RunsThrough(spans, cursor, last)
  <1> DEFINE m == Begun(spans, last)
             found == {k \in DOMAIN spans :
                          /\ k > cursor
                          /\ \A i \in cursor + 1 .. k : spans[i].offset < last}
  <1>1. /\ m \in 0..Len(spans) /\ Len(spans) \in Nat /\ DOMAIN spans = 1..Len(spans)
        /\ \A k \in 1..Len(spans) : spans[k].offset < last <=> k <= m
    BY SpanCuts, LenProperties DEF SortedSpans
  <1> HIDE DEF m
  <1>2. found = cursor + 1 .. m
    <2>1. ASSUME NEW k \in found PROVE k \in cursor + 1 .. m
      <3>1. k \in 1..Len(spans) /\ k > cursor /\ k \in cursor + 1 .. k
        BY <1>1
      <3>2. spans[k].offset < last
        BY <3>1
      <3> QED  BY <1>1, <3>1, <3>2
    <2>2. ASSUME NEW k \in cursor + 1 .. m PROVE k \in found
      <3>1. k \in DOMAIN spans /\ k > cursor
        BY <1>1
      <3>2. \A i \in cursor + 1 .. k : i \in 1..Len(spans) /\ i <= m
        BY <1>1
      <3>3. \A i \in cursor + 1 .. k : spans[i].offset < last
        BY <1>1, <3>2, Zenon
      <3> QED  BY <3>1, <3>3
    <2> QED  BY <2>1, <2>2
  <1>3. cursor + 1 .. m = {k \in 1..Len(spans) : cursor < k /\ spans[k].offset < last}
    <2>1. ASSUME NEW k \in cursor + 1 .. m
          PROVE  k \in {i \in 1..Len(spans) : cursor < i /\ spans[i].offset < last}
      BY <1>1
    <2>2. ASSUME NEW k \in 1..Len(spans), cursor < k, spans[k].offset < last
          PROVE  k \in cursor + 1 .. m
      BY <1>1, <2>2
    <2> QED  BY <2>1, <2>2
  <1>4. RunThrough(spans, cursor, last) = Cardinality(cursor + 1 .. m)
    BY <1>2 DEF RunThrough
  <1>5. CASE cursor <= m
    <2>1. Cardinality(cursor + 1 .. m) = m - cursor
      <3>1. cursor \in Int /\ m \in Int
        BY <1>1
      <3>2. Cardinality(cursor + 1 .. m) = IF cursor <= m THEN m - cursor ELSE 0
        BY <3>1, IntervalSize, Zenon
      <3> QED  BY <1>5, <3>2
    <2>2. cursor + RunThrough(spans, cursor, last) = m
      BY <1>1, <1>4, <2>1
    <2> QED  BY <1>3, <2>2 DEF RunsThrough
  <1>6. CASE cursor > m
    <2>1. cursor + 1 .. m = {} /\ Cardinality(cursor + 1 .. m) = 0
      BY <1>1, <1>6, IntervalSize
    <2>2. cursor + RunThrough(spans, cursor, last) = cursor
      BY <1>4, <2>1
    <2>3. cursor + 1 .. cursor = {}
      OBVIOUS
    <2> QED  BY <1>3, <2>1, <2>2, <2>3 DEF RunsThrough
  <1> QED  BY <1>1, <1>5, <1>6

(* The lines begin one behind the other. *)
LEMMA FirstsGrow ==
  ASSUME NEW text, Len(text) \in Nat, NEW line \in Nat, line + 1 <= LineFeeds(text)
  PROVE  /\ LineFirst(text, line) \in Nat /\ LineFirst(text, line + 1) \in Nat
         /\ LineFirst(text, line) <= LineFirst(text, line + 1)
  <1>1. LineFeeds(text) \in Nat
    BY FeedsFinite DEF LineFeeds
  <1>2. line \in 0..LineFeeds(text) /\ line + 1 \in 0..LineFeeds(text) /\ line # LineFeeds(text)
    BY <1>1
  <1>3. /\ LineFirst(text, line) \in Nat /\ LineFirst(text, line + 1) \in Nat
        /\ LineFirst(text, line) <= LineBreak(text, line)
    BY <1>2, LineBounds
  <1>4. LineBreak(text, line) = LineFirst(text, line + 1) - 1
    BY <1>2, Zenon DEF LineBreak
  <1>5. \A a, b, c \in Int : a <= b /\ b = c - 1 => a <= c
    OBVIOUS
  <1>6. LineBreak(text, line) \in Int
    BY <1>2, LineBounds
  <1> QED  BY <1>3, <1>4, <1>6

(* What a line gets from where the line before it left the first cursor. *)
SpansFrom(text, spans, cursor, line) ==
    LET first == Skipped(spans, cursor, LineFirst(text, line))
    IN  [first_span |-> first,
         span_count |-> RunThrough(spans, first, LineBreak(text, line))]

SpansBody(text, spans, lines, k) ==
    SpansFrom(text, spans, IF k = 1 THEN 0 ELSE lines[k-1].first_span, k - 1)

LEMMA SpansDef ==
  ASSUME NEW text, NEW spans
  PROVE  LineSpans(text, spans)
           = CHOOSE lines : lines = [k \in 1 .. LineFeeds(text) + 1 |->
                                        SpansBody(text, spans, lines, k)]
  BY Zenon DEF LineSpans, SpansBody, SpansFrom

(* The first cursor stands behind the spans that end before the line. *)
ClosedSpans(text, spans) ==
    [k \in 1 .. LineFeeds(text) + 1 |->
        [first_span |-> Ended(spans, LineFirst(text, k - 1)),
         span_count |-> RunThrough(spans, Ended(spans, LineFirst(text, k - 1)),
                                   LineBreak(text, k - 1))]]

LEMMA SpansStep ==
  ASSUME NEW text, Len(text) \in Nat, NEW spans, SortedSpans(spans),
         NEW lines, NEW k \in 1 .. LineFeeds(text) + 1,
         k # 1 => lines[k-1].first_span = Ended(spans, LineFirst(text, k - 2))
  PROVE  SpansBody(text, spans, lines, k) = ClosedSpans(text, spans)[k]
  <1> DEFINE cursor == IF k = 1 THEN 0 ELSE lines[k-1].first_span
             first == LineFirst(text, k - 1)
  <1>1. LineFeeds(text) \in Nat
    BY FeedsFinite DEF LineFeeds
  <1>2. k - 1 \in 0..LineFeeds(text)
    BY <1>1
  <1>3. first \in Int
    BY <1>2, LineBounds
  <1>4. Ended(spans, first) \in 0..Len(spans) /\ Len(spans) \in Nat
    BY <1>3, SpanCuts, LenProperties DEF SortedSpans
  <1>5. cursor \in 0..Ended(spans, first)
    <2>1. CASE k = 1
      BY <1>4, <2>1
    <2>2. CASE k # 1
      <3> DEFINE before == LineFirst(text, k - 2)
      <3>1. k - 2 \in Nat /\ (k - 2) + 1 = k - 1 /\ k - 1 <= LineFeeds(text)
        BY <1>1, <2>2
      <3>2. before \in Nat /\ first \in Nat /\ before <= first
        BY <3>1, FirstsGrow
      <3> HIDE DEF before, first
      <3>3. /\ Ended(spans, before) \in 0..Len(spans)
            /\ \A i \in 1..Len(spans) :
                  spans[i].offset + spans[i].size <= before <=> i <= Ended(spans, before)
            /\ \A i \in 1..Len(spans) :
                  spans[i].offset + spans[i].size <= first <=> i <= Ended(spans, first)
        <4>1. before \in Int /\ first \in Int
          BY <3>2
        <4> QED  BY <4>1, SpanCuts, Zenon
      <3>4. Ended(spans, before) <= Ended(spans, first)
        <4> SUFFICES ASSUME Ended(spans, before) > Ended(spans, first) PROVE FALSE
          BY <1>4, <3>3
        <4> DEFINE i == Ended(spans, before)
        <4>1. i \in 1..Len(spans)
          BY <1>4, <3>3
        <4>2. spans[i].offset \in Nat /\ spans[i].size \in Nat
          <5>1. spans[i] \in [offset : Nat, size : Nat \ {0}]
            BY <4>1, ElementOfSeq, Zenon DEF SortedSpans
          <5> QED  BY <5>1
        <4>3. spans[i].offset + spans[i].size <= before
          BY <3>3, <4>1
        <4>4. spans[i].offset + spans[i].size <= first
          BY <3>2, <4>2, <4>3
        <4>5. i <= Ended(spans, first)
          BY <3>3, <4>1, <4>4
        <4> QED  BY <1>4, <3>3, <4>5
      <3>5. cursor = Ended(spans, before)
        BY <2>2, Zenon DEF before
      <3> QED  BY <1>4, <3>3, <3>4, <3>5
    <2> QED  BY <2>1, <2>2
  <1> HIDE DEF cursor
  <1>6. Skipped(spans, cursor, first) = Ended(spans, first)
    BY <1>3, <1>5, SkippedCount, Zenon
  <1>7. SpansBody(text, spans, lines, k) = SpansFrom(text, spans, cursor, k - 1)
    BY Zenon DEF SpansBody, cursor
  <1>8. SpansFrom(text, spans, cursor, k - 1)
          = [first_span |-> Ended(spans, first),
             span_count |-> RunThrough(spans, Ended(spans, first), LineBreak(text, k - 1))]
    BY <1>6, Zenon DEF SpansFrom
  <1> QED  BY <1>7, <1>8, Zenon DEF ClosedSpans

LEMMA SpansClosed ==
  ASSUME NEW text, Len(text) \in Nat, NEW spans, SortedSpans(spans)
  PROVE  LineSpans(text, spans) = ClosedSpans(text, spans)
  <1> DEFINE N == LineFeeds(text) + 1
             closed == ClosedSpans(text, spans)
             f == LineSpans(text, spans)
  <1>1. N \in Nat /\ N >= 1
    BY FeedsFinite DEF LineFeeds
  <1>2. /\ closed = [k \in 1..N |-> closed[k]]
        /\ \A k \in 1..N : closed[k].first_span = Ended(spans, LineFirst(text, k - 1))
    BY Zenon DEF ClosedSpans
  <1>3. \A k \in 1..N : k # 1 => k - 1 \in 1..N /\ (k - 1) - 1 = k - 2
    BY <1>1
  <1>4. \A k \in 1..N : SpansBody(text, spans, closed, k) = closed[k]
    <2> TAKE k \in 1..N
    <2>1. k # 1 => closed[k-1].first_span = Ended(spans, LineFirst(text, k - 2))
      BY <1>2, <1>3
    <2> HIDE DEF closed
    <2>2. SpansBody(text, spans, closed, k) = ClosedSpans(text, spans)[k]
      BY <2>1, SpansStep, Zenon
    <2> QED  BY <2>2 DEF closed
  <1>5. closed = [k \in 1..N |-> SpansBody(text, spans, closed, k)]
    BY <1>2, <1>4
  <1>6. f = [k \in 1..N |-> SpansBody(text, spans, f, k)]
    <2> HIDE DEF closed
    <2> QED  BY <1>5, SpansDef, Zenon
  <1> HIDE DEF f, closed
  <1>7. \A k \in 1..N : f[k] = SpansBody(text, spans, f, k)
    BY <1>6, Zenon
  <1>8. \A k \in 1..N : f[k] = closed[k]
    <2> DEFINE T == {k \in 1..N : f[k] # closed[k]}
    <2> SUFFICES ASSUME T # {} PROVE FALSE
      OBVIOUS
    <2>1. T \subseteq Nat /\ \E k \in T : TRUE
      BY <1>1
    <2>2. PICK x \in T : \A y \in T : ~ (<<y, x>> \in OpToRel(<, Nat))
      BY <2>1, WFMin, NatLessThanWellFounded, Zenon
    <2>3. \A y \in T : ~(y < x)
      <3> SUFFICES ASSUME NEW y \in T, y < x PROVE FALSE
        OBVIOUS
      <3>1. y \in Nat /\ x \in Nat
        BY <2>1
      <3>2. <<y, x>> \in OpToRel(<, Nat)
        BY <3>1, SMT DEF OpToRel
      <3> QED  BY <2>2, <3>2
    <2>4. x # 1 => f[x-1].first_span = Ended(spans, LineFirst(text, x - 2))
      <3> SUFFICES ASSUME x # 1 PROVE f[x-1].first_span = Ended(spans, LineFirst(text, x - 2))
        OBVIOUS
      <3>1. x - 1 \in 1..N /\ (x - 1) - 1 = x - 2 /\ x - 1 < x
        BY <1>1, <1>3
      <3>2. f[x-1] = closed[x-1]
        BY <2>3, <3>1
      <3> QED  BY <1>2, <3>1, <3>2
    <2>5. SpansBody(text, spans, f, x) = closed[x]
      BY <2>4, SpansStep DEF closed
    <2> QED  BY <1>7, <2>5
  <1>9. f = [k \in 1..N |-> f[k]]
    BY <1>6, Zenon
  <1>10. f = closed
    BY <1>2, <1>8, <1>9, Zenon
  <1> QED  BY <1>10 DEF f, closed

(* For any list of spans, with any lines. *)
LEMMA SpansOfLine ==
  ASSUME NEW text, Len(text) \in Nat, NEW spans, SortedSpans(spans),
         NEW line \in 0..LineFeeds(text)
  PROVE  {k \in DOMAIN spans :
             /\ spans[k].offset < LineBreak(text, line)
             /\ LineFirst(text, line) < spans[k].offset + spans[k].size}
         = LineSpans(text, spans)[line + 1].first_span + 1 ..
             LineSpans(text, spans)[line + 1].first_span
               + LineSpans(text, spans)[line + 1].span_count
  <1> DEFINE first == LineFirst(text, line)
             last == LineBreak(text, line)
             cursor == Ended(spans, first)
  <1>1. LineFeeds(text) \in Nat
    BY FeedsFinite DEF LineFeeds
  <1>2. line + 1 \in 1 .. LineFeeds(text) + 1 /\ line + 1 - 1 = line
    BY <1>1
  <1>3. LineSpans(text, spans)[line + 1]
          = [first_span |-> cursor, span_count |-> RunThrough(spans, cursor, last)]
    <2>1. \A k \in 1 .. LineFeeds(text) + 1 : ClosedSpans(text, spans)[k]
            = [first_span |-> Ended(spans, LineFirst(text, k - 1)),
               span_count |-> RunThrough(spans, Ended(spans, LineFirst(text, k - 1)),
                                         LineBreak(text, k - 1))]
      BY Zenon DEF ClosedSpans
    <2> QED  BY <1>2, <2>1, SpansClosed
  <1>4. first \in Int /\ last \in Int
    BY LineBounds
  <1> HIDE DEF first, last
  <1>5. /\ cursor \in 0..Len(spans)
        /\ \A k \in 1..Len(spans) : spans[k].offset + spans[k].size <= first <=> k <= cursor
        /\ DOMAIN spans = 1..Len(spans) /\ Len(spans) \in Nat
        /\ \A k \in 1..Len(spans) : spans[k].offset \in Nat /\ spans[k].size \in Nat
    <2>1. \A k \in 1..Len(spans) : spans[k] \in [offset : Nat, size : Nat \ {0}]
      BY ElementOfSeq, Zenon DEF SortedSpans
    <2> QED  BY <1>4, <2>1, SpanCuts, LenProperties DEF SortedSpans
  <1> HIDE DEF cursor
  <1>6. cursor + 1 .. cursor + RunThrough(spans, cursor, last)
          = {k \in 1..Len(spans) : cursor < k /\ spans[k].offset < last}
    <2>1. cursor \in 0..Len(spans) /\ last \in Int
      BY <1>4, <1>5
    <2>2. RunsThrough(spans, cursor, last)
      BY <2>1, RunThroughCount, Zenon
    <2> QED  BY <2>2 DEF RunsThrough
  <1>7. \A k \in 1..Len(spans) : first < spans[k].offset + spans[k].size <=> cursor < k
    BY <1>4, <1>5
  <1>8. {k \in DOMAIN spans : /\ spans[k].offset < last
                            /\ first < spans[k].offset + spans[k].size}
          = {k \in 1..Len(spans) : cursor < k /\ spans[k].offset < last}
    BY <1>5, <1>7
  <1> QED  BY <1>3, <1>6, <1>8 DEF first, last

LEMMA SpanListsSorted ==
  ASSUME NEW length \in Nat, NEW spans \in SpanLists(length)
  PROVE  SortedSpans(spans)
  <1> DEFINE span == {s \in [offset : 0 .. length - 1, size : 1 .. length] :
                         s.offset + s.size <= length}
             S == [offset : Nat, size : Nat \ {0}]
  <1>1. span \subseteq S
    OBVIOUS
  <1>2. \/ spans = << >>
        \/ \E s \in span : spans = <<s>>
        \/ \E s, t \in span : spans = <<s, t>> /\ s.offset + s.size <= t.offset
    BY DEF SpanLists
  <1> HIDE DEF span
  <1>3. CASE spans = << >>
    BY <1>3 DEF SortedSpans
  <1>4. ASSUME NEW s \in span, spans = <<s>> PROVE SortedSpans(spans)
    BY <1>1, <1>4 DEF SortedSpans
  <1>5. ASSUME NEW s \in span, NEW t \in span, spans = <<s, t>>,
               s.offset + s.size <= t.offset
        PROVE  SortedSpans(spans)
    BY <1>1, <1>5 DEF SortedSpans
  <1> QED  BY <1>2, <1>3, <1>4, <1>5

(* However the spans of a parse lie across the lines, each line is given   *)
(* exactly those that reach into it, although the two cursors of           *)
(* render_buffer_collect_lines only move forward.  SpansOfLine says so of  *)
(* lists of any length.                                                    *)
THEOREM SpansOfLines == AppSpec => []LineSpansExact
  <1>1. ASSUME EditorInv PROVE LineSpansExact
    <2>1. Len(render_text) \in Nat
      BY <1>1, LenProperties DEF EditorInv
    <2> SUFFICES ASSUME NEW spans \in SpanLists(Len(render_text)),
                        NEW line \in 0 .. line_count - 1
                 PROVE  {k \in DOMAIN spans :
                           /\ spans[k].offset < LineBreak(render_text, line)
                           /\ LineFirst(render_text, line) < spans[k].offset + spans[k].size}
                        = LineSpans(render_text, spans)[line + 1].first_span + 1 ..
                            LineSpans(render_text, spans)[line + 1].first_span
                              + LineSpans(render_text, spans)[line + 1].span_count
      BY Zenon DEF LineSpansExact
    <2>2. LineFeeds(render_text) \in Nat
      BY <2>1, FeedsFinite DEF LineFeeds
    <2>3. line \in 0..LineFeeds(render_text)
      BY <1>1, <2>2 DEF EditorInv
    <2>4. SortedSpans(spans)
      BY <2>1, SpanListsSorted
    <2> QED  BY <2>1, <2>3, <2>4, SpansOfLine, Zenon
  <1> QED  BY <1>1, AppStart, AppStep, PTL DEF AppSpec

=============================================================================
