---------------------------- MODULE PieceTreeProofs ----------------------------
(***************************************************************************)
(* For all texts, handles and bounds, and for every sequence of edits,     *)
(* undos, redos and returns to retained roots: every root that can be      *)
(* reached tiles its document with pieces of existing bytes, its metadata  *)
(* is that of its text, no operation changes the text of a root that was   *)
(* there before it, and the tree implements a text with a linear history.  *)
(* What a snapshot sees of the buffers is enough for its root, and its     *)
(* text stays what it was while the tree goes on.  The answers to line     *)
(* queries are those that the text gives.                                  *)
(***************************************************************************)
EXTENDS Snapshots, TreeQueries, FiniteSetTheorems, SequenceTheorems,
        WellFoundedInduction, TLAPS

-----------------------------------------------------------------------------
(* The buffers and the edits of one root: the line starts of a buffer     *)
(* determine the cursor of an offset and the offset of a cursor, inverse   *)
(* to each other, and both outlast everything that is appended.  The edits *)
(* of a root keep it a tiling of its document, splice and cut the text it  *)
(* stands for, and the line feeds it caches are those of that text.       *)

(* A set of numbers that has 0 and the successor of each of its members   *)
(* has all numbers.                                                       *)
LEMMA SetInduction ==
  ASSUME NEW S, 0 \in S, \A n \in Nat : n \in S => n + 1 \in S
  PROVE  Nat \subseteq S
  <1> DEFINE T == Nat \ S
  <1> SUFFICES ASSUME T # {} PROVE FALSE
    OBVIOUS
  <1>1. PICK x \in T : \A y \in T : ~ (<<y, x>> \in OpToRel(<, Nat))
    BY WFMin, NatLessThanWellFounded, T \subseteq Nat, Zenon
  <1>2. x \in Nat /\ x # 0
    OBVIOUS
  <1>3. x - 1 \in T
    BY <1>2
  <1>4. <<x - 1, x>> \in OpToRel(<, Nat)
    BY <1>2, SMT DEF OpToRel
  <1> QED  BY <1>1, <1>3, <1>4

(* The line starts of a buffer are those of its text. *)
WellFormed(buffer) ==
    /\ buffer \in CharBuffer
    /\ buffer.line_starts = calculate_line_starts(buffer.text)

StartsUpTo(buffer, offset) == {s \in buffer.line_starts : s <= offset}

StartsBelow(buffer, offset) == {s \in buffer.line_starts : s < offset}

(* start is the start of the line that offset is on. *)
LastStart(buffer, offset, start) ==
    /\ start \in buffer.line_starts
    /\ start <= offset
    /\ \A s \in buffer.line_starts : s <= offset => s <= start

LEMMA StartsFinite ==
  ASSUME NEW buffer, WellFormed(buffer)
  PROVE  /\ Len(buffer.text) \in Nat
         /\ buffer.line_starts \subseteq 0..Len(buffer.text)
         /\ IsFiniteSet(buffer.line_starts)
         /\ 0 \in buffer.line_starts
  <1>1. Len(buffer.text) \in Nat
    BY DEF WellFormed, CharBuffer, Text
  <1>2. buffer.line_starts \subseteq 0..Len(buffer.text) /\ 0 \in buffer.line_starts
    BY <1>1 DEF WellFormed, calculate_line_starts
  <1>3. IsFiniteSet(0..Len(buffer.text))
    BY <1>1, FS_Interval
  <1> QED  BY <1>1, <1>2, <1>3, FS_Subset

(* Every offset is on some line. *)
LEMMA LastStartExists ==
  ASSUME NEW buffer, WellFormed(buffer), NEW offset \in Nat
  PROVE  \E start \in Nat : LastStart(buffer, offset, start)
  <1> DEFINE S == {n \in Nat : \E start \in Nat : LastStart(buffer, n, start)}
  <1>1. 0 \in S
    BY StartsFinite DEF LastStart
  <1>2. ASSUME NEW n \in Nat, n \in S PROVE n + 1 \in S
    <2>1. PICK start \in Nat : LastStart(buffer, n, start)
      BY <1>2
    <2>2. CASE n + 1 \in buffer.line_starts
      BY <2>2, StartsFinite DEF LastStart
    <2>3. CASE n + 1 \notin buffer.line_starts
      <3>1. LastStart(buffer, n + 1, start)
        BY <2>1, <2>3, StartsFinite DEF LastStart
      <3> QED  BY <3>1
    <2> QED  BY <2>2, <2>3
  <1> HIDE DEF S
  <1>3. Nat \subseteq S
    BY <1>1, <1>2, SetInduction
  <1> QED  BY <1>3 DEF S

(* The index of the line of an offset is the number of line starts below  *)
(* that line's start.                                                     *)
LEMMA LineIndex ==
  ASSUME NEW buffer, WellFormed(buffer), NEW offset \in Nat,
         NEW start, LastStart(buffer, offset, start)
  PROVE  /\ line_start_index(buffer, offset) \in Nat
         /\ Cardinality(StartsBelow(buffer, start)) = line_start_index(buffer, offset)
  <1>1. /\ IsFiniteSet(StartsUpTo(buffer, offset))
        /\ start \in StartsUpTo(buffer, offset)
    BY StartsFinite, FS_Subset DEF StartsUpTo, LastStart
  <1>2. StartsBelow(buffer, start) = StartsUpTo(buffer, offset) \ {start}
    BY StartsFinite DEF StartsUpTo, StartsBelow, LastStart
  <1>3. /\ Cardinality(StartsBelow(buffer, start)) = Cardinality(StartsUpTo(buffer, offset)) - 1
        /\ Cardinality(StartsBelow(buffer, start)) \in Nat
    BY <1>1, <1>2, FS_RemoveElement, FS_CardinalityType
  <1> QED  BY <1>3 DEF line_start_index, StartsUpTo

(* Different line starts have different numbers of line starts below.     *)
LEMMA RankInjective ==
  ASSUME NEW buffer, WellFormed(buffer),
         NEW s \in buffer.line_starts, NEW t \in buffer.line_starts,
         Cardinality(StartsBelow(buffer, s)) = Cardinality(StartsBelow(buffer, t))
  PROVE  s = t
  <1>1. ASSUME NEW u \in buffer.line_starts, NEW v \in buffer.line_starts, u < v
        PROVE  Cardinality(StartsBelow(buffer, u)) # Cardinality(StartsBelow(buffer, v))
    <2>1. IsFiniteSet(StartsBelow(buffer, v))
      BY StartsFinite, FS_Subset DEF StartsBelow
    <2>2. /\ StartsBelow(buffer, u) \in SUBSET StartsBelow(buffer, v)
          /\ u \in StartsBelow(buffer, v) /\ u \notin StartsBelow(buffer, u)
      BY <1>1, StartsFinite DEF StartsBelow
    <2> QED  BY <2>1, <2>2, FS_Subset
  <1>2. s \in Nat /\ t \in Nat
    BY StartsFinite
  <1>3. ~(s < t) /\ ~(t < s)
    BY <1>1
  <1> QED  BY <1>2, <1>3

(* LineStart inverts line_start_index up to the start of the line. *)
LEMMA LineStartOfIndex ==
  ASSUME NEW buffer, WellFormed(buffer), NEW offset \in Nat,
         NEW start, LastStart(buffer, offset, start)
  PROVE  LineStart(buffer, line_start_index(buffer, offset)) = start
  <1> DEFINE line == line_start_index(buffer, offset)
  <1>1. start \in buffer.line_starts /\ Cardinality(StartsBelow(buffer, start)) = line
    BY LineIndex DEF LastStart
  <1>2. \A s \in buffer.line_starts :
           Cardinality(StartsBelow(buffer, s)) = line => s = start
    BY <1>1, RankInjective
  <1> DEFINE found == CHOOSE s \in buffer.line_starts :
                        Cardinality(StartsBelow(buffer, s)) = line
  <1>3. found \in buffer.line_starts /\ Cardinality(StartsBelow(buffer, found)) = line
    BY <1>1
  <1>4. found = start
    BY <1>2, <1>3
  <1>5. LineStart(buffer, line) = found
    BY DEF LineStart, StartsBelow
  <1> QED  BY <1>4, <1>5

(* The cursor of an offset leads back to that offset. *)
LEMMA CursorRoundTrip ==
  ASSUME NEW buffer, WellFormed(buffer), NEW offset \in Nat
  PROVE  /\ cursor_from_offset(buffer, offset) \in Cursor
         /\ cursor_offset(buffer, cursor_from_offset(buffer, offset)) = offset
  <1>1. PICK start \in Nat : LastStart(buffer, offset, start)
    BY LastStartExists
  <1>2. /\ LineStart(buffer, line_start_index(buffer, offset)) = start
        /\ line_start_index(buffer, offset) \in Nat
    BY <1>1, LineStartOfIndex, LineIndex
  <1>3. cursor_from_offset(buffer, offset)
          = [line |-> line_start_index(buffer, offset), column |-> offset - start]
    BY <1>2 DEF cursor_from_offset
  <1>4. offset - start \in Nat /\ start + (offset - start) = offset
    BY <1>1 DEF LastStart
  <1> QED  BY <1>2, <1>3, <1>4 DEF cursor_offset, Cursor

(* A range that does not run backwards has no negative line feed count.   *)
LEMMA LineFeedsNatural ==
  ASSUME NEW buffer, WellFormed(buffer), NEW i \in Nat, NEW j \in Nat, i <= j
  PROVE  lf_count_in_range(buffer, i, j) \in Nat
  <1>1. IsFiniteSet(StartsUpTo(buffer, j)) /\ StartsUpTo(buffer, i) \in SUBSET StartsUpTo(buffer, j)
    BY StartsFinite, FS_Subset DEF StartsUpTo
  <1>2. /\ Cardinality(StartsUpTo(buffer, i)) <= Cardinality(StartsUpTo(buffer, j))
        /\ Cardinality(StartsUpTo(buffer, i)) \in Nat /\ Cardinality(StartsUpTo(buffer, j)) \in Nat
    BY <1>1, FS_Subset, FS_CardinalityType
  <1>3. lf_count_in_range(buffer, i, j)
          = (Cardinality(StartsUpTo(buffer, j)) - 1) - (Cardinality(StartsUpTo(buffer, i)) - 1)
    BY DEF lf_count_in_range, line_start_index, StartsUpTo
  <1> QED  BY <1>2, <1>3

-----------------------------------------------------------------------------
(* Appending to a buffer *)

LEMMA ExtendWellFormed ==
  ASSUME NEW buffer, WellFormed(buffer), NEW text \in Text
  PROVE  /\ WellFormed(Extend(buffer, text))
         /\ Len(Extend(buffer, text).text) = Len(buffer.text) + Len(text)
         /\ Len(buffer.text) \in Nat /\ Len(text) \in Nat
         /\ \A k \in 1..Len(buffer.text) : Extend(buffer, text).text[k] = buffer.text[k]
  <1> DEFINE new == Extend(buffer, text)
             size == Len(buffer.text)
             added == {size + k : k \in {i \in 1..Len(text) : text[i] = LF}}
  <1>1. /\ buffer.text \in Seq(Char) /\ text \in Seq(Char)
        /\ size \in Nat /\ Len(text) \in Nat
    BY DEF WellFormed, CharBuffer, Text
  <1>2. /\ new.text = buffer.text \o text
        /\ new.line_starts = buffer.line_starts \cup added
        /\ new = [text |-> new.text, line_starts |-> new.line_starts]
    BY DEF Extend
  <1>3. /\ new.text \in Seq(Char)
        /\ Len(new.text) = size + Len(text)
        /\ \A k \in 1..(size + Len(text)) :
              new.text[k] = IF k <= size THEN buffer.text[k] ELSE text[k - size]
    BY <1>1, <1>2, ConcatProperties
  <1>4. new.line_starts = calculate_line_starts(new.text)
    <2>1. ASSUME NEW s \in calculate_line_starts(new.text) PROVE s \in new.line_starts
      <3>1. CASE s = 0
        BY <3>1, <1>2, StartsFinite
      <3>2. CASE s \in 1..size /\ buffer.text[s] = LF
        BY <3>2, <1>1, <1>2 DEF WellFormed, calculate_line_starts
      <3>3. CASE s \in (size + 1)..(size + Len(text)) /\ text[s - size] = LF
        <4>1. s - size \in {i \in 1..Len(text) : text[i] = LF} /\ s = size + (s - size)
          BY <3>3, <1>1
        <4> QED  BY <4>1, <1>2
      <3>4. s = 0 \/ (s \in 1..(size + Len(text)) /\ new.text[s] = LF)
        BY <1>3 DEF calculate_line_starts
      <3> HIDE DEF new, size
      <3> QED  BY <1>1, <1>3, <3>1, <3>2, <3>3, <3>4
    <2>2. ASSUME NEW s \in new.line_starts PROVE s \in calculate_line_starts(new.text)
      <3>1. CASE s \in buffer.line_starts
        <4>1. s = 0 \/ (s \in 1..size /\ buffer.text[s] = LF)
          BY <3>1 DEF WellFormed, calculate_line_starts
        <4> HIDE DEF new, size
        <4> QED  BY <4>1, <1>1, <1>3 DEF calculate_line_starts
      <3>2. CASE s \in added
        <4>1. PICK k \in 1..Len(text) : s = size + k /\ text[k] = LF
          BY <3>2
        <4> HIDE DEF new, size
        <4> QED  BY <4>1, <1>1, <1>3 DEF calculate_line_starts
      <3> QED  BY <3>1, <3>2, <1>2
    <2> QED  BY <2>1, <2>2
  <1>5. new \in CharBuffer
    <2>1. new.line_starts \subseteq Nat
      BY <1>3, <1>4, <1>1 DEF calculate_line_starts
    <2> QED  BY <2>1, <1>2, <1>3 DEF CharBuffer, Text
  <1> QED  BY <1>1, <1>3, <1>4, <1>5 DEF WellFormed

(* No line start up to the old end is added. *)
LEMMA ExtendKeepsStarts ==
  ASSUME NEW buffer, WellFormed(buffer), NEW text \in Text,
         NEW offset \in 0..Len(buffer.text)
  PROVE  StartsUpTo(Extend(buffer, text), offset) = StartsUpTo(buffer, offset)
  <1>1. Len(buffer.text) \in Nat /\ Len(text) \in Nat /\ buffer.line_starts \subseteq Nat
    BY ExtendWellFormed, StartsFinite
  <1>2. Extend(buffer, text).line_starts
          = buffer.line_starts
              \cup {Len(buffer.text) + k : k \in {i \in 1..Len(text) : text[i] = LF}}
    BY DEF Extend
  <1> QED  BY <1>1, <1>2 DEF StartsUpTo

(* A cursor and a line feed count up to the old end stay what they were.  *)
LEMMA ExtendKeepsCursors ==
  ASSUME NEW buffer, WellFormed(buffer), NEW text \in Text,
         NEW offset \in 0..Len(buffer.text)
  PROVE  /\ line_start_index(Extend(buffer, text), offset) = line_start_index(buffer, offset)
         /\ cursor_from_offset(Extend(buffer, text), offset) = cursor_from_offset(buffer, offset)
  <1> DEFINE new == Extend(buffer, text)
  <1>1. offset \in Nat /\ WellFormed(new)
    BY ExtendWellFormed
  <1>2. line_start_index(new, offset) = line_start_index(buffer, offset)
    BY ExtendKeepsStarts DEF line_start_index, StartsUpTo
  <1>3. PICK start \in Nat : LastStart(buffer, offset, start)
    BY <1>1, LastStartExists
  <1>4. LastStart(new, offset, start)
    BY <1>3, ExtendKeepsStarts DEF LastStart, StartsUpTo
  <1>5. /\ LineStart(buffer, line_start_index(buffer, offset)) = start
        /\ LineStart(new, line_start_index(new, offset)) = start
    BY <1>1, <1>3, <1>4, LineStartOfIndex
  <1> HIDE DEF new
  <1>6. cursor_from_offset(new, offset) = cursor_from_offset(buffer, offset)
    BY <1>2, <1>5 DEF cursor_from_offset
  <1> QED  BY <1>2, <1>6 DEF new

(* The line feeds of an appended text are counted by its range. *)
LEMMA ExtendCountsLineFeeds ==
  ASSUME NEW buffer, WellFormed(buffer), NEW text \in Text
  PROVE  LET size == Len(buffer.text)
         IN  lf_count_in_range(Extend(buffer, text), size, size + Len(text))
               = Cardinality({k \in 1..Len(text) : text[k] = LF})
  <1> DEFINE new == Extend(buffer, text)
             size == Len(buffer.text)
             feeds == {k \in 1..Len(text) : text[k] = LF}
             added == {size + k : k \in feeds}
             f == [k \in feeds |-> size + k]
  <1>1. size \in Nat /\ Len(text) \in Nat /\ WellFormed(new)
    BY ExtendWellFormed
  <1>2. IsFiniteSet(feeds)
    <2>1. IsFiniteSet(1..Len(text)) /\ feeds \in SUBSET (1..Len(text))
      BY <1>1, FS_Interval
    <2> HIDE DEF feeds
    <2> QED  BY <2>1, FS_Subset
  <1>3. f \in Bijection(feeds, added)
    <2>1. f \in [feeds -> added]
      OBVIOUS
    <2>2. \A i, j \in feeds : f[i] = f[j] => i = j
      BY <1>1
    <2>3. \A t \in added : \E i \in feeds : f[i] = t
      OBVIOUS
    <2> HIDE DEF f, feeds, added
    <2> QED  BY <2>1, <2>2, <2>3 DEF Bijection, Injection, Surjection, IsInjective
  <1>4. IsFiniteSet(added) /\ Cardinality(added) = Cardinality(feeds)
    BY <1>2, <1>3, FS_Bijection DEF ExistsBijection
  <1>5. /\ StartsUpTo(new, size) = buffer.line_starts
        /\ StartsUpTo(new, size + Len(text)) = buffer.line_starts \cup added
        /\ buffer.line_starts \cap added = {}
    BY <1>1, StartsFinite DEF StartsUpTo, Extend
  <1>6. /\ IsFiniteSet(buffer.line_starts)
        /\ Cardinality(buffer.line_starts) \in Nat
        /\ Cardinality(added) \in Nat
    BY <1>4, StartsFinite, FS_CardinalityType
  <1> HIDE DEF f, added, feeds, new, size
  <1>7. Cardinality(buffer.line_starts \cup added)
          = Cardinality(buffer.line_starts) + Cardinality(added)
    <2>1. Cardinality(buffer.line_starts \cap added) = 0
      BY <1>5, FS_EmptySet
    <2>2. Cardinality(buffer.line_starts \cup added)
            = Cardinality(buffer.line_starts) + Cardinality(added)
                - Cardinality(buffer.line_starts \cap added)
      BY <1>4, <1>6, FS_Union
    <2> QED  BY <1>6, <2>1, <2>2
  <1>8. lf_count_in_range(new, size, size + Len(text))
          = (Cardinality(StartsUpTo(new, size + Len(text))) - 1)
              - (Cardinality(StartsUpTo(new, size)) - 1)
    BY DEF lf_count_in_range, line_start_index, StartsUpTo
  <1>9. lf_count_in_range(new, size, size + Len(text)) = Cardinality(feeds)
    <2>1. lf_count_in_range(new, size, size + Len(text))
            = (Cardinality(buffer.line_starts \cup added) - 1)
                - (Cardinality(buffer.line_starts) - 1)
      BY <1>5, <1>8, Zenon
    <2> QED  BY <1>4, <1>6, <1>7, <2>1
  <1> QED  BY <1>9 DEF new, size, feeds

-----------------------------------------------------------------------------
(* Roots *)

BuffersOK(buffers) ==
    /\ buffers \in BufferCollection
    /\ WellFormed(buffers.mod)
    /\ \A i \in 1..Len(buffers.orig) : WellFormed(buffers.orig[i])

(* What IsRoot says, without the line feed count of the whole tree. *)
Shape(root) ==
    /\ root.length \in Nat
    /\ Starts(root) \subseteq Nat
    /\ \A s \in Starts(root) : root.pieces[s] \in Piece

TiledShape(root) == Shape(root) /\ Tiled(root)

GoodPiece(buffers, piece) ==
    /\ piece \in Piece
    /\ piece.length > 0
    /\ PieceOK(buffers, piece)

GoodRoot(buffers, root) == TiledShape(root) /\ PiecesOK(buffers, root)

(* A piece can be put at this offset without splitting another one. *)
Boundary(root, offset) == offset = root.length \/ offset \in Starts(root)

-----------------------------------------------------------------------------
(* RedBlackTree::find_node *)

LEMMA FindNode ==
  ASSUME NEW root, TiledShape(root), NEW offset \in Nat, offset < root.length
  PROVE  LET found == find_node(root, offset)
         IN  /\ found.start_offset \in Starts(root)
             /\ found.piece = root.pieces[found.start_offset]
             /\ found.remainder = offset - found.start_offset
             /\ found.remainder \in Nat
             /\ found.remainder < found.piece.length
  <1> DEFINE At(s) == [piece        |-> root.pieces[s],
                       start_offset |-> s,
                       remainder    |-> offset - s]
             Nodes == {At(s) : s \in Starts(root)}
             Holds(position) == /\ 0 <= position.remainder
                                /\ position.remainder < position.piece.length
  <1>1. PICK s \in Starts(root) : s <= offset /\ offset < End(root, s)
    BY DEF TiledShape, Shape, Tiled, HasNode
  <1>2. s \in Nat /\ root.pieces[s].length \in Nat
    BY <1>1 DEF TiledShape, Shape, Piece
  <1>3. At(s) \in Nodes /\ Holds(At(s))
    BY <1>1, <1>2 DEF End
  <1>4. find_node(root, offset) = CHOOSE position \in Nodes : Holds(position)
    BY DEF find_node
  <1>5. find_node(root, offset) \in Nodes /\ Holds(find_node(root, offset))
    BY <1>3, <1>4
  <1>6. PICK t \in Starts(root) : find_node(root, offset) = At(t)
    BY <1>5
  <1>7. t \in Nat
    BY <1>6 DEF TiledShape, Shape
  <1> QED  BY <1>5, <1>6, <1>7

-----------------------------------------------------------------------------
(* RedBlackTree::insert *)

(* Where the pieces of the new root start, and which ones they are. *)
LEMMA InsertStarts ==
  ASSUME NEW root, TiledShape(root), NEW piece \in Piece, piece.length > 0,
         NEW at \in Nat, NEW s
  PROVE  LET new == InsertPiece(root, piece, at)
             back == s - piece.length
         IN  /\ s \in Starts(new) <=> \/ s \in Starts(root) /\ s < at
                                      \/ s = at
                                      \/ s \in Nat /\ back \in Starts(root) /\ back >= at
             /\ s \in Starts(root) /\ s < at => new.pieces[s] = root.pieces[s]
             /\ s = at => new.pieces[s] = piece
             /\ s \in Nat /\ back \in Starts(root) /\ back >= at
                  => new.pieces[s] = root.pieces[back]
  <1> DEFINE before == {t \in Starts(root) : t < at}
             after == {t + piece.length : t \in Starts(root) \ before}
             new == InsertPiece(root, piece, at)
  <1>1. new.pieces = [t \in before \cup {at} \cup after |->
                         IF t < at THEN root.pieces[t]
                         ELSE IF t = at THEN piece
                         ELSE root.pieces[t - piece.length]]
    BY DEF InsertPiece
  <1>2. Starts(new) = before \cup {at} \cup after
    BY <1>1 DEF Starts
  <1>3. piece.length \in Nat /\ Starts(root) \subseteq Nat
    BY DEF Piece, TiledShape, Shape
  <1>4. s \in after <=> s \in Nat /\ s - piece.length \in Starts(root) /\ s - piece.length >= at
    <2>1. ASSUME s \in after
          PROVE  s \in Nat /\ s - piece.length \in Starts(root) /\ s - piece.length >= at
      <3>1. PICK t \in Starts(root) \ before : s = t + piece.length
        BY <2>1
      <3> QED  BY <3>1, <1>3
    <2>2. ASSUME s \in Nat, s - piece.length \in Starts(root), s - piece.length >= at
          PROVE  s \in after
      <3>1. s - piece.length \in Starts(root) \ before /\ s = (s - piece.length) + piece.length
        BY <2>2, <1>3
      <3> QED  BY <3>1
    <2> QED  BY <2>1, <2>2
  <1> HIDE DEF after, new
  <1> QED  BY <1>1, <1>2, <1>3, <1>4 DEF new

LEMMA InsertKeepsGood ==
  ASSUME NEW buffers, NEW root, GoodRoot(buffers, root),
         NEW piece, GoodPiece(buffers, piece),
         NEW at \in Nat, Boundary(root, at)
  PROVE  LET new == InsertPiece(root, piece, at)
         IN  /\ GoodRoot(buffers, new)
             /\ new.length = root.length + piece.length
             /\ Boundary(new, at)
             /\ Boundary(new, at + piece.length)
  <1> DEFINE new == InsertPiece(root, piece, at)
             len == piece.length
  <1>1. /\ piece \in Piece /\ len \in Nat /\ len > 0
        /\ TiledShape(root) /\ Starts(root) \subseteq Nat /\ root.length \in Nat
        /\ \A s \in Starts(root) : root.pieces[s] \in Piece /\ root.pieces[s].length \in Nat
    BY DEF GoodPiece, GoodRoot, TiledShape, Shape, Piece
  <1>2. new.length = root.length + len
    BY DEF InsertPiece
  <1>3. \A s : s \in Starts(new) <=> \/ s \in Starts(root) /\ s < at
                                     \/ s = at
                                     \/ s \in Nat /\ s - len \in Starts(root) /\ s - len >= at
    BY <1>1, InsertStarts
  <1>4. /\ \A s \in Starts(root) : s < at => new.pieces[s] = root.pieces[s]
        /\ new.pieces[at] = piece
        /\ \A s \in Nat : s - len \in Starts(root) /\ s - len >= at
                            => new.pieces[s] = root.pieces[s - len]
    BY <1>1, InsertStarts
  <1>5. at <= root.length /\ \A s \in Starts(root) : s < at => End(root, s) <= at
    BY <1>1 DEF Boundary, TiledShape, Tiled, End
  <1> HIDE DEF new
  <1>6. Shape(new)
    BY <1>1, <1>2, <1>3, <1>4 DEF Shape
  <1>7. /\ \A s \in Starts(root) : s < at => End(new, s) = End(root, s)
        /\ End(new, at) = at + len
        /\ \A s \in Nat : s - len \in Starts(root) /\ s - len >= at
                            => End(new, s) = End(root, s - len) + len
    BY <1>1, <1>4 DEF End
  <1>8. ASSUME NEW offset \in 0..(new.length - 1) PROVE HasNode(new, offset)
    <2>1. CASE offset < at
      <3>1. PICK s \in Starts(root) : s <= offset /\ offset < End(root, s)
        BY <2>1, <1>1, <1>2, <1>5 DEF TiledShape, Tiled, HasNode
      <3>2. s < at
        BY <2>1, <3>1, <1>1
      <3> QED  BY <3>1, <3>2, <1>3, <1>7 DEF HasNode
    <2>2. CASE offset \in at..(at + len - 1)
      BY <2>2, <1>1, <1>3, <1>7 DEF HasNode
    <2>3. CASE offset >= at + len
      <3>1. PICK s \in Starts(root) : s <= offset - len /\ offset - len < End(root, s)
        BY <2>3, <1>1, <1>2 DEF TiledShape, Tiled, HasNode
      <3>2. s >= at
        BY <2>3, <3>1, <1>1, <1>5 DEF End
      <3>3. s + len \in Nat /\ (s + len) - len = s
        BY <1>1
      <3>4. s + len \in Starts(new) /\ End(new, s + len) = End(root, s) + len
        BY <3>2, <3>3, <1>3, <1>7
      <3> QED  BY <3>1, <3>3, <3>4, <1>1 DEF HasNode, End
    <2> QED  BY <2>1, <2>2, <2>3, <1>1, <1>2
  <1>9. ASSUME NEW s \in Starts(new)
        PROVE  /\ new.pieces[s].length > 0
               /\ End(new, s) <= new.length
               /\ \A t \in Starts(new) : s < t => End(new, s) <= t
    <2> USE DEF TiledShape, Tiled
    <2>1. CASE s \in Starts(root) /\ s < at
      <3>1. new.pieces[s] = root.pieces[s] /\ End(new, s) = End(root, s)
        BY <2>1, <1>4, <1>7
      <3>2. End(root, s) \in Nat /\ End(root, s) <= at
        BY <2>1, <1>1, <1>5 DEF End
      <3>3. root.pieces[s].length > 0
        BY <2>1, <1>1
      <3>4. ASSUME NEW t \in Starts(new), s < t PROVE End(new, s) <= t
        <4>1. CASE t \in Starts(root) /\ t < at
          BY <4>1, <3>4, <3>1, <2>1, <1>1
        <4>2. CASE t >= at /\ t \in Nat
          BY <4>2, <3>1, <3>2
        <4> QED  BY <4>1, <4>2, <1>1, <1>3
      <3> QED  BY <3>1, <3>2, <3>3, <3>4, <1>1, <1>2, <1>5
    <2>2. CASE s = at
      BY <2>2, <1>1, <1>2, <1>3, <1>4, <1>5, <1>7
    <2>3. CASE s \in Nat /\ s - len \in Starts(root) /\ s - len >= at
      <3>1. new.pieces[s] = root.pieces[s - len] /\ End(new, s) = End(root, s - len) + len
        BY <2>3, <1>4, <1>7
      <3>2. End(root, s - len) \in Nat /\ End(root, s - len) <= root.length
        BY <2>3, <1>1 DEF End
      <3>3. ASSUME NEW t \in Starts(new), s < t PROVE End(new, s) <= t
        <4>1. t \in Nat /\ t - len \in Starts(root) /\ s - len < t - len
          BY <3>3, <2>3, <1>1, <1>3
        <4>2. End(root, s - len) <= t - len
          BY <4>1, <2>3, <1>1
        <4> QED  BY <4>1, <4>2, <3>1, <3>2, <1>1
      <3> QED  BY <3>1, <3>2, <3>3, <2>3, <1>1, <1>2
    <2> QED  BY <2>1, <2>2, <2>3, <1>3
  <1>10. PiecesOK(buffers, new)
    BY <1>1, <1>3, <1>4 DEF PiecesOK, GoodRoot, GoodPiece
  <1>11. Boundary(new, at) /\ Boundary(new, at + len)
    <2>1. at + len = new.length \/ at + len \in Starts(new)
      <3>1. CASE at = root.length
        BY <3>1, <1>2
      <3>2. CASE at \in Starts(root)
        BY <3>2, <1>1, <1>3
      <3> QED  BY <3>1, <3>2 DEF Boundary
    <2> QED  BY <2>1, <1>3 DEF Boundary
  <1> QED  BY <1>2, <1>6, <1>8, <1>9, <1>10, <1>11 DEF GoodRoot, TiledShape, Tiled, new

-----------------------------------------------------------------------------
(* RedBlackTree::remove *)

LEMMA RemoveStarts ==
  ASSUME NEW root, TiledShape(root), NEW at \in Starts(root), NEW s
  PROVE  LET new == RemovePiece(root, at)
             ahead == s + root.pieces[at].length
         IN  /\ s \in Starts(new) <=> \/ s \in Starts(root) /\ s < at
                                      \/ s \in Nat /\ ahead \in Starts(root) /\ s >= at
             /\ s \in Starts(root) /\ s < at => new.pieces[s] = root.pieces[s]
             /\ s \in Nat /\ ahead \in Starts(root) /\ s >= at
                  => new.pieces[s] = root.pieces[ahead]
  <1> DEFINE len == root.pieces[at].length
             before == {t \in Starts(root) : t < at}
             after == {t - len : t \in Starts(root) \ (before \cup {at})}
             new == RemovePiece(root, at)
  <1>1. new.pieces = [t \in before \cup after |->
                         IF t < at THEN root.pieces[t] ELSE root.pieces[t + len]]
    BY DEF RemovePiece
  <1>2. Starts(new) = before \cup after
    BY <1>1 DEF Starts
  <1>3. len \in Nat /\ len > 0 /\ Starts(root) \subseteq Nat /\ at \in Nat
    BY DEF Piece, TiledShape, Shape, Tiled
  <1>4. s \in after <=> s \in Nat /\ s + len \in Starts(root) /\ s >= at
    <2>1. ASSUME s \in after PROVE s \in Nat /\ s + len \in Starts(root) /\ s >= at
      <3>1. PICK t \in Starts(root) \ (before \cup {at}) : s = t - len
        BY <2>1
      <3>2. t > at
        BY <3>1, <1>3
      <3>3. at + len <= t
        BY <3>1, <3>2 DEF TiledShape, Tiled, End
      <3> QED  BY <3>1, <3>3, <1>3
    <2>2. ASSUME s \in Nat, s + len \in Starts(root), s >= at PROVE s \in after
      <3>1. s + len \in Starts(root) \ (before \cup {at}) /\ s = (s + len) - len
        BY <2>2, <1>3
      <3> QED  BY <3>1
    <2> QED  BY <2>1, <2>2
  <1> HIDE DEF after, new, len
  <1> QED  BY <1>1, <1>2, <1>3, <1>4 DEF new, len

LEMMA RemoveKeepsGood ==
  ASSUME NEW buffers, NEW root, GoodRoot(buffers, root), NEW at \in Starts(root)
  PROVE  LET new == RemovePiece(root, at)
         IN  /\ GoodRoot(buffers, new)
             /\ new.length = root.length - root.pieces[at].length
             /\ at \in Nat
             /\ Boundary(new, at)
  <1> DEFINE new == RemovePiece(root, at)
             len == root.pieces[at].length
  <1>1. /\ len \in Nat /\ len > 0 /\ at \in Nat
        /\ TiledShape(root) /\ Starts(root) \subseteq Nat /\ root.length \in Nat
        /\ \A s \in Starts(root) : root.pieces[s] \in Piece /\ root.pieces[s].length \in Nat
    BY DEF GoodRoot, TiledShape, Shape, Piece, Tiled
  <1>2. new.length = root.length - len
    BY DEF RemovePiece
  <1>3. \A s : s \in Starts(new) <=> \/ s \in Starts(root) /\ s < at
                                     \/ s \in Nat /\ s + len \in Starts(root) /\ s >= at
    BY <1>1, RemoveStarts
  <1>4. /\ \A s \in Starts(root) : s < at => new.pieces[s] = root.pieces[s]
        /\ \A s \in Nat : s + len \in Starts(root) /\ s >= at
                            => new.pieces[s] = root.pieces[s + len]
    BY <1>1, RemoveStarts
  <1>5. /\ \A s \in Starts(root) : s < at => End(root, s) <= at
        /\ \A s \in Starts(root) : s > at => s >= at + len
        /\ at + len <= root.length
    BY <1>1 DEF TiledShape, Tiled, End
  <1> HIDE DEF new, len
  <1>6. Shape(new)
    BY <1>1, <1>2, <1>3, <1>4, <1>5 DEF Shape
  <1>7. /\ \A s \in Starts(root) : s < at => End(new, s) = End(root, s)
        /\ \A s \in Nat : s + len \in Starts(root) /\ s >= at
                            => End(new, s) = End(root, s + len) - len
    BY <1>1, <1>4 DEF End
  <1>8. ASSUME NEW offset \in 0..(new.length - 1) PROVE HasNode(new, offset)
    <2>1. CASE offset < at
      <3>1. PICK s \in Starts(root) : s <= offset /\ offset < End(root, s)
        BY <2>1, <1>1, <1>2, <1>5 DEF TiledShape, Tiled, HasNode
      <3>2. s < at
        BY <2>1, <3>1, <1>1
      <3> QED  BY <3>1, <3>2, <1>3, <1>7 DEF HasNode
    <2>2. CASE offset >= at
      <3>1. PICK s \in Starts(root) : s <= offset + len /\ offset + len < End(root, s)
        BY <2>2, <1>1, <1>2 DEF TiledShape, Tiled, HasNode
      <3>2. s > at
        <4>1. ~(s < at)
          BY <2>2, <3>1, <1>1, <1>5 DEF End
        <4>2. s # at
          BY <2>2, <3>1, <1>1 DEF End, len
        <4> QED  BY <4>1, <4>2, <1>1
      <3>3. s - len \in Nat /\ s - len >= at /\ (s - len) + len = s
        BY <3>2, <1>1, <1>5
      <3>4. s - len \in Starts(new) /\ End(new, s - len) = End(root, s) - len
        BY <3>3, <1>3, <1>7
      <3> QED  BY <3>1, <3>3, <3>4, <1>1 DEF HasNode, End
    <2> QED  BY <2>1, <2>2, <1>1, <1>2
  <1>9. ASSUME NEW s \in Starts(new)
        PROVE  /\ new.pieces[s].length > 0
               /\ End(new, s) <= new.length
               /\ \A t \in Starts(new) : s < t => End(new, s) <= t
    <2> USE DEF TiledShape, Tiled
    <2>1. CASE s \in Starts(root) /\ s < at
      <3>1. new.pieces[s] = root.pieces[s] /\ End(new, s) = End(root, s)
        BY <2>1, <1>4, <1>7
      <3>2. End(root, s) \in Nat /\ End(root, s) <= at
        BY <2>1, <1>1, <1>5 DEF End
      <3>3. root.pieces[s].length > 0
        BY <2>1, <1>1
      <3>4. ASSUME NEW t \in Starts(new), s < t PROVE End(new, s) <= t
        <4>1. CASE t \in Starts(root) /\ t < at
          BY <4>1, <3>4, <3>1, <2>1, <1>1
        <4>2. CASE t >= at /\ t \in Nat
          BY <4>2, <3>1, <3>2, <1>1
        <4> QED  BY <4>1, <4>2, <1>1, <1>3
      <3> QED  BY <3>1, <3>2, <3>3, <3>4, <1>1, <1>2, <1>5
    <2>2. CASE s \in Nat /\ s + len \in Starts(root) /\ s >= at
      <3>1. new.pieces[s] = root.pieces[s + len] /\ End(new, s) = End(root, s + len) - len
        BY <2>2, <1>4, <1>7
      <3>2. /\ End(root, s + len) \in Nat /\ End(root, s + len) <= root.length
            /\ root.pieces[s + len].length > 0
        BY <2>2, <1>1 DEF End
      <3>3. ASSUME NEW t \in Starts(new), s < t PROVE End(new, s) <= t
        <4>1. t \in Nat /\ t + len \in Starts(root) /\ s + len < t + len
          BY <3>3, <2>2, <1>1, <1>3
        <4>2. End(root, s + len) <= t + len
          BY <4>1, <2>2, <1>1
        <4> QED  BY <4>1, <4>2, <3>1, <3>2, <1>1
      <3> QED  BY <3>1, <3>2, <3>3, <2>2, <1>1, <1>2
    <2> QED  BY <2>1, <2>2, <1>3
  <1>10. PiecesOK(buffers, new)
    BY <1>1, <1>3, <1>4 DEF PiecesOK, GoodRoot
  <1>11. Boundary(new, at)
    <2>1. CASE at + len = root.length
      BY <2>1, <1>1, <1>2 DEF Boundary
    <2>2. CASE at + len < root.length
      <3>1. PICK s \in Starts(root) : s <= at + len /\ at + len < End(root, s)
        BY <2>2, <1>1 DEF TiledShape, Tiled, HasNode
      <3>2. ~(s < at) /\ s # at
        BY <3>1, <1>1, <1>5 DEF End, len
      <3>3. s = at + len
        BY <3>1, <3>2, <1>1, <1>5
      <3> QED  BY <3>3, <1>1, <1>3 DEF Boundary
    <2> QED  BY <2>1, <2>2, <1>1, <1>5
  <1> QED  BY <1>1, <1>2, <1>6, <1>8, <1>9, <1>10, <1>11
           DEF GoodRoot, TiledShape, Tiled, new, len

-----------------------------------------------------------------------------
(* Pieces of a buffer *)

LEMMA BufferAt ==
  ASSUME NEW buffers, BuffersOK(buffers), NEW index \in 0..Len(buffers.orig)
  PROVE  WellFormed(buffer_at(buffers, index))
  <1>1. Len(buffers.orig) \in Nat
    BY DEF BuffersOK, BufferCollection
  <1> QED  BY <1>1 DEF BuffersOK, buffer_at, ModBuf

LEMMA PieceOfGood ==
  ASSUME NEW buffers, BuffersOK(buffers), NEW index \in 0..Len(buffers.orig),
         NEW i \in Nat, NEW j \in Nat, i <= j, j <= Len(buffer_at(buffers, index).text)
  PROVE  LET piece == PieceOf(buffers, index, i, j)
         IN  /\ piece \in Piece
             /\ piece.length = j - i
             /\ PieceOK(buffers, piece)
  <1> DEFINE buffer == buffer_at(buffers, index)
             piece == PieceOf(buffers, index, i, j)
  <1>1. WellFormed(buffer) /\ Len(buffer.text) \in Nat /\ index \in Nat
    BY BufferAt, StartsFinite
  <1>2. /\ cursor_from_offset(buffer, i) \in Cursor
        /\ cursor_from_offset(buffer, j) \in Cursor
        /\ lf_count_in_range(buffer, i, j) \in Nat
    BY <1>1, CursorRoundTrip, LineFeedsNatural
  <1>3. piece = [index |-> index,
                 first |-> cursor_from_offset(buffer, i),
                 last |-> cursor_from_offset(buffer, j),
                 length |-> j - i,
                 newline_count |-> lf_count_in_range(buffer, i, j)]
    BY DEF PieceOf
  <1> HIDE DEF buffer
  <1>4. piece \in Piece /\ piece.length = j - i /\ piece.index = index
    BY <1>1, <1>2, <1>3 DEF Piece
  <1> HIDE DEF piece
  <1>5. i \in 0..Len(buffer.text) /\ i + piece.length = j
    BY <1>1, <1>4 DEF buffer
  <1> QED  BY <1>4, <1>5 DEF PieceOK, piece, buffer

(* The range of its buffer that a piece names. *)
LEMMA PieceRangeOf ==
  ASSUME NEW buffers, BuffersOK(buffers), NEW piece \in Piece, PieceOK(buffers, piece)
  PROVE  LET buffer == buffer_at(buffers, piece.index)
             base == cursor_offset(buffer, piece.first)
         IN  /\ WellFormed(buffer) /\ Len(buffer.text) \in Nat
             /\ base \in Nat /\ piece.length \in Nat
             /\ base + piece.length <= Len(buffer.text)
             /\ piece = PieceOf(buffers, piece.index, base, base + piece.length)
             /\ cursor_offset(buffer, piece.last) = base + piece.length
  <1> DEFINE buffer == buffer_at(buffers, piece.index)
  <1>1. WellFormed(buffer) /\ Len(buffer.text) \in Nat
    BY BufferAt, StartsFinite DEF PieceOK
  <1>2. PICK first \in 0..Len(buffer.text) :
           /\ first + piece.length <= Len(buffer.text)
           /\ piece = PieceOf(buffers, piece.index, first, first + piece.length)
    BY DEF PieceOK
  <1>3. first \in Nat /\ piece.length \in Nat /\ first + piece.length \in Nat
    BY <1>1 DEF Piece
  <1>4. /\ piece.first = cursor_from_offset(buffer, first)
        /\ piece.last = cursor_from_offset(buffer, first + piece.length)
    BY <1>2 DEF PieceOf
  <1> HIDE DEF buffer
  <1>5. /\ cursor_offset(buffer, piece.first) = first
        /\ cursor_offset(buffer, piece.last) = first + piece.length
    BY <1>1, <1>3, <1>4, CursorRoundTrip
  <1> QED  BY <1>1, <1>2, <1>3, <1>5 DEF buffer

(* A part of a piece is a piece. *)
LEMMA PieceRangeGood ==
  ASSUME NEW buffers, BuffersOK(buffers), NEW piece \in Piece, PieceOK(buffers, piece),
         NEW i \in Nat, NEW j \in Nat, i <= j, j <= piece.length
  PROVE  LET part == piece_range(buffers, piece, i, j)
         IN  /\ part \in Piece
             /\ part.length = j - i
             /\ PieceOK(buffers, part)
  <1> DEFINE buffer == buffer_at(buffers, piece.index)
             base == cursor_offset(buffer, piece.first)
  <1>1. /\ Len(buffer.text) \in Nat /\ base \in Nat /\ piece.length \in Nat
        /\ base + piece.length <= Len(buffer.text)
    BY PieceRangeOf
  <1>2. piece.index \in 0..Len(buffers.orig)
    BY DEF PieceOK
  <1>3. piece_range(buffers, piece, i, j) = PieceOf(buffers, piece.index, base + i, base + j)
    BY DEF piece_range
  <1> HIDE DEF base
  <1>4. /\ base + i \in Nat /\ base + j \in Nat /\ base + i <= base + j
        /\ base + j <= Len(buffer.text)
        /\ (base + j) - (base + i) = j - i
    BY <1>1
  <1> HIDE DEF buffer
  <1> QED  BY <1>2, <1>3, <1>4, PieceOfGood DEF buffer

-----------------------------------------------------------------------------
(* Appending to the modification buffer *)

LEMMA AppendKeepsPiece ==
  ASSUME NEW buffers, BuffersOK(buffers), NEW text \in Text,
         NEW piece \in Piece, PieceOK(buffers, piece)
  PROVE  LET now == AppendText(buffers, text)
         IN  /\ PieceOK(now, piece)
             /\ cursor_offset(buffer_at(now, piece.index), piece.first)
                  = cursor_offset(buffer_at(buffers, piece.index), piece.first)
  <1> DEFINE now == AppendText(buffers, text)
             old_buffer == buffer_at(buffers, piece.index)
             new_buffer == buffer_at(now, piece.index)
             base == cursor_offset(old_buffer, piece.first)
  <1>1. /\ WellFormed(old_buffer) /\ Len(old_buffer.text) \in Nat
        /\ base \in Nat /\ piece.length \in Nat
        /\ base + piece.length <= Len(old_buffer.text)
        /\ piece = PieceOf(buffers, piece.index, base, base + piece.length)
    BY PieceRangeOf
  <1>2. /\ now.orig = buffers.orig /\ now.mod = Extend(buffers.mod, text)
        /\ new_buffer = IF piece.index = ModBuf THEN Extend(old_buffer, text) ELSE old_buffer
    BY DEF AppendText, BuffersOK, BufferCollection, buffer_at
  <1> HIDE DEF base
  <1>3. base \in 0..Len(old_buffer.text) /\ base + piece.length \in 0..Len(old_buffer.text)
    BY <1>1
  <1> HIDE DEF now, old_buffer, new_buffer
  <1>4. /\ WellFormed(new_buffer)
        /\ Len(new_buffer.text) \in Nat
        /\ Len(old_buffer.text) <= Len(new_buffer.text)
        /\ \A offset \in 0..Len(old_buffer.text) :
              /\ line_start_index(new_buffer, offset) = line_start_index(old_buffer, offset)
              /\ cursor_from_offset(new_buffer, offset) = cursor_from_offset(old_buffer, offset)
    <2>1. CASE piece.index = ModBuf
      BY <2>1, <1>1, <1>2, ExtendWellFormed, ExtendKeepsCursors
    <2>2. CASE piece.index # ModBuf
      BY <2>2, <1>1, <1>2
    <2> QED  BY <2>1, <2>2
  <1>5. PieceOf(now, piece.index, base, base + piece.length)
          = PieceOf(buffers, piece.index, base, base + piece.length)
    BY <1>3, <1>4 DEF PieceOf, lf_count_in_range, old_buffer, new_buffer
  <1>6. /\ base \in 0..Len(new_buffer.text)
        /\ base + piece.length <= Len(new_buffer.text)
    BY <1>1, <1>3, <1>4
  <1>7. PieceOK(now, piece)
    BY <1>1, <1>2, <1>5, <1>6 DEF PieceOK, new_buffer
  <1>8. cursor_offset(new_buffer, piece.first) = base
    <2>1. piece.first = cursor_from_offset(old_buffer, base)
      BY <1>1 DEF PieceOf, old_buffer
    <2>2. piece.first = cursor_from_offset(new_buffer, base)
      BY <2>1, <1>3, <1>4
    <2> QED  BY <2>2, <1>1, <1>4, CursorRoundTrip
  <1> QED  BY <1>7, <1>8 DEF now, base, old_buffer, new_buffer

LEMMA AppendKeepsBuffers ==
  ASSUME NEW buffers, BuffersOK(buffers), NEW text \in Text
  PROVE  BuffersOK(AppendText(buffers, text))
  <1>1. WellFormed(Extend(buffers.mod, text)) /\ Extend(buffers.mod, text) \in CharBuffer
    BY ExtendWellFormed DEF BuffersOK, WellFormed
  <1> QED  BY <1>1 DEF BuffersOK, BufferCollection, AppendText

LEMMA AppendKeepsGood ==
  ASSUME NEW buffers, BuffersOK(buffers), NEW text \in Text,
         NEW root, GoodRoot(buffers, root)
  PROVE  GoodRoot(AppendText(buffers, text), root)
  BY AppendKeepsPiece DEF GoodRoot, TiledShape, Shape, PiecesOK

LEMMA BuildPieceGood ==
  ASSUME NEW buffers, BuffersOK(buffers), NEW text \in Text, text # << >>
  PROVE  LET now == AppendText(buffers, text)
             piece == build_piece(buffers, text)
         IN  /\ GoodPiece(now, piece)
             /\ piece.length = Len(text)
             /\ piece.index = ModBuf
  <1> DEFINE now == AppendText(buffers, text)
             piece == build_piece(buffers, text)
             size == Len(buffers.mod.text)
  <1>1. /\ BuffersOK(now)
        /\ now.mod = Extend(buffers.mod, text)
        /\ buffer_at(now, ModBuf) = now.mod
    BY AppendKeepsBuffers DEF AppendText, BuffersOK, BufferCollection, buffer_at
  <1>2. /\ size \in Nat /\ Len(text) \in Nat /\ Len(text) > 0
        /\ Len(now.mod.text) = size + Len(text)
        /\ WellFormed(buffers.mod)
    <2>1. WellFormed(buffers.mod)
      BY DEF BuffersOK
    <2>2. Len(text) \in Nat /\ Len(text) > 0
      BY EmptySeq DEF Text
    <2> HIDE DEF now
    <2> QED  BY <1>1, <2>1, <2>2, ExtendWellFormed
  <1>3. piece.newline_count = lf_count_in_range(now.mod, size, size + Len(text))
    BY <1>1, <1>2, ExtendCountsLineFeeds DEF build_piece
  <1>4. (size + Len(text)) - size = Len(text)
    BY <1>2
  <1>5. piece = PieceOf(now, ModBuf, size, size + Len(text))
    BY <1>1, <1>3, <1>4 DEF build_piece, PieceOf
  <1>6. ModBuf \in 0..Len(now.orig)
    BY <1>1 DEF BuffersOK, BufferCollection, ModBuf
  <1>7. piece.index = ModBuf
    BY DEF build_piece
  <1> HIDE DEF piece, now, size
  <1> QED  BY <1>1, <1>2, <1>4, <1>5, <1>6, <1>7, PieceOfGood DEF GoodPiece, piece, now

-----------------------------------------------------------------------------
(* Tree::internal_insert *)

(* Two pieces that meet in the modification buffer are one piece. *)
LEMMA CombinedGood ==
  ASSUME NEW buffers, BuffersOK(buffers),
         NEW left, GoodPiece(buffers, left), left.index = ModBuf,
         NEW right, GoodPiece(buffers, right), right.index = ModBuf,
         left.last = right.first
  PROVE  LET combined == Combined(left, right)
         IN  /\ GoodPiece(buffers, combined)
             /\ combined.length = left.length + right.length
  <1> DEFINE combined == Combined(left, right)
             buffer == buffer_at(buffers, ModBuf)
             i == cursor_offset(buffer, left.first)
             j == cursor_offset(buffer, right.first)
             k == j + right.length
             Line(n) == line_start_index(buffer, n)
  <1>1. /\ left \in Piece /\ PieceOK(buffers, left) /\ left.length > 0
        /\ right \in Piece /\ PieceOK(buffers, right) /\ right.length > 0
    BY DEF GoodPiece
  <1>2. /\ WellFormed(buffer) /\ Len(buffer.text) \in Nat
        /\ i \in Nat /\ j \in Nat /\ left.length \in Nat /\ right.length \in Nat
        /\ k <= Len(buffer.text)
        /\ left = PieceOf(buffers, ModBuf, i, i + left.length)
        /\ right = PieceOf(buffers, ModBuf, j, k)
        /\ cursor_offset(buffer, left.last) = i + left.length
    BY <1>1, PieceRangeOf
  <1>3. j = i + left.length
    BY <1>2
  <1> HIDE DEF i, j
  <1>4. i \in Nat /\ j \in Nat /\ k \in Nat /\ i <= k /\ k - i = left.length + right.length
    BY <1>2, <1>3
  <1>5. Line(i) \in Int /\ Line(j) \in Int /\ Line(k) \in Int
    <2>1. ASSUME NEW n \in Nat PROVE Line(n) \in Int
      <3> HIDE DEF buffer
      <3>1. PICK start \in Nat : LastStart(buffer, n, start)
        BY <1>2, LastStartExists
      <3> QED  BY <3>1, <1>2, LineIndex
    <2> HIDE DEF Line, k
    <2> QED  BY <2>1, <1>4
  <1> HIDE DEF buffer
  <1>6. /\ left.first = cursor_from_offset(buffer, i)
        /\ left.newline_count = Line(j) - Line(i)
        /\ right.last = cursor_from_offset(buffer, k)
        /\ right.newline_count = Line(k) - Line(j)
    BY <1>2, <1>3 DEF PieceOf, lf_count_in_range, buffer
  <1> HIDE DEF k
  <1>7. left.newline_count + right.newline_count = Line(k) - Line(i)
    BY <1>5, <1>6
  <1>8. combined = [index |-> ModBuf, first |-> left.first, last |-> right.last,
                    length |-> left.length + right.length,
                    newline_count |-> left.newline_count + right.newline_count]
    BY <1>1 DEF Piece, Combined
  <1>9. combined = PieceOf(buffers, ModBuf, i, k)
    BY <1>4, <1>6, <1>7, <1>8 DEF PieceOf, lf_count_in_range, buffer
  <1>10. ModBuf \in 0..Len(buffers.orig)
    BY <1>1 DEF PieceOK
  <1>11. combined.length = left.length + right.length
    BY <1>8
  <1>12. k <= Len(buffer_at(buffers, ModBuf).text)
    BY <1>2 DEF k, buffer
  <1> HIDE DEF combined, Line
  <1>13. combined \in Piece /\ PieceOK(buffers, combined)
    BY <1>4, <1>9, <1>10, <1>12, PieceOfGood
  <1>14. combined.length > 0
    BY <1>1, <1>2, <1>11
  <1> QED  BY <1>11, <1>13, <1>14 DEF GoodPiece, combined

LEMMA CoalesceGood ==
  ASSUME NEW buffers, BuffersOK(buffers), NEW root, GoodRoot(buffers, root),
         NEW piece, GoodPiece(buffers, piece), piece.index = ModBuf,
         NEW insert_at \in Nat, insert_at <= root.length,
         Continues(root, piece, insert_at)
  PROVE  LET new == Coalesce(root, piece, insert_at)
         IN  GoodRoot(buffers, new) /\ new.length = root.length + piece.length
  <1> DEFINE previous == find_node(root, insert_at - 1)
             start == previous.start_offset
             combined == Combined(previous.piece, piece)
             removed == RemovePiece(root, start)
  <1>1. /\ root.length \in Nat /\ insert_at - 1 \in Nat /\ insert_at - 1 < root.length
        /\ TiledShape(root)
    BY DEF GoodRoot, TiledShape, Shape, Continues
  <1>2. start \in Starts(root) /\ previous.piece = root.pieces[start]
    BY <1>1, FindNode
  <1>3. GoodPiece(buffers, previous.piece)
    BY <1>2 DEF GoodRoot, TiledShape, Shape, Tiled, PiecesOK, GoodPiece
  <1>4. previous.piece.index = ModBuf /\ previous.piece.last = piece.first
    BY DEF Continues
  <1> HIDE DEF previous
  <1>5. /\ GoodPiece(buffers, combined)
        /\ combined.length = previous.piece.length + piece.length
    BY <1>3, <1>4, CombinedGood
  <1>6. /\ GoodRoot(buffers, removed) /\ start \in Nat /\ Boundary(removed, start)
        /\ removed.length = root.length - previous.piece.length
    BY <1>2, RemoveKeepsGood
  <1>7. Coalesce(root, piece, insert_at) = InsertPiece(removed, combined, start)
    BY DEF Coalesce, previous
  <1>8. previous.piece.length \in Nat /\ piece.length \in Nat
    BY <1>3 DEF GoodPiece, Piece
  <1> HIDE DEF combined, removed, start
  <1>9. /\ GoodRoot(buffers, InsertPiece(removed, combined, start))
        /\ InsertPiece(removed, combined, start).length = removed.length + combined.length
    BY <1>5, <1>6, InsertKeepsGood
  <1> QED  BY <1>1, <1>5, <1>6, <1>7, <1>8, <1>9

LEMMA SplitAroundGood ==
  ASSUME NEW buffers, BuffersOK(buffers), NEW root, GoodRoot(buffers, root),
         NEW piece, GoodPiece(buffers, piece),
         NEW insert_at \in Nat, insert_at < root.length,
         find_node(root, insert_at).remainder # 0
  PROVE  LET new == SplitAround(buffers, root, piece, insert_at)
         IN  GoodRoot(buffers, new) /\ new.length = root.length + piece.length
  <1> DEFINE position == find_node(root, insert_at)
             start == position.start_offset
             left == piece_range(buffers, position.piece, 0, position.remainder)
             right == piece_range(buffers, position.piece,
                                  position.remainder, position.piece.length)
             removed == RemovePiece(root, start)
             withLeft == InsertPiece(removed, left, start)
             withNew == InsertPiece(withLeft, piece, start + left.length)
             new == InsertPiece(withNew, right, start + left.length + piece.length)
  <1>1. /\ start \in Starts(root) /\ position.piece = root.pieces[start]
        /\ position.remainder \in Nat /\ position.remainder < position.piece.length
    BY FindNode DEF GoodRoot
  <1>2. GoodPiece(buffers, position.piece) /\ piece.length \in Nat /\ root.length \in Nat
    BY <1>1 DEF GoodRoot, TiledShape, Shape, Tiled, PiecesOK, GoodPiece, Piece
  <1>3. SplitAround(buffers, root, piece, insert_at) = new
    BY DEF SplitAround
  <1>4. position.remainder > 0
    BY <1>1
  <1> HIDE DEF position
  <1>5. position.piece \in Piece /\ position.piece.length \in Nat /\ PieceOK(buffers, position.piece)
    BY <1>2 DEF GoodPiece, Piece
  <1>6. /\ left \in Piece /\ PieceOK(buffers, left)
        /\ left.length = position.remainder - 0
    BY <1>1, <1>5, PieceRangeGood
  <1>7. /\ right \in Piece /\ PieceOK(buffers, right)
        /\ right.length = position.piece.length - position.remainder
    BY <1>1, <1>5, PieceRangeGood
  <1> HIDE DEF left, right
  <1>8. /\ GoodPiece(buffers, left) /\ GoodPiece(buffers, right)
        /\ left.length \in Nat /\ right.length \in Nat
        /\ left.length + right.length = position.piece.length
    BY <1>1, <1>4, <1>5, <1>6, <1>7 DEF GoodPiece
  <1>9. /\ GoodRoot(buffers, removed) /\ start \in Nat /\ Boundary(removed, start)
        /\ removed.length = root.length - position.piece.length
    BY <1>1, RemoveKeepsGood
  <1> HIDE DEF start, removed
  <1>10. /\ GoodRoot(buffers, withLeft) /\ Boundary(withLeft, start + left.length)
         /\ withLeft.length = removed.length + left.length
    BY <1>8, <1>9, InsertKeepsGood
  <1> HIDE DEF withLeft
  <1>11. /\ GoodRoot(buffers, withNew)
         /\ Boundary(withNew, start + left.length + piece.length)
         /\ withNew.length = withLeft.length + piece.length
    BY <1>8, <1>9, <1>10, InsertKeepsGood
  <1> HIDE DEF withNew
  <1>12. GoodRoot(buffers, new) /\ new.length = withNew.length + right.length
    <2> DEFINE at == start + left.length + piece.length
    <2>1. at \in Nat
      BY <1>2, <1>8, <1>9
    <2>2. Boundary(withNew, at)
      BY <1>11
    <2> HIDE DEF at
    <2>3. /\ GoodRoot(buffers, InsertPiece(withNew, right, at))
          /\ InsertPiece(withNew, right, at).length = withNew.length + right.length
      BY <1>8, <1>11, <2>1, <2>2, InsertKeepsGood
    <2> QED  BY <2>3 DEF at
  <1> QED  BY <1>2, <1>3, <1>5, <1>8, <1>9, <1>10, <1>11, <1>12

(* Wherever a piece is inserted, the pieces go on to tile the document,   *)
(* which is longer by that piece.                                         *)
LEMMA InternalInsertGood ==
  ASSUME NEW buffers, BuffersOK(buffers), NEW root, GoodRoot(buffers, root),
         NEW piece, GoodPiece(buffers, piece), piece.index = ModBuf,
         NEW insert_at \in Nat, insert_at <= root.length
  PROVE  LET new == internal_insert(buffers, root, piece, insert_at)
         IN  GoodRoot(buffers, new) /\ new.length = root.length + piece.length
  <1>1. CASE Continues(root, piece, insert_at)
    BY <1>1, CoalesceGood DEF internal_insert
  <1>2. CASE /\ ~Continues(root, piece, insert_at)
             /\ insert_at = root.length \/ find_node(root, insert_at).remainder = 0
    <2>1. Boundary(root, insert_at)
      <3>1. CASE insert_at = root.length
        BY <3>1 DEF Boundary
      <3>2. CASE insert_at # root.length
        <4>1. insert_at < root.length /\ TiledShape(root) /\ Starts(root) \subseteq Nat
          BY <3>2 DEF GoodRoot, TiledShape, Shape
        <4>2. insert_at = find_node(root, insert_at).start_offset
          BY <1>2, <3>2, <4>1, FindNode
        <4> QED  BY <4>1, <4>2, FindNode DEF Boundary
      <3> QED  BY <3>1, <3>2
    <2> QED  BY <1>2, <2>1, InsertKeepsGood DEF internal_insert
  <1>3. CASE /\ ~Continues(root, piece, insert_at)
             /\ ~(insert_at = root.length \/ find_node(root, insert_at).remainder = 0)
    <2>1. insert_at < root.length
      BY <1>3 DEF GoodRoot, TiledShape, Shape
    <2> QED  BY <1>3, <2>1, SplitAroundGood DEF internal_insert
  <1> QED  BY <1>1, <1>2, <1>3

-----------------------------------------------------------------------------
(* Tree::internal_remove *)

(* One turn takes at least one character and at most what remains. *)
LEMMA RemoveTurnGood ==
  ASSUME NEW buffers, BuffersOK(buffers), NEW root, GoodRoot(buffers, root),
         NEW offset \in Nat, NEW remaining \in Nat, remaining > 0,
         offset + remaining <= root.length
  PROVE  LET turn == RemoveTurn(buffers, root, offset, remaining)
         IN  /\ GoodRoot(buffers, turn.root)
             /\ turn.remaining \in Nat
             /\ turn.remaining < remaining
             /\ turn.root.length - turn.remaining = root.length - remaining
  <1> DEFINE position == find_node(root, offset)
             start == position.start_offset
             piece == position.piece
             first == position.remainder
             available == piece.length - first
             remove_now == IF remaining < available THEN remaining ELSE available
             left == piece_range(buffers, piece, 0, first)
             right == piece_range(buffers, piece, first + remove_now, piece.length)
             removed == RemovePiece(root, start)
             withLeft == PutBack(removed, left, start)
             withRight == PutBack(withLeft, right, start + left.length)
             turn == RemoveTurn(buffers, root, offset, remaining)
  <1>1. offset < root.length /\ root.length \in Nat
    BY DEF GoodRoot, TiledShape, Shape
  <1>2. /\ start \in Starts(root) /\ piece = root.pieces[start]
        /\ first \in Nat /\ first < piece.length
    BY <1>1, FindNode DEF GoodRoot
  <1>3. piece \in Piece /\ piece.length \in Nat /\ PieceOK(buffers, piece)
    BY <1>2 DEF GoodRoot, TiledShape, Shape, PiecesOK, Piece
  <1>4. turn.root = withRight /\ turn.remaining = remaining - remove_now
    BY DEF RemoveTurn
  <1> HIDE DEF position, turn
  <1>5. /\ remove_now \in Nat /\ remove_now > 0 /\ remove_now <= remaining
        /\ first + remove_now \in Nat /\ first + remove_now <= piece.length
    BY <1>2, <1>3
  <1> HIDE DEF remove_now
  <1>6. /\ left \in Piece /\ PieceOK(buffers, left) /\ left.length = first - 0
    BY <1>2, <1>3, PieceRangeGood
  <1>7. /\ right \in Piece /\ PieceOK(buffers, right)
        /\ right.length = piece.length - (first + remove_now)
    BY <1>3, <1>5, PieceRangeGood
  <1> HIDE DEF left, right
  <1>8. /\ left.length \in Nat /\ right.length \in Nat
        /\ left.length + right.length = piece.length - remove_now
        /\ left.length # 0 => GoodPiece(buffers, left)
        /\ right.length # 0 => GoodPiece(buffers, right)
    BY <1>2, <1>3, <1>5, <1>6, <1>7 DEF GoodPiece
  <1>9. /\ GoodRoot(buffers, removed) /\ start \in Nat /\ Boundary(removed, start)
        /\ removed.length = root.length - piece.length
    BY <1>2, RemoveKeepsGood
  <1> HIDE DEF start, removed
  <1>10. /\ GoodRoot(buffers, withLeft) /\ Boundary(withLeft, start + left.length)
         /\ withLeft.length = removed.length + left.length
    <2>1. CASE left.length # 0
      BY <2>1, <1>8, <1>9, InsertKeepsGood DEF PutBack
    <2>2. CASE left.length = 0
      BY <2>2, <1>9 DEF PutBack, GoodRoot, TiledShape, Shape
    <2> QED  BY <2>1, <2>2
  <1> HIDE DEF withLeft
  <1>11. /\ GoodRoot(buffers, withRight)
         /\ withRight.length = withLeft.length + right.length
    <2>1. CASE right.length # 0
      BY <2>1, <1>8, <1>9, <1>10, InsertKeepsGood DEF PutBack
    <2>2. CASE right.length = 0
      BY <2>2, <1>10 DEF PutBack, GoodRoot, TiledShape, Shape
    <2> QED  BY <2>1, <2>2
  <1> HIDE DEF withRight
  <1>12. withRight.length = root.length - remove_now
    <2>1. removed.length \in Int /\ withLeft.length \in Int
      BY <1>9, <1>10 DEF GoodRoot, TiledShape, Shape
    <2>2. piece.length \in Int /\ left.length \in Int /\ right.length \in Int
      BY <1>3, <1>8
    <2> HIDE DEF piece
    <2>3. withRight.length = ((root.length - piece.length) + left.length) + right.length
      BY <1>9, <1>10, <1>11
    <2>4. left.length + right.length = piece.length - remove_now
      BY <1>8 DEF piece
    <2> QED  BY <2>2, <2>3, <2>4, <1>1, <1>5
  <1>13. withRight.length - (remaining - remove_now) = root.length - remaining
    BY <1>1, <1>5, <1>12
  <1> QED  BY <1>4, <1>5, <1>11, <1>13 DEF turn

(* A state of the loop and the state after its next turn. *)
NextTurn(buffers, offset, now) ==
    IF now.remaining > 0
    THEN RemoveTurn(buffers, now.root, offset, now.remaining)
    ELSE now

Turns(buffers, root, offset, count, loop, n) ==
    loop = [k \in 0..n |-> IF k = 0 THEN [root |-> root, remaining |-> count]
                           ELSE NextTurn(buffers, offset, loop[k - 1])]

LEMMA TurnsExist ==
  ASSUME NEW buffers, NEW root, NEW offset, NEW count, NEW n \in Nat
  PROVE  \E loop : Turns(buffers, root, offset, count, loop, n)
  <1> DEFINE T(loop, m) == Turns(buffers, root, offset, count, loop, m)
             S == {m \in Nat : \E loop : T(loop, m)}
             start == [root |-> root, remaining |-> count]
  <1>1. 0 \in S
    <2> DEFINE one == [k \in 0..0 |-> start]
    <2>1. T(one, 0)
      BY DEF Turns
    <2> QED  BY <2>1
  <1>2. ASSUME NEW m \in Nat, m \in S PROVE m + 1 \in S
    <2>1. PICK old : T(old, m)
      BY <1>2
    <2>2. \A k \in 0..m : old[k] = IF k = 0 THEN start ELSE NextTurn(buffers, offset, old[k - 1])
      BY <2>1, Zenon DEF Turns
    <2> DEFINE new == [k \in 0..(m + 1) |->
                         IF k = m + 1 THEN NextTurn(buffers, offset, old[m]) ELSE old[k]]
    <2>3. ASSUME NEW k \in 0..(m + 1)
          PROVE  new[k] = IF k = 0 THEN start ELSE NextTurn(buffers, offset, new[k - 1])
      <3>1. CASE k = m + 1
        <4>1. new[k] = NextTurn(buffers, offset, old[m]) /\ new[k - 1] = old[m] /\ k # 0
          BY <3>1
        <4> QED  BY <4>1
      <3>2. CASE k # m + 1
        <4>1. k \in 0..m /\ new[k] = old[k]
          BY <3>2
        <4>2. k # 0 => new[k - 1] = old[k - 1]
          BY <4>1
        <4> HIDE DEF new, start
        <4> QED  BY <4>1, <4>2, <2>2
      <3> QED  BY <3>1, <3>2
    <2>4. new = [k \in 0..(m + 1) |-> new[k]]
      OBVIOUS
    <2> HIDE DEF new
    <2>5. T(new, m + 1)
      BY <2>3, <2>4 DEF Turns
    <2> QED  BY <2>5
  <1> HIDE DEF S
  <1>3. Nat \subseteq S
    BY <1>1, <1>2, SetInduction
  <1> QED  BY <1>3 DEF S

LEMMA RemoveLoopTurns ==
  ASSUME NEW buffers, NEW root, NEW offset, NEW count \in Nat
  PROVE  LET loop == RemoveLoop(buffers, root, offset, count)
         IN  /\ loop[0] = [root |-> root, remaining |-> count]
             /\ \A k \in 1..count : loop[k] = NextTurn(buffers, offset, loop[k - 1])
  <1> DEFINE loop == RemoveLoop(buffers, root, offset, count)
  <1>1. loop = CHOOSE f : Turns(buffers, root, offset, count, f, count)
    BY DEF RemoveLoop, Turns, NextTurn
  <1>2. Turns(buffers, root, offset, count, loop, count)
    BY <1>1, TurnsExist
  <1> HIDE DEF loop
  <1> QED  BY <1>2 DEF Turns, loop

(* Removing count characters leaves a tiled document shorter by count.    *)
LEMMA InternalRemoveGood ==
  ASSUME NEW buffers, BuffersOK(buffers), NEW root, GoodRoot(buffers, root),
         NEW offset \in Nat, NEW count \in Nat, offset + count <= root.length
  PROVE  LET new == internal_remove(buffers, root, offset, count)
         IN  GoodRoot(buffers, new) /\ new.length = root.length - count
  <1> DEFINE loop == RemoveLoop(buffers, root, offset, count)
             Inv(k) == /\ GoodRoot(buffers, loop[k].root)
                       /\ loop[k].remaining \in Nat
                       /\ loop[k].remaining <= count - k
                       /\ loop[k].root.length - loop[k].remaining = root.length - count
             S == {k \in Nat : k <= count => Inv(k)}
  <1>1. root.length \in Nat
    BY DEF GoodRoot, TiledShape, Shape
  <1>2. /\ loop[0] = [root |-> root, remaining |-> count]
        /\ \A k \in 1..count : loop[k] = NextTurn(buffers, offset, loop[k - 1])
    BY RemoveLoopTurns
  <1> HIDE DEF loop
  <1>3. 0 \in S
    BY <1>1, <1>2
  <1>4. ASSUME NEW k \in Nat, k \in S PROVE k + 1 \in S
    <2> SUFFICES ASSUME k + 1 <= count PROVE Inv(k + 1)
      OBVIOUS
    <2> DEFINE now == loop[k]
               next == loop[k + 1]
    <2>1. /\ GoodRoot(buffers, now.root)
          /\ now.remaining \in Nat
          /\ now.remaining <= count - k
          /\ now.root.length - now.remaining = root.length - count
      BY <1>4
    <2>2. next = NextTurn(buffers, offset, now)
      BY <1>2
    <2>3. now.root.length \in Nat
      BY <2>1 DEF GoodRoot, TiledShape, Shape
    <2> HIDE DEF now, next
    <2>4. CASE now.remaining > 0
      <3>1. offset + now.remaining <= now.root.length
        BY <2>1, <2>3, <1>1
      <3>2. /\ GoodRoot(buffers, next.root) /\ next.remaining \in Nat
            /\ next.remaining < now.remaining
            /\ next.root.length - next.remaining = now.root.length - now.remaining
        BY <2>1, <2>2, <2>4, <3>1, RemoveTurnGood DEF NextTurn
      <3> QED  BY <3>2, <2>1 DEF next
    <2>5. CASE now.remaining = 0
      <3>1. next = now
        BY <2>2, <2>5 DEF NextTurn
      <3> QED  BY <3>1, <2>1, <2>5 DEF next
    <2> QED  BY <2>1, <2>4, <2>5
  <1> HIDE DEF S
  <1>5. Nat \subseteq S
    BY <1>3, <1>4, SetInduction
  <1>6. Inv(count)
    BY <1>5 DEF S
  <1>7. loop[count].remaining = 0 /\ loop[count].root.length \in Nat
    BY <1>6 DEF GoodRoot, TiledShape, Shape
  <1>8. internal_remove(buffers, root, offset, count) = loop[count].root
    BY DEF internal_remove, loop
  <1> QED  BY <1>1, <1>6, <1>7, <1>8

-----------------------------------------------------------------------------
(* Tree::char_at *)

(* What a root reads does not change when the modification buffer grows.  *)
LEMMA AppendKeepsText ==
  ASSUME NEW buffers, BuffersOK(buffers), NEW text \in Text,
         NEW root, GoodRoot(buffers, root)
  PROVE  TextOf(AppendText(buffers, text), root) = TextOf(buffers, root)
  <1> DEFINE now == AppendText(buffers, text)
  <1>1. root.length \in Nat
    BY DEF GoodRoot, TiledShape, Shape
  <1>2. ASSUME NEW k \in 1..root.length
        PROVE  char_at_tree(now, root, k - 1) = char_at_tree(buffers, root, k - 1)
    <2> DEFINE position == find_node(root, k - 1)
               piece == position.piece
               old_buffer == buffer_at(buffers, piece.index)
               new_buffer == buffer_at(now, piece.index)
               base == cursor_offset(old_buffer, piece.first)
    <2>1. /\ position.start_offset \in Starts(root)
          /\ piece = root.pieces[position.start_offset]
          /\ position.remainder \in Nat /\ position.remainder < piece.length
      BY <1>1, FindNode DEF GoodRoot
    <2>2. piece \in Piece /\ PieceOK(buffers, piece)
      BY <2>1 DEF GoodRoot, TiledShape, Shape, PiecesOK
    <2>3. cursor_offset(new_buffer, piece.first) = base
      BY <2>2, AppendKeepsPiece
    <2>4. /\ Len(old_buffer.text) \in Nat /\ base \in Nat /\ piece.length \in Nat
          /\ base + piece.length <= Len(old_buffer.text)
      BY <2>2, PieceRangeOf
    <2>5. new_buffer = IF piece.index = ModBuf THEN Extend(old_buffer, text) ELSE old_buffer
      BY DEF AppendText, BuffersOK, BufferCollection, buffer_at
    <2>6. WellFormed(old_buffer)
      BY <2>2, PieceRangeOf
    <2> HIDE DEF base, old_buffer, new_buffer, now, position
    <2>7. base + position.remainder + 1 \in 1..Len(old_buffer.text)
      BY <2>1, <2>4, SMTT(30)
    <2>8. new_buffer.text[base + position.remainder + 1]
            = old_buffer.text[base + position.remainder + 1]
      <3>1. CASE piece.index = ModBuf
        BY <3>1, <2>5, <2>6, <2>7, ExtendWellFormed
      <3>2. CASE piece.index # ModBuf
        BY <3>2, <2>5
      <3> QED  BY <3>1, <3>2
    <2>9. /\ char_at_tree(now, root, k - 1)
               = new_buffer.text[cursor_offset(new_buffer, piece.first) + position.remainder + 1]
          /\ char_at_tree(buffers, root, k - 1)
               = old_buffer.text[base + position.remainder + 1]
      BY DEF char_at_tree, position, old_buffer, new_buffer, base
    <2> QED  BY <2>3, <2>8, <2>9
  <1> HIDE DEF now
  <1> QED  BY <1>2 DEF TextOf, now

-----------------------------------------------------------------------------
(* A further immutable buffer *)

AddBuffer(buffers, text) == [buffers EXCEPT !.orig = Append(@, NewBuffer(text))]

LEMMA NewBufferWellFormed ==
  ASSUME NEW text \in Text
  PROVE  WellFormed(NewBuffer(text))
  <1>1. Len(text) \in Nat
    BY DEF Text
  <1>2. calculate_line_starts(text) \subseteq Nat
    BY <1>1 DEF calculate_line_starts
  <1> QED  BY <1>2 DEF WellFormed, NewBuffer, CharBuffer

LEMMA AddKeepsBuffers ==
  ASSUME NEW buffers, BuffersOK(buffers), NEW text \in Text
  PROVE  LET now == AddBuffer(buffers, text)
             size == Len(buffers.orig)
         IN  /\ BuffersOK(now)
             /\ size \in Nat
             /\ Len(now.orig) = size + 1
             /\ buffer_at(now, size + 1) = NewBuffer(text)
             /\ now.orig[size + 1] = NewBuffer(text)
             /\ \A index \in 0..size : buffer_at(now, index) = buffer_at(buffers, index)
  <1> DEFINE now == AddBuffer(buffers, text)
             size == Len(buffers.orig)
             buffer == NewBuffer(text)
  <1>1. /\ buffers.orig \in Seq(CharBuffer) /\ buffers.mod \in CharBuffer
        /\ size \in Nat
    BY DEF BuffersOK, BufferCollection
  <1>2. WellFormed(buffer) /\ buffer \in CharBuffer
    BY NewBufferWellFormed DEF WellFormed
  <1>3. now.orig = Append(buffers.orig, buffer) /\ now.mod = buffers.mod
        /\ now = [orig |-> now.orig, mod |-> now.mod]
    <2>1. buffers = [orig |-> buffers.orig, mod |-> buffers.mod]
      BY DEF BuffersOK, BufferCollection
    <2> DEFINE orig == Append(buffers.orig, buffer)
    <2>2. now = [buffers EXCEPT !.orig = orig]
      BY DEF AddBuffer
    <2> HIDE DEF now, buffer, orig
    <2>3. now = [orig |-> orig, mod |-> buffers.mod]
      BY <2>1, <2>2
    <2> QED  BY <2>3 DEF orig
  <1> HIDE DEF now, buffer
  <1>4. /\ now.orig \in Seq(CharBuffer)
        /\ Len(now.orig) = size + 1
        /\ now.orig[size + 1] = buffer
        /\ \A i \in 1..size : now.orig[i] = buffers.orig[i]
    BY <1>1, <1>2, <1>3
  <1>5. now \in BufferCollection
    BY <1>1, <1>3, <1>4 DEF BufferCollection
  <1>6. \A i \in 1..(size + 1) : WellFormed(now.orig[i])
    BY <1>1, <1>2, <1>4 DEF BuffersOK
  <1>7. BuffersOK(now)
    BY <1>3, <1>4, <1>5, <1>6 DEF BuffersOK
  <1> QED  BY <1>1, <1>3, <1>4, <1>7 DEF buffer_at, ModBuf, now, buffer

LEMMA AddKeepsGood ==
  ASSUME NEW buffers, BuffersOK(buffers), NEW text \in Text,
         NEW root, GoodRoot(buffers, root)
  PROVE  /\ GoodRoot(AddBuffer(buffers, text), root)
         /\ TextOf(AddBuffer(buffers, text), root) = TextOf(buffers, root)
  <1> DEFINE now == AddBuffer(buffers, text)
             size == Len(buffers.orig)
  <1>1. /\ size \in Nat /\ Len(now.orig) = size + 1
        /\ \A index \in 0..size : buffer_at(now, index) = buffer_at(buffers, index)
    BY AddKeepsBuffers
  <1>2. ASSUME NEW s \in Starts(root)
        PROVE  /\ root.pieces[s].index \in 0..size
               /\ PieceOK(now, root.pieces[s])
    <2> DEFINE piece == root.pieces[s]
               buffer == buffer_at(buffers, piece.index)
    <2>1. PieceOK(buffers, piece)
      BY DEF GoodRoot, PiecesOK
    <2>2. piece.index \in 0..size
      BY <2>1 DEF PieceOK
    <2>3. PICK first \in 0..Len(buffer.text) :
             /\ first + piece.length <= Len(buffer.text)
             /\ piece = PieceOf(buffers, piece.index, first, first + piece.length)
      BY <2>1 DEF PieceOK
    <2>4. buffer_at(now, piece.index) = buffer /\ piece.index \in 0..Len(now.orig)
      BY <2>2, <1>1
    <2> HIDE DEF piece, now, size
    <2>5. PieceOf(now, piece.index, first, first + piece.length)
            = PieceOf(buffers, piece.index, first, first + piece.length)
      BY <2>4 DEF PieceOf
    <2>6. PieceOK(now, piece)
      BY <2>3, <2>4, <2>5 DEF PieceOK
    <2> QED  BY <2>2, <2>6 DEF piece
  <1>3. ASSUME NEW k \in 1..root.length
        PROVE  char_at_tree(now, root, k - 1) = char_at_tree(buffers, root, k - 1)
    <2>1. LET found == find_node(root, k - 1)
          IN  found.start_offset \in Starts(root) /\ found.piece = root.pieces[found.start_offset]
      BY FindNode DEF GoodRoot, TiledShape, Shape
    <2>2. buffer_at(now, find_node(root, k - 1).piece.index)
            = buffer_at(buffers, find_node(root, k - 1).piece.index)
      BY <2>1, <1>1, <1>2
    <2> HIDE DEF now
    <2> QED  BY <2>2 DEF char_at_tree
  <1> HIDE DEF now
  <1> QED  BY <1>2, <1>3 DEF GoodRoot, PiecesOK, TextOf, now

(* The piece of a whole buffer. *)
LEMMA WholeBufferGood ==
  ASSUME NEW buffers, BuffersOK(buffers), NEW text \in Text, text # << >>
  PROVE  LET now   == AddBuffer(buffers, text)
             index == Len(buffers.orig) + 1
             piece == [index         |-> index,
                       first         |-> [line |-> 0, column |-> 0],
                       last          |-> cursor_from_offset(now.orig[index], Len(text)),
                       length        |-> Len(text),
                       newline_count |-> Cardinality(now.orig[index].line_starts) - 1]
         IN  GoodPiece(now, piece)
  <1> DEFINE now == AddBuffer(buffers, text)
             index == Len(buffers.orig) + 1
             buffer == NewBuffer(text)
             size == Len(text)
             piece == [index         |-> index,
                       first         |-> [line |-> 0, column |-> 0],
                       last          |-> cursor_from_offset(now.orig[index], size),
                       length        |-> size,
                       newline_count |-> Cardinality(now.orig[index].line_starts) - 1]
  <1>1. /\ BuffersOK(now) /\ index \in 0..Len(now.orig)
        /\ now.orig[index] = buffer /\ buffer_at(now, index) = buffer
    BY AddKeepsBuffers
  <1>2. WellFormed(buffer) /\ buffer.text = text /\ size \in Nat /\ size > 0
    BY NewBufferWellFormed, EmptySeq DEF NewBuffer, Text
  <1> HIDE DEF now, buffer, index
  <1>3. StartsUpTo(buffer, 0) = {0} /\ StartsUpTo(buffer, size) = buffer.line_starts
    BY <1>2, StartsFinite DEF StartsUpTo
  <1>4. Cardinality(StartsUpTo(buffer, 0)) = 1
    BY <1>3, FS_Singleton
  <1>5. Cardinality(buffer.line_starts) \in Nat
    BY <1>2, StartsFinite, FS_CardinalityType
  <1>6. /\ line_start_index(buffer, 0) = 0
        /\ line_start_index(buffer, size) = Cardinality(buffer.line_starts) - 1
    <2>1. \A n : line_start_index(buffer, n) = Cardinality(StartsUpTo(buffer, n)) - 1
      BY Zenon DEF line_start_index, StartsUpTo
    <2>2. line_start_index(buffer, 0) = 1 - 1
      BY <2>1, <1>4, Zenon
    <2>3. line_start_index(buffer, size) = Cardinality(buffer.line_starts) - 1
      BY <2>1, <1>3, Zenon
    <2> QED  BY <2>2, <2>3
  <1>7. LastStart(buffer, 0, 0)
    BY <1>2, StartsFinite DEF LastStart
  <1>8. LineStart(buffer, 0) = 0
    BY <1>2, <1>6, <1>7, LineStartOfIndex
  <1>9. cursor_from_offset(buffer, 0) = [line |-> 0, column |-> 0]
    BY <1>6, <1>8 DEF cursor_from_offset
  <1>10. lf_count_in_range(buffer, 0, size) = Cardinality(buffer.line_starts) - 1
    BY <1>5, <1>6 DEF lf_count_in_range
  <1>11. size - 0 = size
    BY <1>2
  <1>12. piece = PieceOf(now, index, 0, size)
    BY <1>1, <1>9, <1>10, <1>11 DEF PieceOf
  <1> HIDE DEF piece, size
  <1>13. size <= Len(buffer_at(now, index).text)
    BY <1>1, <1>2 DEF size
  <1>14. piece \in Piece /\ PieceOK(now, piece) /\ piece.length > 0
    BY <1>1, <1>2, <1>11, <1>12, <1>13, PieceOfGood
  <1> QED  BY <1>14 DEF GoodPiece, piece, now, index, size

--------------------------------------------------------------------------------
(* Texts of roots *)

(* The characters a piece names. *)
PieceText(buffers, piece) ==
    LET buffer == buffer_at(buffers, piece.index)
    IN  [k \in 1..piece.length |-> buffer.text[cursor_offset(buffer, piece.first) + k]]

(* text with `new' put behind its first `at' characters. *)
Spliced(text, at, new) ==
    [k \in 1..(Len(text) + Len(new)) |->
        IF k <= at THEN text[k]
        ELSE IF k <= at + Len(new) THEN new[k - at]
        ELSE text[k - Len(new)]]

(* text without the `count' characters behind its first `at'. *)
Cut(text, at, count) ==
    [k \in 1..(Len(text) - count) |-> IF k <= at THEN text[k] ELSE text[k + count]]

IsSpliced(all, text, at, new) ==
    /\ Len(all) = Len(text) + Len(new)
    /\ \A k \in 1..(Len(text) + Len(new)) :
          all[k] = IF k <= at THEN text[k]
                   ELSE IF k <= at + Len(new) THEN new[k - at]
                   ELSE text[k - Len(new)]

IsCut(rest, text, at, count) ==
    /\ Len(rest) = Len(text) - count
    /\ \A k \in 1..(Len(text) - count) :
          rest[k] = IF k <= at THEN text[k] ELSE text[k + count]

(* part is what text has behind its first `at' characters. *)
PartAt(text, at, part) ==
    /\ at + Len(part) <= Len(text)
    /\ \A k \in 1..Len(part) : text[at + k] = part[k]

(* left and right are what part has around the `count' characters behind  *)
(* its first `r'.                                                         *)
Around(part, left, right, r, count) ==
    /\ r \in Nat /\ count \in Nat /\ r + count <= Len(part)
    /\ Len(left) = r /\ Len(right) = Len(part) - (r + count)
    /\ PartAt(part, 0, left) /\ PartAt(part, r + count, right)

Feeds(text) == Cardinality({k \in 1..Len(text) : text[k] = LF})

(* A good root that stands for this text and counts its line feeds. *)
Reads(buffers, root, text) ==
    /\ GoodRoot(buffers, root)
    /\ TextOf(buffers, root) = text
    /\ root.lf_count = Feeds(text)

-----------------------------------------------------------------------------
(* Sequences given by their elements *)

LEMMA SeqOf ==
  ASSUME NEW S, NEW n \in Nat, NEW f, f \in [1..n -> S]
  PROVE  f \in Seq(S) /\ Len(f) = n /\ \A k \in 1..n : f[k] \in S
  OBVIOUS

LEMMA SplicedText ==
  ASSUME NEW text \in Seq(Char), NEW new \in Seq(Char), NEW at \in 0..Len(text)
  PROVE  /\ Spliced(text, at, new) \in Seq(Char)
         /\ IsSpliced(Spliced(text, at, new), text, at, new)
  <1>1. /\ Len(text) \in Nat /\ Len(new) \in Nat
        /\ \A k \in 1..Len(text) : text[k] \in Char
        /\ \A k \in 1..Len(new) : new[k] \in Char
    BY LenProperties, ElementOfSeq
  <1>2. ASSUME NEW k \in 1..(Len(text) + Len(new))
        PROVE  Spliced(text, at, new)[k] \in Char
    BY <1>1 DEF Spliced
  <1>3. Spliced(text, at, new) \in [1..(Len(text) + Len(new)) -> Char]
    BY <1>2 DEF Spliced
  <1>4. Len(text) + Len(new) \in Nat
    BY <1>1
  <1>5. /\ Spliced(text, at, new) \in Seq(Char)
        /\ Len(Spliced(text, at, new)) = Len(text) + Len(new)
    BY <1>3, <1>4, SeqOf, Zenon
  <1> QED  BY <1>5 DEF Spliced, IsSpliced

LEMMA CutText ==
  ASSUME NEW text \in Seq(Char), NEW at \in Nat, NEW count \in Nat,
         at + count <= Len(text)
  PROVE  /\ Cut(text, at, count) \in Seq(Char)
         /\ IsCut(Cut(text, at, count), text, at, count)
  <1>1. Len(text) \in Nat /\ \A k \in 1..Len(text) : text[k] \in Char
    BY LenProperties, ElementOfSeq
  <1>2. ASSUME NEW k \in 1..(Len(text) - count)
        PROVE  Cut(text, at, count)[k] \in Char
    BY <1>1 DEF Cut
  <1>3. Cut(text, at, count) \in [1..(Len(text) - count) -> Char]
    BY <1>2 DEF Cut
  <1>4. Len(text) - count \in Nat
    BY <1>1
  <1>5. /\ Cut(text, at, count) \in Seq(Char)
        /\ Len(Cut(text, at, count)) = Len(text) - count
    BY <1>3, <1>4, SeqOf, Zenon
  <1> QED  BY <1>5 DEF Cut, IsCut

LEMMA SameText ==
  ASSUME NEW s \in Seq(Char), NEW t \in Seq(Char), Len(s) = Len(t),
         \A k \in 1..Len(s) : s[k] = t[k]
  PROVE  s = t
  BY SeqEqual

(* What is cut out and put back. *)
LEMMA CutThenSpliced ==
  ASSUME NEW text \in Seq(Char), NEW part \in Seq(Char), NEW at \in Nat,
         at + Len(part) <= Len(text),
         \A k \in 1..Len(part) : text[at + k] = part[k]
  PROVE  Spliced(Cut(text, at, Len(part)), at, part) = text
  <1> DEFINE rest == Cut(text, at, Len(part))
             new == Spliced(rest, at, part)
  <1>1. Len(text) \in Nat /\ Len(part) \in Nat
    BY LenProperties
  <1>2. rest \in Seq(Char) /\ IsCut(rest, text, at, Len(part))
    BY <1>1, CutText, Zenon
  <1>3. at \in 0..Len(rest)
    BY <1>1, <1>2 DEF IsCut
  <1> HIDE DEF rest
  <1>4. new \in Seq(Char) /\ IsSpliced(new, rest, at, part)
    BY <1>2, <1>3, SplicedText, Zenon
  <1> HIDE DEF new
  <1>5. Len(new) = Len(text)
    BY <1>1, <1>2, <1>4 DEF IsCut, IsSpliced
  <1>6. ASSUME NEW k \in 1..Len(text) PROVE new[k] = text[k]
    <2> USE DEF IsCut, IsSpliced
    <2>1. CASE k <= at
      BY <2>1, <1>1, <1>2, <1>4, <1>5, SMTT(30)
    <2>2. CASE k > at /\ k <= at + Len(part)
      <3>1. k - at \in 1..Len(part) /\ at + (k - at) = k
        BY <2>2, <1>1
      <3>2. new[k] = part[k - at]
        BY <2>2, <1>1, <1>2, <1>4, <1>5
      <3>3. text[at + (k - at)] = part[k - at]
        BY <3>1
      <3> QED  BY <3>1, <3>2, <3>3
    <2>3. CASE k > at + Len(part)
      <3>1. /\ k - Len(part) \in 1..(Len(text) - Len(part))
            /\ (k - Len(part)) + Len(part) = k
            /\ ~(k - Len(part) <= at)
        BY <2>3, <1>1
      <3>2. new[k] = rest[k - Len(part)]
        BY <2>3, <1>1, <1>2, <1>4, <1>5
      <3> QED  BY <3>1, <3>2, <1>2
    <2> QED  BY <2>1, <2>2, <2>3, <1>1
  <1>7. new = text
    BY <1>4, <1>5, <1>6, SameText
  <1> QED  BY <1>7 DEF new, rest

-----------------------------------------------------------------------------
(* Line feeds *)

FeedsAt(text) == {k \in 1..Len(text) : text[k] = LF}

LEMMA FeedsFiniteSet ==
  ASSUME NEW text \in Text
  PROVE  /\ IsFiniteSet(FeedsAt(text)) /\ Feeds(text) = Cardinality(FeedsAt(text))
         /\ Feeds(text) \in Nat
  <1>1. IsFiniteSet(1..Len(text)) /\ FeedsAt(text) \in SUBSET (1..Len(text))
    BY FS_Interval, LenProperties DEF FeedsAt, Text
  <1>2. IsFiniteSet(FeedsAt(text)) /\ Feeds(text) = Cardinality(FeedsAt(text))
    BY <1>1, FS_Subset DEF Feeds, FeedsAt
  <1> QED  BY <1>2, FS_CardinalityType

(* The line feeds of a text with another one put into it: those before    *)
(* `at' stay, those of the new text and those behind it move.             *)
LEMMA FeedsSpliced ==
  ASSUME NEW text \in Text, NEW new \in Text, NEW at \in 0..Len(text)
  PROVE  Feeds(Spliced(text, at, new)) = Feeds(text) + Feeds(new)
  <1> DEFINE all == Spliced(text, at, new)
             Old == FeedsAt(text)
             New == FeedsAt(new)
             move == [k \in Old |-> IF k <= at THEN k ELSE k + Len(new)]
             shift == [k \in New |-> k + at]
             Moved == {move[k] : k \in Old}
             Shifted == {shift[k] : k \in New}
  <1>1. /\ Len(text) \in Nat /\ Len(new) \in Nat /\ at \in Nat /\ at <= Len(text)
    BY LenProperties DEF Text
  <1>2. all \in Text /\ IsSpliced(all, text, at, new)
    BY SplicedText, Zenon DEF Text
  <1>3. IsFiniteSet(Old) /\ IsFiniteSet(New) /\ Old \subseteq 1..Len(text) /\ New \subseteq 1..Len(new)
    BY FeedsFiniteSet DEF FeedsAt
  <1>4. FeedsAt(all) = Moved \cup Shifted
    <2> HIDE DEF all
    <2> USE DEF IsSpliced
    <2>1. ASSUME NEW k \in FeedsAt(all) PROVE k \in Moved \cup Shifted
      <3>1. k \in 1..(Len(text) + Len(new)) /\ all[k] = LF
        BY <1>2 DEF FeedsAt
      <3>2. CASE k <= at
        <4>1. k \in Old
          BY <3>1, <3>2, <1>1, <1>2 DEF FeedsAt
        <4>2. move[k] = k
          BY <3>2, <4>1
        <4> QED  BY <4>1, <4>2
      <3>3. CASE k > at /\ k <= at + Len(new)
        <4>1. k - at \in New
          BY <3>1, <3>3, <1>1, <1>2 DEF FeedsAt
        <4>2. shift[k - at] = k
          BY <4>1, <3>1, <1>1
        <4> QED  BY <4>1, <4>2
      <3>4. CASE k > at + Len(new)
        <4>1. k - Len(new) \in Old /\ ~(k - Len(new) <= at) /\ (k - Len(new)) + Len(new) = k
          BY <3>1, <3>4, <1>1, <1>2 DEF FeedsAt
        <4>2. move[k - Len(new)] = k
          BY <4>1
        <4> QED  BY <4>1, <4>2
      <3> QED  BY <3>1, <3>2, <3>3, <3>4, <1>1
    <2>2. ASSUME NEW k \in Old PROVE move[k] \in FeedsAt(all)
      <3>1. k \in 1..Len(text) /\ text[k] = LF
        BY DEF FeedsAt
      <3>2. CASE k <= at
        BY <3>1, <3>2, <1>1, <1>2 DEF FeedsAt
      <3>3. CASE k > at
        <4>1. /\ k + Len(new) \in 1..(Len(text) + Len(new)) /\ ~(k + Len(new) <= at)
              /\ ~(k + Len(new) <= at + Len(new)) /\ (k + Len(new)) - Len(new) = k
          BY <3>1, <3>3, <1>1
        <4>2. all[k + Len(new)] = LF
          BY <4>1, <3>1, <1>2
        <4>3. move[k] = k + Len(new)
          BY <3>1, <3>3, <1>1
        <4> QED  BY <4>1, <4>2, <4>3, <1>2 DEF FeedsAt
      <3> QED  BY <3>1, <3>2, <3>3, <1>1
    <2>3. ASSUME NEW k \in New PROVE shift[k] \in FeedsAt(all)
      <3>1. k \in 1..Len(new) /\ new[k] = LF
        BY DEF FeedsAt
      <3>2. /\ k + at \in 1..(Len(text) + Len(new)) /\ ~(k + at <= at)
            /\ k + at <= at + Len(new) /\ (k + at) - at = k
        BY <3>1, <1>1
      <3>3. all[k + at] = LF
        BY <3>1, <3>2, <1>2
      <3>4. shift[k] = k + at
        OBVIOUS
      <3> QED  BY <3>2, <3>3, <3>4, <1>2 DEF FeedsAt
    <2> QED  BY <2>1, <2>2, <2>3
  <1>5. Moved \cap Shifted = {}
    <2>1. ASSUME NEW k \in Old, NEW j \in New PROVE move[k] # shift[j]
      BY <1>1, <1>3
    <2> QED  BY <2>1
  <1>6. /\ IsFiniteSet(Moved) /\ Cardinality(Moved) = Cardinality(Old)
    <2>1. move \in [Old -> Moved]
      OBVIOUS
    <2>2. \A i, j \in Old : move[i] = move[j] => i = j
      BY <1>1, <1>3
    <2>3. \A t \in Moved : \E i \in Old : move[i] = t
      OBVIOUS
    <2> HIDE DEF move, Old, Moved
    <2>4. move \in Bijection(Old, Moved)
      BY <2>1, <2>2, <2>3 DEF Bijection, Injection, Surjection, IsInjective
    <2> QED  BY <1>3, <2>4, FS_Bijection DEF ExistsBijection
  <1>7. /\ IsFiniteSet(Shifted) /\ Cardinality(Shifted) = Cardinality(New)
    <2>1. shift \in [New -> Shifted]
      OBVIOUS
    <2>2. \A i, j \in New : shift[i] = shift[j] => i = j
      BY <1>1, <1>3
    <2>3. \A t \in Shifted : \E i \in New : shift[i] = t
      OBVIOUS
    <2> HIDE DEF shift, New, Shifted
    <2>4. shift \in Bijection(New, Shifted)
      BY <2>1, <2>2, <2>3 DEF Bijection, Injection, Surjection, IsInjective
    <2> QED  BY <1>3, <2>4, FS_Bijection DEF ExistsBijection
  <1> HIDE DEF Moved, Shifted, Old, New, all
  <1>8. Cardinality(Moved \cup Shifted) = Cardinality(Moved) + Cardinality(Shifted)
    <2>1. Cardinality(Moved \cap Shifted) = 0
      BY <1>5, FS_EmptySet
    <2>2. Cardinality(Moved \cup Shifted)
            = Cardinality(Moved) + Cardinality(Shifted) - Cardinality(Moved \cap Shifted)
      BY <1>6, <1>7, FS_Union
    <2>3. Cardinality(Moved) \in Nat /\ Cardinality(Shifted) \in Nat
      BY <1>6, <1>7, FS_CardinalityType
    <2> QED  BY <2>1, <2>2, <2>3
  <1>9. Feeds(all) = Cardinality(Moved \cup Shifted)
    BY <1>2, <1>4, FeedsFiniteSet
  <1>10. Feeds(text) = Cardinality(Old) /\ Feeds(new) = Cardinality(New)
    BY FeedsFiniteSet DEF Old, New
  <1> QED  BY <1>6, <1>7, <1>8, <1>9, <1>10 DEF all

-----------------------------------------------------------------------------
(* The text of a piece and of a root *)

LEMMA PieceTextTyped ==
  ASSUME NEW buffers, BuffersOK(buffers), NEW piece \in Piece, PieceOK(buffers, piece)
  PROVE  PieceText(buffers, piece) \in Text /\ Len(PieceText(buffers, piece)) = piece.length
  <1> DEFINE buffer == buffer_at(buffers, piece.index)
             base == cursor_offset(buffer, piece.first)
  <1>1. /\ WellFormed(buffer) /\ base \in Nat /\ piece.length \in Nat
        /\ base + piece.length <= Len(buffer.text)
    BY PieceRangeOf
  <1>2. buffer.text \in Seq(Char) /\ Len(buffer.text) \in Nat
    BY <1>1, LenProperties DEF WellFormed, CharBuffer, Text
  <1>3. PieceText(buffers, piece) = [k \in 1..piece.length |-> buffer.text[base + k]]
    BY DEF PieceText
  <1> HIDE DEF buffer, base
  <1>4. ASSUME NEW k \in 1..piece.length PROVE buffer.text[base + k] \in Char
    <2>1. base + k \in 1..Len(buffer.text)
      BY <1>1, <1>2
    <2> QED  BY <1>2, <2>1, ElementOfSeq
  <1>5. PieceText(buffers, piece) \in [1..piece.length -> Char]
    BY <1>3, <1>4
  <1> QED  BY <1>1, <1>5, SeqOf, Zenon DEF Text

(* A character is found in the piece that spans its offset. *)
LEMMA CharOfPiece ==
  ASSUME NEW buffers, BuffersOK(buffers), NEW root, GoodRoot(buffers, root),
         NEW s \in Starts(root), NEW k \in 1..root.pieces[s].length
  PROVE  /\ s + k \in 1..root.length
         /\ TextOf(buffers, root)[s + k] = PieceText(buffers, root.pieces[s])[k]
  <1> DEFINE offset == s + k - 1
             found == find_node(root, offset)
             piece == root.pieces[s]
  <1>1. /\ s \in Nat /\ piece.length \in Nat /\ root.length \in Nat
        /\ s + piece.length <= root.length
        /\ TiledShape(root) /\ piece \in Piece /\ PieceOK(buffers, piece)
    BY DEF GoodRoot, TiledShape, Shape, Tiled, Piece, End, PiecesOK
  <1>2. offset \in Nat /\ offset < root.length /\ s + k \in 1..root.length
    BY <1>1
  <1> DEFINE t == found.start_offset
  <1>3. /\ t \in Starts(root) /\ found.piece = root.pieces[t]
        /\ found.remainder = offset - t /\ found.remainder \in Nat
        /\ found.remainder < found.piece.length
    BY <1>1, <1>2, FindNode
  <1> HIDE DEF found
  <1>4. t \in Nat /\ root.pieces[t].length \in Nat
    BY <1>1, <1>3 DEF TiledShape, Shape, Piece
  <1>5. ~(s < t)
    BY <1>1, <1>3, <1>4 DEF TiledShape, Tiled, End
  <1>6. ~(t < s)
    <2> SUFFICES ASSUME t < s PROVE FALSE
      OBVIOUS
    <2>1. t + root.pieces[t].length <= s
      BY <1>1, <1>3 DEF TiledShape, Tiled, End
    <2> QED  BY <2>1, <1>1, <1>3, <1>4
  <1>7. t = s
    BY <1>1, <1>4, <1>5, <1>6
  <1>8. found.piece = piece /\ found.remainder + 1 = k
    BY <1>1, <1>3, <1>7
  <1>9. (s + k) - 1 = offset
    BY <1>1
  <1> DEFINE buffer == buffer_at(buffers, piece.index)
             base == cursor_offset(buffer, piece.first)
  <1>10. TextOf(buffers, root)[s + k] = char_at_tree(buffers, root, offset)
    BY <1>2, <1>9 DEF TextOf
  <1>11. char_at_tree(buffers, root, offset)
           = buffer.text[base + found.remainder + 1]
    BY <1>8 DEF char_at_tree, found
  <1>12. PieceText(buffers, piece)[k] = buffer.text[base + k]
    BY DEF PieceText
  <1>13. base + found.remainder + 1 = base + k
    <2>1. base \in Nat
      BY <1>1, PieceRangeOf
    <2> HIDE DEF base
    <2> QED  BY <2>1, <1>1, <1>3, <1>8
  <1> QED  BY <1>2, <1>10, <1>11, <1>12, <1>13

LEMMA TextTyped ==
  ASSUME NEW buffers, BuffersOK(buffers), NEW root, GoodRoot(buffers, root)
  PROVE  /\ TextOf(buffers, root) \in Text
         /\ Len(TextOf(buffers, root)) = root.length
         /\ root.length \in Nat
  <1>1. root.length \in Nat /\ TiledShape(root)
    BY DEF GoodRoot, TiledShape, Shape
  <1>2. ASSUME NEW k \in 1..root.length PROVE TextOf(buffers, root)[k] \in Char
    <2>1. PICK s \in Starts(root) : s <= k - 1 /\ k - 1 < End(root, s)
      BY <1>1 DEF TiledShape, Tiled, HasNode
    <2> DEFINE piece == root.pieces[s]
    <2>2. s \in Nat /\ piece.length \in Nat /\ piece \in Piece /\ PieceOK(buffers, piece)
      BY DEF GoodRoot, TiledShape, Shape, Piece, PiecesOK
    <2>3. k - s \in 1..piece.length /\ s + (k - s) = k
      BY <2>1, <2>2 DEF End
    <2>4. TextOf(buffers, root)[k] = PieceText(buffers, piece)[k - s]
      BY <2>3, CharOfPiece
    <2>5. PieceText(buffers, piece) \in Seq(Char) /\ Len(PieceText(buffers, piece)) = piece.length
      BY <2>2, PieceTextTyped DEF Text
    <2> HIDE DEF piece
    <2> QED  BY <2>3, <2>4, <2>5, ElementOfSeq
  <1>3. TextOf(buffers, root) \in [1..root.length -> Char]
    BY <1>2 DEF TextOf
  <1> QED  BY <1>1, <1>3, SeqOf, Zenon DEF Text

(* A text that agrees with every piece is the text of the root. *)
LEMMA TextIs ==
  ASSUME NEW buffers, BuffersOK(buffers), NEW root, GoodRoot(buffers, root),
         NEW text \in Text, Len(text) = root.length,
         \A s \in Starts(root) : \A k \in 1..root.pieces[s].length :
            text[s + k] = PieceText(buffers, root.pieces[s])[k]
  PROVE  TextOf(buffers, root) = text
  <1>1. root.length \in Nat /\ TiledShape(root)
    BY DEF GoodRoot, TiledShape, Shape
  <1>2. ASSUME NEW k \in 1..root.length PROVE TextOf(buffers, root)[k] = text[k]
    <2>1. PICK s \in Starts(root) : s <= k - 1 /\ k - 1 < End(root, s)
      BY <1>1 DEF TiledShape, Tiled, HasNode
    <2>2. s \in Nat /\ root.pieces[s].length \in Nat
      BY DEF GoodRoot, TiledShape, Shape, Piece
    <2>3. k - s \in 1..root.pieces[s].length /\ s + (k - s) = k
      BY <2>1, <2>2 DEF End
    <2>4. TextOf(buffers, root)[k] = PieceText(buffers, root.pieces[s])[k - s]
      BY <2>3, CharOfPiece
    <2> QED  BY <2>3, <2>4
  <1> QED  BY <1>1, <1>2, TextTyped, SameText DEF Text

(* A piece reads as many line feeds as it counts. *)
LEMMA PieceFeeds ==
  ASSUME NEW buffers, BuffersOK(buffers), NEW piece \in Piece, PieceOK(buffers, piece)
  PROVE  piece.newline_count = Feeds(PieceText(buffers, piece))
  <1> DEFINE buffer == buffer_at(buffers, piece.index)
             base == cursor_offset(buffer, piece.first)
             len == piece.length
             text == PieceText(buffers, piece)
             Below == StartsUpTo(buffer, base)
             All == StartsUpTo(buffer, base + len)
             Found == FeedsAt(text)
             shift == [k \in Found |-> base + k]
             Shifted == {shift[k] : k \in Found}
  <1>1. /\ WellFormed(buffer) /\ base \in Nat /\ len \in Nat
        /\ base + len <= Len(buffer.text) /\ Len(buffer.text) \in Nat
        /\ piece = PieceOf(buffers, piece.index, base, base + len)
    BY PieceRangeOf
  <1>2. text \in Text /\ Len(text) = len /\ \A k \in 1..len : text[k] = buffer.text[base + k]
    <2>1. text \in Text /\ Len(text) = len
      BY PieceTextTyped
    <2>2. \A k \in 1..len : text[k] = buffer.text[base + k]
      BY DEF PieceText
    <2> QED  BY <2>1, <2>2
  <1>3. piece.newline_count = lf_count_in_range(buffer, base, base + len)
    BY <1>1 DEF PieceOf
  <1> HIDE DEF buffer, base, len, text
  <1>4. \A s : s \in buffer.line_starts <=> s = 0 \/ (s \in 1..Len(buffer.text) /\ buffer.text[s] = LF)
    BY <1>1 DEF WellFormed, calculate_line_starts
  <1>5. \A k : k \in Found <=> k \in 1..len /\ buffer.text[base + k] = LF
    BY <1>2 DEF FeedsAt
  <1>6. All = Below \cup Shifted /\ Below \cap Shifted = {}
    <2>1. \A s : s \in Shifted <=> \E k \in Found : s = base + k
      OBVIOUS
    <2>2. \A s : s \in All <=> s \in buffer.line_starts /\ s <= base + len
      BY DEF StartsUpTo
    <2>3. \A s : s \in Below <=> s \in buffer.line_starts /\ s <= base
      BY DEF StartsUpTo
    <2> HIDE DEF All, Below, Shifted, Found
    <2>4. ASSUME NEW s \in All, s \notin Below PROVE s \in Shifted
      <3>1. s \in 1..Len(buffer.text) /\ buffer.text[s] = LF /\ s > base /\ s <= base + len
        BY <2>4, <2>2, <2>3, <1>1, <1>4
      <3>2. s - base \in 1..len /\ base + (s - base) = s
        BY <3>1, <1>1
      <3>3. s - base \in Found
        BY <3>1, <3>2, <1>5
      <3> QED  BY <3>2, <3>3, <2>1
    <2>5. ASSUME NEW s \in Shifted PROVE s \in All /\ s \notin Below
      <3>1. PICK k \in Found : s = base + k
        BY <2>1
      <3>2. k \in 1..len /\ buffer.text[base + k] = LF
        BY <1>5
      <3>3. s \in 1..Len(buffer.text) /\ s <= base + len /\ ~ (s <= base)
        BY <3>1, <3>2, <1>1
      <3>4. s \in buffer.line_starts
        BY <3>1, <3>2, <3>3, <1>4
      <3> QED  BY <3>3, <3>4, <2>2, <2>3
    <2>6. Below \subseteq All
      BY <2>2, <2>3, <1>1, <1>4
    <2> QED  BY <2>4, <2>5, <2>6
  <1>7. IsFiniteSet(Found) /\ Feeds(text) = Cardinality(Found) /\ Feeds(text) \in Nat
    BY <1>2, FeedsFiniteSet
  <1>8. /\ IsFiniteSet(Shifted) /\ Cardinality(Shifted) = Cardinality(Found)
    <2>1. shift \in [Found -> Shifted]
      OBVIOUS
    <2>2. \A i, j \in Found : shift[i] = shift[j] => i = j
      BY <1>1, <1>5
    <2>3. \A t \in Shifted : \E i \in Found : shift[i] = t
      OBVIOUS
    <2> HIDE DEF shift, Found, Shifted
    <2>4. shift \in Bijection(Found, Shifted)
      BY <2>1, <2>2, <2>3 DEF Bijection, Injection, Surjection, IsInjective
    <2> QED  BY <1>7, <2>4, FS_Bijection DEF ExistsBijection
  <1>9. IsFiniteSet(Below) /\ Cardinality(Below) \in Nat
    BY <1>1, StartsFinite, FS_Subset, FS_CardinalityType DEF StartsUpTo
  <1>10. lf_count_in_range(buffer, base, base + len) = (Cardinality(All) - 1) - (Cardinality(Below) - 1)
    BY DEF lf_count_in_range, line_start_index, StartsUpTo
  <1> HIDE DEF All, Below, Shifted, Found
  <1>11. Cardinality(All) = Cardinality(Below) + Cardinality(Shifted)
    <2>1. Cardinality(Below \cap Shifted) = 0
      BY <1>6, FS_EmptySet
    <2>2. Cardinality(Below \cup Shifted)
            = Cardinality(Below) + Cardinality(Shifted) - Cardinality(Below \cap Shifted)
      BY <1>8, <1>9, FS_Union
    <2>3. Cardinality(Shifted) \in Nat
      BY <1>8, FS_CardinalityType
    <2>4. Cardinality(All) = Cardinality(Below) + Cardinality(Shifted) - 0
      BY <1>6, <2>1, <2>2
    <2> QED  BY <2>3, <2>4, <1>9
  <1> QED  BY <1>3, <1>7, <1>8, <1>9, <1>10, <1>11 DEF text

-----------------------------------------------------------------------------
(* RedBlackTree::insert and RedBlackTree::remove *)

LEMMA InsertReads ==
  ASSUME NEW buffers, BuffersOK(buffers), NEW root, NEW text, Reads(buffers, root, text),
         NEW piece, GoodPiece(buffers, piece),
         NEW at \in Nat, Boundary(root, at)
  PROVE  LET new == InsertPiece(root, piece, at)
             put == PieceText(buffers, piece)
         IN  /\ Reads(buffers, new, Spliced(text, at, put))
             /\ at \in 0..Len(text)
             /\ Boundary(new, at) /\ Boundary(new, at + piece.length)
  <1> DEFINE new == InsertPiece(root, piece, at)
             len == piece.length
             put == PieceText(buffers, piece)
             all == Spliced(text, at, put)
  <1>1. /\ GoodRoot(buffers, root) /\ TiledShape(root) /\ piece \in Piece /\ len \in Nat /\ len > 0
        /\ PieceOK(buffers, piece)
        /\ Starts(root) \subseteq Nat /\ root.length \in Nat
        /\ \A s \in Starts(root) : root.pieces[s] \in Piece /\ root.pieces[s].length \in Nat
    BY DEF Reads, GoodPiece, GoodRoot, TiledShape, Shape, Piece
  <1>2. text = TextOf(buffers, root) /\ root.lf_count = Feeds(text)
    BY DEF Reads
  <1>3. text \in Text /\ Len(text) = root.length
    BY <1>1, <1>2, TextTyped
  <1>4. put \in Text /\ Len(put) = len /\ piece.newline_count = Feeds(put)
    BY <1>1, PieceTextTyped, PieceFeeds
  <1>5. at <= root.length /\ at \in 0..Len(text)
    BY <1>1, <1>3 DEF Boundary, TiledShape, Tiled, End
  <1>6. /\ GoodRoot(buffers, new) /\ new.length = root.length + len
        /\ Boundary(new, at) /\ Boundary(new, at + len)
    BY <1>1, InsertKeepsGood
  <1>7. all \in Text /\ IsSpliced(all, text, at, put)
    BY <1>3, <1>4, <1>5, SplicedText, Zenon DEF Text
  <1>8. Feeds(all) = Feeds(text) + Feeds(put)
    BY <1>3, <1>4, <1>5, FeedsSpliced
  <1>9. new.lf_count = Feeds(all)
    <2>1. new.lf_count = root.lf_count + piece.newline_count
      BY DEF InsertPiece
    <2> QED  BY <2>1, <1>2, <1>4, <1>8
  <1>10. \A s : s \in Starts(new) <=> \/ s \in Starts(root) /\ s < at
                                      \/ s = at
                                      \/ s \in Nat /\ s - len \in Starts(root) /\ s - len >= at
    BY <1>1, InsertStarts
  <1>11. /\ \A s \in Starts(root) : s < at => new.pieces[s] = root.pieces[s]
         /\ new.pieces[at] = piece
         /\ \A s \in Nat : s - len \in Starts(root) /\ s - len >= at
                             => new.pieces[s] = root.pieces[s - len]
    BY <1>1, InsertStarts
  <1>12. \A s \in Starts(root) : s < at => s + root.pieces[s].length <= at
    BY <1>1 DEF Boundary, TiledShape, Tiled, End
  <1>13. Len(all) = new.length
    BY <1>3, <1>4, <1>6, <1>7 DEF IsSpliced
  <1> HIDE DEF new, all, put
  <1>14. ASSUME NEW s \in Starts(new), NEW k \in 1..new.pieces[s].length
         PROVE  all[s + k] = PieceText(buffers, new.pieces[s])[k]
    <2> USE DEF IsSpliced
    <2>1. CASE s \in Starts(root) /\ s < at
      <3>1. new.pieces[s] = root.pieces[s] /\ s + root.pieces[s].length <= at
        BY <2>1, <1>11, <1>12
      <3>2. s + k \in 1..Len(text) /\ text[s + k] = PieceText(buffers, root.pieces[s])[k]
        BY <2>1, <3>1, <1>1, <1>2, <1>3, CharOfPiece
      <3>3. s + k <= at
        BY <2>1, <3>1, <1>1
      <3> QED  BY <3>1, <3>2, <3>3, <1>1, <1>3, <1>4, <1>7
    <2>2. CASE s = at
      <3>1. k \in 1..len
        BY <2>2, <1>11
      <3>2. s + k \in 1..(Len(text) + Len(put)) /\ ~(s + k <= at) /\ s + k <= at + len
            /\ (s + k) - at = k
        BY <3>1, <2>2, <1>1, <1>3, <1>4, <1>5
      <3> QED  BY <2>2, <3>2, <1>4, <1>7, <1>11 DEF put
    <2>3. CASE s \in Nat /\ s - len \in Starts(root) /\ s - len >= at
      <3>1. new.pieces[s] = root.pieces[s - len]
        BY <2>3, <1>11
      <3>2. /\ (s - len) + k \in 1..Len(text)
            /\ text[(s - len) + k] = PieceText(buffers, root.pieces[s - len])[k]
        BY <2>3, <3>1, <1>1, <1>2, <1>3, CharOfPiece, SMTT(30)
      <3>3. k \in Nat /\ k >= 1
        BY <2>3, <3>1, <1>1
      <3>4. /\ s + k \in 1..(Len(text) + Len(put)) /\ ~(s + k <= at) /\ ~(s + k <= at + len)
            /\ (s + k) - len = (s - len) + k
        BY <2>3, <3>2, <3>3, <1>1, <1>3, <1>4, SMTT(30)
      <3> QED  BY <3>1, <3>2, <3>4, <1>4, <1>7
    <2> QED  BY <2>1, <2>2, <2>3, <1>10
  <1>15. TextOf(buffers, new) = all
    BY <1>6, <1>7, <1>13, <1>14, TextIs
  <1> QED  BY <1>5, <1>6, <1>9, <1>15 DEF Reads, new, all, put

LEMMA RemoveReads ==
  ASSUME NEW buffers, BuffersOK(buffers), NEW root, NEW text, Reads(buffers, root, text),
         NEW at \in Starts(root)
  PROVE  LET new == RemovePiece(root, at)
             len == root.pieces[at].length
         IN  /\ Reads(buffers, new, Cut(text, at, len))
             /\ at \in Nat /\ Boundary(new, at)
             /\ len \in Nat /\ at + len <= Len(text)
  <1> DEFINE new == RemovePiece(root, at)
             piece == root.pieces[at]
             len == piece.length
             gone == PieceText(buffers, piece)
             rest == Cut(text, at, len)
  <1>1. /\ GoodRoot(buffers, root) /\ TiledShape(root) /\ piece \in Piece /\ len \in Nat /\ len > 0
        /\ PieceOK(buffers, piece) /\ at \in Nat
        /\ Starts(root) \subseteq Nat /\ root.length \in Nat
        /\ \A s \in Starts(root) : root.pieces[s] \in Piece /\ root.pieces[s].length \in Nat
    BY DEF Reads, GoodRoot, TiledShape, Tiled, Shape, Piece, PiecesOK
  <1>2. text = TextOf(buffers, root) /\ root.lf_count = Feeds(text)
    BY DEF Reads
  <1>3. text \in Text /\ Len(text) = root.length
    BY <1>1, <1>2, TextTyped
  <1>4. gone \in Text /\ Len(gone) = len /\ piece.newline_count = Feeds(gone)
    BY <1>1, PieceTextTyped, PieceFeeds
  <1>5. /\ GoodRoot(buffers, new) /\ new.length = root.length - len /\ Boundary(new, at)
    BY <1>1, RemoveKeepsGood
  <1>6. /\ at + len <= Len(text)
        /\ \A s \in Starts(root) : s < at => s + root.pieces[s].length <= at
        /\ \A s \in Starts(root) : s > at => s >= at + len
    BY <1>1, <1>3 DEF TiledShape, Tiled, End
  <1>7. rest \in Text /\ IsCut(rest, text, at, len)
    <2> HIDE DEF len
    <2> QED  BY <1>1, <1>3, <1>6, CutText, Zenon DEF Text
  <1>8. \A k \in 1..len : text[at + k] = gone[k]
    BY <1>1, <1>2, CharOfPiece
  <1>9. new.lf_count = root.lf_count - piece.newline_count
    BY DEF RemovePiece
  <1>10. \A s : s \in Starts(new) <=> \/ s \in Starts(root) /\ s < at
                                      \/ s \in Nat /\ s + len \in Starts(root) /\ s >= at
    BY <1>1, RemoveStarts
  <1>11. /\ \A s \in Starts(root) : s < at => new.pieces[s] = root.pieces[s]
         /\ \A s \in Nat : s + len \in Starts(root) /\ s >= at
                             => new.pieces[s] = root.pieces[s + len]
    BY <1>1, RemoveStarts
  <1> HIDE DEF new, rest, gone, len
  <1>12. new.lf_count = Feeds(rest)
    <2>1. at \in 0..Len(rest)
      BY <1>1, <1>3, <1>6, <1>7 DEF IsCut
    <2>2. Spliced(rest, at, gone) = text
      <3>1. Len(gone) = len
        BY <1>4
      <3>2. Spliced(Cut(text, at, Len(gone)), at, gone) = text
        BY <1>1, <1>3, <1>4, <1>6, <1>8, CutThenSpliced DEF Text
      <3> QED  BY <3>1, <3>2 DEF rest
    <2>3. Feeds(text) = Feeds(rest) + Feeds(gone)
      BY <2>1, <2>2, <1>4, <1>7, FeedsSpliced
    <2>4. Feeds(rest) \in Nat /\ Feeds(gone) \in Nat /\ Feeds(text) \in Nat
      BY <1>3, <1>4, <1>7, FeedsFiniteSet
    <2> QED  BY <2>3, <2>4, <1>2, <1>4, <1>9
  <1>13. Len(rest) = new.length
    BY <1>3, <1>5, <1>7 DEF IsCut
  <1>14. ASSUME NEW s \in Starts(new), NEW k \in 1..new.pieces[s].length
         PROVE  rest[s + k] = PieceText(buffers, new.pieces[s])[k]
    <2> USE DEF IsCut
    <2>1. CASE s \in Starts(root) /\ s < at
      <3>1. new.pieces[s] = root.pieces[s] /\ s + root.pieces[s].length <= at
        BY <2>1, <1>6, <1>11
      <3>2. s + k \in 1..Len(text) /\ text[s + k] = PieceText(buffers, root.pieces[s])[k]
        BY <2>1, <3>1, <1>1, <1>2, <1>3, CharOfPiece
      <3>3. s + k <= at /\ s + k \in 1..(Len(text) - len)
        BY <2>1, <3>1, <3>2, <1>1, <1>3, <1>6
      <3> QED  BY <3>1, <3>2, <3>3, <1>7
    <2>2. CASE s \in Nat /\ s + len \in Starts(root) /\ s >= at
      <3>1. new.pieces[s] = root.pieces[s + len]
        BY <2>2, <1>11
      <3>2. /\ (s + len) + k \in 1..Len(text)
            /\ text[(s + len) + k] = PieceText(buffers, root.pieces[s + len])[k]
        BY <2>2, <3>1, <1>1, <1>2, <1>3, CharOfPiece
      <3>3. k \in Nat /\ k >= 1
        BY <2>2, <3>1, <1>1
      <3>4. /\ s + k \in 1..(Len(text) - len) /\ ~(s + k <= at)
            /\ (s + k) + len = (s + len) + k
        BY <2>2, <3>2, <3>3, <1>1, <1>3
      <3> QED  BY <3>1, <3>2, <3>4, <1>7
    <2> QED  BY <2>1, <2>2, <1>10
  <1>15. TextOf(buffers, new) = rest
    BY <1>5, <1>7, <1>13, <1>14, TextIs
  <1> QED  BY <1>1, <1>5, <1>6, <1>12, <1>15 DEF Reads, new, rest, len

-----------------------------------------------------------------------------
(* Texts taken apart and put together *)

(* An edit inside a part of a text is an edit of the text. *)
LEMMA PartSpliced ==
  ASSUME NEW text \in Seq(Char), NEW part \in Seq(Char), NEW new \in Seq(Char),
         NEW at \in Nat, PartAt(text, at, part),
         NEW r \in 0..Len(part)
  PROVE  Spliced(Cut(text, at, Len(part)), at, Spliced(part, r, new))
           = Spliced(text, at + r, new)
  <1> DEFINE a == Len(part)
             b == Len(new)
             n == Len(text)
             rest == Cut(text, at, a)
             both == Spliced(part, r, new)
             lhs == Spliced(rest, at, both)
             rhs == Spliced(text, at + r, new)
  <1> USE DEF PartAt
  <1>1. /\ n \in Nat /\ a \in Nat /\ b \in Nat /\ at + a <= n /\ r \in Nat /\ r <= a
        /\ at + r \in 0..n
    BY LenProperties
  <1>2. both \in Seq(Char) /\ IsSpliced(both, part, r, new)
    BY SplicedText, Zenon
  <1>3. rest \in Seq(Char) /\ IsCut(rest, text, at, a)
    <2> HIDE DEF a
    <2> QED  BY <1>1, CutText, Zenon DEF n
  <1>4. /\ Len(rest) = n - a
        /\ \A j \in 1..(n - a) : rest[j] = IF j <= at THEN text[j] ELSE text[j + a]
    BY <1>3 DEF IsCut
  <1>5. at \in 0..Len(rest)
    BY <1>1, <1>4
  <1>6. /\ Len(both) = a + b
        /\ \A k \in 1..(a + b) :
              both[k] = IF k <= r THEN part[k] ELSE IF k <= r + b THEN new[k - r] ELSE part[k - b]
    BY <1>2 DEF IsSpliced
  <1>7. \A k \in 1..a : part[k] = text[at + k]
    OBVIOUS
  <1> HIDE DEF rest, both
  <1>8. lhs \in Seq(Char) /\ IsSpliced(lhs, rest, at, both)
    BY <1>2, <1>3, <1>5, SplicedText, Zenon
  <1>9. rhs \in Seq(Char) /\ IsSpliced(rhs, text, at + r, new)
    BY <1>1, SplicedText, Zenon
  <1>10. /\ Len(rhs) = n + b
         /\ \A k \in 1..(n + b) :
               rhs[k] = IF k <= at + r THEN text[k]
                        ELSE IF k <= (at + r) + b THEN new[k - (at + r)] ELSE text[k - b]
    BY <1>9 DEF IsSpliced
  <1> HIDE DEF a, b, n, lhs, rhs
  <1>11. /\ Len(lhs) = (n - a) + (a + b)
         /\ \A k \in 1..((n - a) + (a + b)) :
               lhs[k] = IF k <= at THEN rest[k]
                        ELSE IF k <= at + (a + b) THEN both[k - at] ELSE rest[k - (a + b)]
    BY <1>4, <1>6, <1>8 DEF IsSpliced
  <1>12. (n - a) + (a + b) = n + b
    BY <1>1
  <1>13. ASSUME NEW k \in 1..(n + b) PROVE lhs[k] = rhs[k]
    <2>1. lhs[k] = IF k <= at THEN rest[k]
                   ELSE IF k <= at + (a + b) THEN both[k - at] ELSE rest[k - (a + b)]
      BY <1>11, <1>12
    <2>2. rhs[k] = IF k <= at + r THEN text[k]
                   ELSE IF k <= (at + r) + b THEN new[k - (at + r)] ELSE text[k - b]
      BY <1>10
    <2>3. CASE k <= at
      <3>1. k \in 1..(n - a) /\ k <= at + r
        BY <2>3, <1>1
      <3> QED  BY <2>1, <2>2, <2>3, <3>1, <1>4
    <2>4. CASE k > at /\ k <= at + r
      <3>1. /\ k - at \in 1..(a + b) /\ k - at \in 1..a /\ k - at <= r /\ at + (k - at) = k
            /\ ~(k <= at) /\ k <= at + (a + b)
        BY <2>4, <1>1, SMTT(30)
      <3>2. both[k - at] = part[k - at] /\ part[k - at] = text[k]
        BY <3>1, <1>6, <1>7
      <3> QED  BY <2>1, <2>2, <2>4, <3>1, <3>2
    <2>5. CASE k > at + r /\ k <= at + r + b
      <3>1. /\ k - at \in 1..(a + b) /\ ~(k - at <= r) /\ k - at <= r + b
            /\ (k - at) - r = k - (at + r)
            /\ ~(k <= at) /\ k <= at + (a + b) /\ ~(k <= at + r) /\ k <= (at + r) + b
        BY <2>5, <1>1
      <3>2. both[k - at] = new[k - (at + r)]
        BY <3>1, <1>6
      <3> QED  BY <2>1, <2>2, <3>1, <3>2
    <2>6. CASE k > at + r + b /\ k <= at + a + b
      <3>1. /\ k - at \in 1..(a + b) /\ ~(k - at <= r) /\ ~(k - at <= r + b)
            /\ (k - at) - b \in 1..a /\ at + ((k - at) - b) = k - b
            /\ ~(k <= at) /\ k <= at + (a + b) /\ ~(k <= at + r) /\ ~(k <= (at + r) + b)
        BY <2>6, <1>1
      <3>2. both[k - at] = part[(k - at) - b] /\ part[(k - at) - b] = text[k - b]
        BY <3>1, <1>6, <1>7
      <3> QED  BY <2>1, <2>2, <3>1, <3>2
    <2>7. CASE k > at + a + b
      <3>1. /\ k - (a + b) \in 1..(n - a) /\ ~(k - (a + b) <= at)
            /\ (k - (a + b)) + a = k - b
            /\ ~(k <= at) /\ ~(k <= at + (a + b)) /\ ~(k <= at + r) /\ ~(k <= (at + r) + b)
        BY <2>7, <1>1
      <3>2. rest[k - (a + b)] = text[k - b]
        BY <3>1, <1>4
      <3> QED  BY <2>1, <2>2, <3>1, <3>2
    <2> QED  BY <2>3, <2>4, <2>5, <2>6, <2>7, <1>1
  <1>14. Len(lhs) = n + b /\ Len(rhs) = n + b
    BY <1>10, <1>11, <1>12
  <1>15. lhs = rhs
    BY <1>8, <1>9, <1>13, <1>14, SameText
  <1> QED  BY <1>15 DEF lhs, rhs, rest, both, a

LEMMA PartCut ==
  ASSUME NEW text \in Seq(Char), NEW part \in Seq(Char),
         NEW at \in Nat, PartAt(text, at, part),
         NEW r \in Nat, NEW count \in Nat, r + count <= Len(part)
  PROVE  Spliced(Cut(text, at, Len(part)), at, Cut(part, r, count))
           = Cut(text, at + r, count)
  <1> DEFINE a == Len(part)
             n == Len(text)
             rest == Cut(text, at, a)
             less == Cut(part, r, count)
             lhs == Spliced(rest, at, less)
             rhs == Cut(text, at + r, count)
  <1> USE DEF PartAt
  <1>1. /\ n \in Nat /\ a \in Nat /\ at + a <= n /\ r + count <= a
        /\ at + r \in Nat /\ (at + r) + count <= n
    BY LenProperties
  <1>2. less \in Seq(Char) /\ IsCut(less, part, r, count)
    BY CutText, Zenon
  <1>3. rest \in Seq(Char) /\ IsCut(rest, text, at, a)
    <2> HIDE DEF a
    <2> QED  BY <1>1, CutText, Zenon DEF n
  <1>4. /\ Len(rest) = n - a
        /\ \A j \in 1..(n - a) : rest[j] = IF j <= at THEN text[j] ELSE text[j + a]
    BY <1>3 DEF IsCut
  <1>5. at \in 0..Len(rest)
    BY <1>1, <1>4
  <1>6. /\ Len(less) = a - count
        /\ \A k \in 1..(a - count) : less[k] = IF k <= r THEN part[k] ELSE part[k + count]
    BY <1>2 DEF IsCut
  <1>7. \A k \in 1..a : part[k] = text[at + k]
    OBVIOUS
  <1> HIDE DEF rest, less
  <1>8. lhs \in Seq(Char) /\ IsSpliced(lhs, rest, at, less)
    BY <1>2, <1>3, <1>5, SplicedText, Zenon
  <1>9. rhs \in Seq(Char) /\ IsCut(rhs, text, at + r, count)
    BY <1>1, CutText, Zenon
  <1>10. /\ Len(rhs) = n - count
         /\ \A k \in 1..(n - count) :
               rhs[k] = IF k <= at + r THEN text[k] ELSE text[k + count]
    BY <1>9 DEF IsCut
  <1> HIDE DEF a, n, lhs, rhs
  <1>11. /\ Len(lhs) = (n - a) + (a - count)
         /\ \A k \in 1..((n - a) + (a - count)) :
               lhs[k] = IF k <= at THEN rest[k]
                        ELSE IF k <= at + (a - count) THEN less[k - at]
                        ELSE rest[k - (a - count)]
    BY <1>4, <1>6, <1>8 DEF IsSpliced
  <1>12. (n - a) + (a - count) = n - count
    BY <1>1
  <1>13. ASSUME NEW k \in 1..(n - count) PROVE lhs[k] = rhs[k]
    <2>1. lhs[k] = IF k <= at THEN rest[k]
                   ELSE IF k <= at + (a - count) THEN less[k - at] ELSE rest[k - (a - count)]
      BY <1>11, <1>12
    <2>2. rhs[k] = IF k <= at + r THEN text[k] ELSE text[k + count]
      BY <1>10
    <2>3. CASE k <= at
      <3>1. k \in 1..(n - a) /\ k <= at + r
        BY <2>3, <1>1
      <3> QED  BY <2>1, <2>2, <2>3, <3>1, <1>4
    <2>4. CASE k > at /\ k <= at + r
      <3>1. /\ k - at \in 1..(a - count) /\ k - at \in 1..a /\ k - at <= r /\ at + (k - at) = k
            /\ ~(k <= at) /\ k <= at + (a - count)
        BY <2>4, <1>1
      <3>2. less[k - at] = part[k - at] /\ part[k - at] = text[k]
        BY <3>1, <1>6, <1>7
      <3> QED  BY <2>1, <2>2, <2>4, <3>1, <3>2
    <2>5. CASE k > at + r /\ k <= at + (a - count)
      <3>1. /\ k - at \in 1..(a - count) /\ ~(k - at <= r)
            /\ (k - at) + count \in 1..a /\ at + ((k - at) + count) = k + count
            /\ ~(k <= at) /\ ~(k <= at + r)
        BY <2>5, <1>1
      <3>2. less[k - at] = part[(k - at) + count] /\ part[(k - at) + count] = text[k + count]
        BY <3>1, <1>6, <1>7
      <3> QED  BY <2>1, <2>2, <2>5, <3>1, <3>2
    <2>6. CASE k > at + (a - count)
      <3>1. /\ k - (a - count) \in 1..(n - a) /\ ~(k - (a - count) <= at)
            /\ (k - (a - count)) + a = k + count
            /\ ~(k <= at) /\ ~(k <= at + (a - count)) /\ ~(k <= at + r)
        BY <2>6, <1>1
      <3>2. rest[k - (a - count)] = text[k + count]
        BY <3>1, <1>4
      <3> QED  BY <2>1, <2>2, <3>1, <3>2
    <2> QED  BY <2>3, <2>4, <2>5, <2>6, <1>1
  <1>14. Len(lhs) = n - count /\ Len(rhs) = n - count
    BY <1>10, <1>11, <1>12
  <1>15. lhs = rhs
    BY <1>8, <1>9, <1>13, <1>14, SameText
  <1> QED  BY <1>15 DEF lhs, rhs, rest, less, a

(* Two texts put in one behind the other. *)
LEMMA SplicedBehind ==
  ASSUME NEW text \in Seq(Char), NEW left \in Seq(Char), NEW right \in Seq(Char),
         NEW at \in 0..Len(text)
  PROVE  /\ Spliced(Spliced(text, at, left), at + Len(left), right)
              = Spliced(text, at, left \o right)
         /\ at + Len(left) \in 0..Len(Spliced(text, at, left))
  <1> DEFINE both == left \o right
             a == Len(left)
             b == Len(right)
             n == Len(text)
             one == Spliced(text, at, left)
             lhs == Spliced(one, at + a, right)
             rhs == Spliced(text, at, both)
  <1>1. n \in Nat /\ a \in Nat /\ b \in Nat /\ at \in Nat /\ at <= n
    BY LenProperties
  <1>2. one \in Seq(Char) /\ IsSpliced(one, text, at, left)
    BY SplicedText, Zenon
  <1>3. both \in Seq(Char) /\ Len(both) = a + b
    BY ConcatProperties
  <1>4. \A k \in 1..(a + b) : both[k] = IF k <= a THEN left[k] ELSE right[k - a]
    BY ConcatProperties
  <1> HIDE DEF both
  <1>5. rhs \in Seq(Char) /\ IsSpliced(rhs, text, at, both)
    BY <1>3, SplicedText, Zenon
  <1>6. /\ Len(one) = n + a
        /\ \A k \in 1..(n + a) :
              one[k] = IF k <= at THEN text[k]
                       ELSE IF k <= at + a THEN left[k - at] ELSE text[k - a]
    BY <1>2 DEF IsSpliced
  <1> HIDE DEF a, b, n, one, rhs
  <1>7. at + a \in 0..Len(one)
    BY <1>1, <1>6
  <1>8. lhs \in Seq(Char) /\ IsSpliced(lhs, one, at + a, right)
    BY <1>2, <1>7, SplicedText, Zenon
  <1> HIDE DEF lhs
  <1>9. /\ Len(lhs) = (n + a) + b
        /\ \A k \in 1..((n + a) + b) :
              lhs[k] = IF k <= at + a THEN one[k]
                       ELSE IF k <= (at + a) + b THEN right[k - (at + a)] ELSE one[k - b]
    BY <1>6, <1>8 DEF IsSpliced, b
  <1>10. /\ Len(rhs) = n + (a + b)
         /\ \A k \in 1..(n + (a + b)) :
               rhs[k] = IF k <= at THEN text[k]
                        ELSE IF k <= at + (a + b) THEN both[k - at] ELSE text[k - (a + b)]
    BY <1>3, <1>5 DEF IsSpliced, n
  <1>11. ASSUME NEW k \in 1..(n + (a + b)) PROVE lhs[k] = rhs[k]
    <2>1. CASE k <= at
      BY <2>1, <1>1, <1>6, <1>9, <1>10
    <2>2. CASE k > at /\ k <= at + a
      <3>1. k - at \in 1..(a + b) /\ k - at <= a
        BY <2>2, <1>1
      <3>2. both[k - at] = left[k - at]
        BY <3>1, <1>4
      <3> QED  BY <2>2, <3>2, <1>1, <1>6, <1>9, <1>10
    <2>3. CASE k > at + a /\ k <= at + a + b
      <3>1. k - at \in 1..(a + b) /\ ~(k - at <= a) /\ (k - at) - a = k - (at + a)
        BY <2>3, <1>1
      <3>2. both[k - at] = right[k - (at + a)]
        BY <3>1, <1>4
      <3>3. lhs[k] = right[k - (at + a)]
        BY <2>3, <1>1, <1>9
      <3>4. rhs[k] = both[k - at]
        BY <2>3, <1>1, <1>10
      <3> QED  BY <3>2, <3>3, <3>4
    <2>4. CASE k > at + a + b
      <3>1. /\ k - b \in 1..(n + a) /\ ~(k - b <= at) /\ ~(k - b <= at + a)
            /\ (k - b) - a = k - (a + b)
        BY <2>4, <1>1
      <3>2. one[k - b] = text[k - (a + b)]
        BY <3>1, <1>6
      <3> QED  BY <2>4, <3>2, <1>1, <1>9, <1>10
    <2> QED  BY <2>1, <2>2, <2>3, <2>4, <1>1
  <1>12. Len(lhs) = n + (a + b) /\ Len(rhs) = n + (a + b)
    BY <1>1, <1>9, <1>10
  <1>13. lhs = rhs
    BY <1>5, <1>8, <1>11, <1>12, SameText
  <1> QED  BY <1>7, <1>13 DEF lhs, rhs, one, a, both

LEMMA SplicedNothing ==
  ASSUME NEW text \in Seq(Char), NEW none \in Seq(Char), Len(none) = 0,
         NEW at \in 0..Len(text)
  PROVE  Spliced(text, at, none) = text
  <1> DEFINE new == Spliced(text, at, none)
  <1>1. new \in Seq(Char) /\ IsSpliced(new, text, at, none)
    BY SplicedText, Zenon
  <1>2. Len(text) \in Nat
    BY LenProperties
  <1> HIDE DEF new
  <1>3. Len(new) = Len(text) /\ \A k \in 1..Len(text) : new[k] = text[k]
    BY <1>1, <1>2 DEF IsSpliced
  <1>4. new = text
    BY <1>1, <1>3, SameText
  <1> QED  BY <1>4 DEF new

IsConcat(all, one, two) ==
    /\ Len(all) = Len(one) + Len(two)
    /\ \A k \in 1..(Len(one) + Len(two)) :
          all[k] = IF k <= Len(one) THEN one[k] ELSE two[k - Len(one)]

LEMMA ConcatIs ==
  ASSUME NEW one \in Seq(Char), NEW two \in Seq(Char)
  PROVE  one \o two \in Seq(Char) /\ IsConcat(one \o two, one, two)
  BY ConcatProperties DEF IsConcat

(* The parts of a text with another one between them. *)
LEMMA PartsAround ==
  ASSUME NEW part \in Seq(Char), NEW new \in Seq(Char), NEW left \in Seq(Char), NEW right \in Seq(Char),
         NEW r, Around(part, left, right, r, 0)
  PROVE  (left \o new) \o right = Spliced(part, r, new)
  <1> DEFINE a == Len(part)
             b == Len(new)
             front == left \o new
             all == front \o right
             both == Spliced(part, r, new)
  <1>1. a \in Nat /\ b \in Nat /\ r \in Nat /\ r <= a
    BY LenProperties DEF Around
  <1>2. /\ front \in Seq(Char) /\ Len(front) = r + b
        /\ \A k \in 1..(r + b) : front[k] = IF k <= r THEN left[k] ELSE new[k - r]
    <2>1. front \in Seq(Char) /\ IsConcat(front, left, new)
      BY ConcatIs, Zenon
    <2>2. Len(left) = r
      BY <1>1 DEF Around
    <2> HIDE DEF front
    <2>3. IsConcat(front, left, new) =>
             /\ Len(front) = r + b
             /\ \A k \in 1..(r + b) : front[k] = IF k <= r THEN left[k] ELSE new[k - r]
      BY <2>2, Zenon DEF IsConcat
    <2> QED  BY <2>1, <2>3
  <1> HIDE DEF front
  <1>14. front \in Seq(Char) /\ Len(front) = r + b
    BY <1>2
  <1>15. all \in Seq(Char) /\ IsConcat(all, front, right)
    BY <1>14, ConcatIs, Zenon
  <1>10. /\ all \in Seq(Char) /\ Len(all) = Len(front) + Len(right)
         /\ \A k \in 1..(Len(front) + Len(right)) :
               all[k] = IF k <= Len(front) THEN front[k] ELSE right[k - Len(front)]
    BY <1>15 DEF IsConcat
  <1>11. Len(front) = r + b /\ Len(right) = a - r
    BY <1>14, <1>1 DEF Around
  <1> HIDE DEF all, a
  <1>3. /\ all \in Seq(Char) /\ Len(all) = (r + b) + (a - r)
        /\ \A k \in 1..((r + b) + (a - r)) :
              all[k] = IF k <= r + b THEN front[k] ELSE right[k - (r + b)]
    BY <1>10, <1>11
  <1> USE DEF a
  <1>16. r \in 0..Len(part)
    BY <1>1
  <1>4. both \in Seq(Char) /\ IsSpliced(both, part, r, new)
    BY <1>16, SplicedText, Zenon
  <1>5. /\ Len(both) = a + b
        /\ \A k \in 1..(a + b) :
              both[k] = IF k <= r THEN part[k] ELSE IF k <= r + b THEN new[k - r] ELSE part[k - b]
    BY <1>4 DEF IsSpliced
  <1>6. (\A k \in 1..r : left[k] = part[k]) /\ (\A k \in 1..(a - r) : right[k] = part[r + k])
    BY <1>1 DEF Around, PartAt
  <1> HIDE DEF all, both, a, b
  <1>7. (r + b) + (a - r) = a + b
    BY <1>1
  <1>8. ASSUME NEW k \in 1..(a + b) PROVE all[k] = both[k]
    <2>1. all[k] = IF k <= r + b THEN front[k] ELSE right[k - (r + b)]
      BY <1>3, <1>7
    <2>2. CASE k <= r
      <3>1. k \in 1..(r + b) /\ k \in 1..r /\ k <= r + b
        BY <2>2, <1>1
      <3> QED  BY <2>1, <2>2, <3>1, <1>2, <1>5, <1>6
    <2>3. CASE k > r /\ k <= r + b
      <3>1. k \in 1..(r + b) /\ ~(k <= r)
        BY <2>3, <1>1
      <3> QED  BY <2>1, <2>3, <3>1, <1>2, <1>5
    <2>4. CASE k > r + b
      <3>1. k - (r + b) \in 1..(a - r) /\ r + (k - (r + b)) = k - b /\ ~(k <= r) /\ ~(k <= r + b)
        BY <2>4, <1>1
      <3>2. right[k - (r + b)] = part[k - b]
        BY <3>1, <1>6
      <3> QED  BY <2>1, <3>1, <3>2, <1>5
    <2> QED  BY <2>2, <2>3, <2>4, <1>1
  <1>9. all = both
    BY <1>3, <1>4, <1>5, <1>7, <1>8, SameText
  <1> QED  BY <1>9 DEF all, both, front

LEMMA PartsWithout ==
  ASSUME NEW part \in Seq(Char), NEW left \in Seq(Char), NEW right \in Seq(Char),
         NEW r, NEW count, Around(part, left, right, r, count)
  PROVE  left \o right = Cut(part, r, count)
  <1> DEFINE a == Len(part)
             all == left \o right
             less == Cut(part, r, count)
  <1>1. a \in Nat /\ r + count <= a /\ r \in Nat /\ count \in Nat /\ r + count <= Len(part)
    BY LenProperties DEF Around
  <1>9. /\ all \in Seq(Char) /\ Len(all) = Len(left) + Len(right)
        /\ \A k \in 1..(Len(left) + Len(right)) :
              all[k] = IF k <= Len(left) THEN left[k] ELSE right[k - Len(left)]
    BY ConcatProperties
  <1>10. Len(left) = r /\ Len(right) = a - (r + count)
    BY DEF Around
  <1> HIDE DEF all, a
  <1>2. /\ all \in Seq(Char) /\ Len(all) = r + (a - (r + count))
        /\ \A k \in 1..(r + (a - (r + count))) :
              all[k] = IF k <= r THEN left[k] ELSE right[k - r]
    BY <1>9, <1>10
  <1> USE DEF a
  <1>3. less \in Seq(Char) /\ IsCut(less, part, r, count)
    BY <1>1, CutText, Zenon
  <1>4. /\ Len(less) = a - count
        /\ \A k \in 1..(a - count) : less[k] = IF k <= r THEN part[k] ELSE part[k + count]
    BY <1>3 DEF IsCut
  <1>5. /\ \A k \in 1..r : left[k] = part[k]
        /\ \A k \in 1..(a - (r + count)) : right[k] = part[(r + count) + k]
    BY <1>1 DEF Around, PartAt
  <1> HIDE DEF all, less, a
  <1>6. r + (a - (r + count)) = a - count
    BY <1>1
  <1>7. ASSUME NEW k \in 1..(a - count) PROVE all[k] = less[k]
    <2>1. all[k] = IF k <= r THEN left[k] ELSE right[k - r]
      BY <1>2, <1>6
    <2>2. CASE k <= r
      <3>1. k \in 1..r
        BY <2>2, <1>1
      <3> QED  BY <2>1, <2>2, <3>1, <1>4, <1>5
    <2>3. CASE k > r
      <3>1. k - r \in 1..(a - (r + count)) /\ (r + count) + (k - r) = k + count /\ ~(k <= r)
        BY <2>3, <1>1
      <3>2. right[k - r] = part[k + count]
        BY <3>1, <1>5
      <3> QED  BY <2>1, <3>1, <3>2, <1>4
    <2> QED  BY <2>2, <2>3, <1>1
  <1>8. all = less
    BY <1>2, <1>3, <1>4, <1>6, <1>7, SameText
  <1> QED  BY <1>8 DEF all, less

(* A part that is cut out and put back in three pieces. *)
LEMMA SplitText ==
  ASSUME NEW text \in Seq(Char), NEW part \in Seq(Char), NEW new \in Seq(Char),
         NEW left \in Seq(Char), NEW right \in Seq(Char),
         NEW at \in Nat, PartAt(text, at, part),
         NEW r, Around(part, left, right, r, 0)
  PROVE  Spliced(Spliced(Spliced(Cut(text, at, Len(part)), at, left), at + r, new),
                 (at + r) + Len(new), right)
           = Spliced(text, at + r, new)
  <1> DEFINE rest == Cut(text, at, Len(part))
             front == left \o new
  <1>1. Len(text) \in Nat /\ Len(part) \in Nat /\ Len(new) \in Nat
    BY LenProperties
  <1>2. rest \in Seq(Char) /\ IsCut(rest, text, at, Len(part))
    BY <1>1, CutText, Zenon DEF PartAt
  <1>3. at \in 0..Len(rest)
    BY <1>1, <1>2 DEF IsCut, PartAt
  <1>4. front \in Seq(Char) /\ IsConcat(front, left, new)
    BY ConcatIs, Zenon
  <1>5. at + Len(left) = at + r /\ at + Len(front) = (at + r) + Len(new)
    BY <1>1, <1>4 DEF IsConcat, Around
  <1>6. front \o right = Spliced(part, r, new)
    BY PartsAround
  <1>10. r \in 0..Len(part)
    BY <1>1 DEF Around
  <1>7. Spliced(rest, at, Spliced(part, r, new)) = Spliced(text, at + r, new)
    BY <1>10, PartSpliced
  <1> HIDE DEF rest
  <1>8. /\ Spliced(Spliced(rest, at, left), at + Len(left), new) = Spliced(rest, at, front)
        /\ at + Len(left) \in 0..Len(Spliced(rest, at, left))
    BY <1>2, <1>3, SplicedBehind
  <1> HIDE DEF front
  <1>9. /\ Spliced(Spliced(rest, at, front), at + Len(front), right) = Spliced(rest, at, front \o right)
        /\ at + Len(front) \in 0..Len(Spliced(rest, at, front))
    BY <1>2, <1>3, <1>4, SplicedBehind
  <1> QED  BY <1>5, <1>6, <1>7, <1>8, <1>9, Zenon DEF rest

(* A part that is cut out and put back without its middle. *)
LEMMA MiddleCut ==
  ASSUME NEW text \in Seq(Char), NEW part \in Seq(Char),
         NEW left \in Seq(Char), NEW right \in Seq(Char),
         NEW at \in Nat, PartAt(text, at, part),
         NEW r, NEW count, Around(part, left, right, r, count)
  PROVE  Spliced(Spliced(Cut(text, at, Len(part)), at, left), at + r, right)
           = Cut(text, at + r, count)
  <1> DEFINE rest == Cut(text, at, Len(part))
             both == left \o right
  <1>1. Len(text) \in Nat /\ Len(part) \in Nat
    BY LenProperties
  <1>2. rest \in Seq(Char) /\ IsCut(rest, text, at, Len(part))
    BY <1>1, CutText, Zenon DEF PartAt
  <1>3. at \in 0..Len(rest)
    BY <1>1, <1>2 DEF IsCut, PartAt
  <1>4. both = Cut(part, r, count)
    BY PartsWithout
  <1>7. r \in Nat /\ count \in Nat /\ r + count <= Len(part) /\ at + Len(left) = at + r
    BY DEF Around
  <1>5. Spliced(rest, at, Cut(part, r, count)) = Cut(text, at + r, count)
    BY <1>7, PartCut
  <1> HIDE DEF rest
  <1>6. /\ Spliced(Spliced(rest, at, left), at + Len(left), right) = Spliced(rest, at, both)
        /\ at + Len(left) \in 0..Len(Spliced(rest, at, left))
    BY <1>2, <1>3, SplicedBehind
  <1> HIDE DEF both
  <1> QED  BY <1>4, <1>5, <1>6, <1>7, Zenon DEF rest

(* What is cut at one place in two turns. *)
LEMMA CutTwice ==
  ASSUME NEW text \in Seq(Char), NEW at \in Nat, NEW a \in Nat, NEW b \in Nat,
         at + a + b <= Len(text)
  PROVE  Cut(Cut(text, at, a), at, b) = Cut(text, at, a + b)
  <1> DEFINE n == Len(text)
             one == Cut(text, at, a)
             lhs == Cut(one, at, b)
             rhs == Cut(text, at, a + b)
  <1>1. n \in Nat /\ at + a <= n /\ a + b \in Nat /\ at + (a + b) <= n /\ at + a + b <= n
    BY LenProperties
  <1>2. one \in Seq(Char) /\ IsCut(one, text, at, a)
    BY <1>1, CutText, Zenon
  <1>3. rhs \in Seq(Char) /\ IsCut(rhs, text, at, a + b)
    BY <1>1, CutText, Zenon
  <1>4. /\ Len(one) = n - a
        /\ \A k \in 1..(n - a) : one[k] = IF k <= at THEN text[k] ELSE text[k + a]
    BY <1>2 DEF IsCut
  <1>5. /\ Len(rhs) = n - (a + b)
        /\ \A k \in 1..(n - (a + b)) : rhs[k] = IF k <= at THEN text[k] ELSE text[k + (a + b)]
    BY <1>3 DEF IsCut
  <1> HIDE DEF n, one, rhs
  <1>6. at + b <= Len(one)
    BY <1>1, <1>4
  <1>7. lhs \in Seq(Char) /\ IsCut(lhs, one, at, b)
    BY <1>2, <1>6, CutText, Zenon
  <1> HIDE DEF lhs
  <1>8. /\ Len(lhs) = (n - a) - b
        /\ \A k \in 1..((n - a) - b) : lhs[k] = IF k <= at THEN one[k] ELSE one[k + b]
    BY <1>4, <1>7 DEF IsCut
  <1>9. (n - a) - b = n - (a + b)
    BY <1>1
  <1>10. ASSUME NEW k \in 1..(n - (a + b)) PROVE lhs[k] = rhs[k]
    <2>1. lhs[k] = IF k <= at THEN one[k] ELSE one[k + b]
      BY <1>8, <1>9
    <2>2. /\ k \in 1..(n - a) /\ k + b \in 1..(n - a) /\ (k + b) + a = k + (a + b)
          /\ k > at => ~(k + b <= at)
      BY <1>1
    <2>3. CASE k <= at
      BY <2>1, <2>2, <2>3, <1>4, <1>5
    <2>4. CASE k > at
      <3>1. one[k + b] = text[k + (a + b)]
        BY <2>2, <2>4, <1>4
      <3> QED  BY <2>1, <2>4, <3>1, <1>1, <1>5, SMTT(30)
    <2> QED  BY <2>3, <2>4, <1>1
  <1>11. lhs = rhs
    BY <1>3, <1>5, <1>7, <1>8, <1>9, <1>10, SameText
  <1> QED  BY <1>11 DEF lhs, rhs, one

LEMMA CutNothing ==
  ASSUME NEW text \in Seq(Char), NEW at \in Nat, at <= Len(text)
  PROVE  Cut(text, at, 0) = text
  <1> DEFINE new == Cut(text, at, 0)
  <1>1. Len(text) \in Nat /\ at + 0 <= Len(text)
    BY LenProperties
  <1>2. new \in Seq(Char) /\ IsCut(new, text, at, 0)
    BY <1>1, CutText, Zenon
  <1> HIDE DEF new
  <1>3. Len(new) = Len(text) /\ \A k \in 1..Len(text) : new[k] = text[k]
    BY <1>1, <1>2 DEF IsCut
  <1>4. new = text
    BY <1>2, <1>3, SameText
  <1> QED  BY <1>4 DEF new

-----------------------------------------------------------------------------
(* The texts of parts, of two parts together, and of new pieces *)

LEMMA PartText ==
  ASSUME NEW buffers, BuffersOK(buffers), NEW piece \in Piece, PieceOK(buffers, piece),
         NEW i \in Nat, NEW j \in Nat, i <= j, j <= piece.length
  PROVE  LET part == PieceText(buffers, piece_range(buffers, piece, i, j))
         IN  /\ part \in Text /\ Len(part) = j - i
             /\ PartAt(PieceText(buffers, piece), i, part)
  <1> DEFINE buffer == buffer_at(buffers, piece.index)
             base == cursor_offset(buffer, piece.first)
             range == piece_range(buffers, piece, i, j)
             part == PieceText(buffers, range)
  <1>1. /\ WellFormed(buffer) /\ base \in Nat /\ piece.length \in Nat
    BY PieceRangeOf
  <1>2. range \in Piece /\ range.length = j - i /\ PieceOK(buffers, range)
    BY PieceRangeGood
  <1>3. range.index = piece.index /\ range.first = cursor_from_offset(buffer, base + i)
    BY DEF piece_range, PieceOf
  <1> HIDE DEF range, base, buffer
  <1>4. cursor_offset(buffer, range.first) = base + i
    BY <1>1, <1>3, CursorRoundTrip
  <1>5. part \in Text /\ Len(part) = j - i
    BY <1>2, PieceTextTyped
  <1>6. ASSUME NEW k \in 1..(j - i) PROVE part[k] = PieceText(buffers, piece)[i + k]
    <2>1. i + k \in 1..piece.length /\ (base + i) + k = base + (i + k)
      BY <1>1
    <2>2. part[k] = buffer.text[(base + i) + k]
      BY <1>2, <1>3, <1>4 DEF PieceText, buffer
    <2>3. PieceText(buffers, piece)[i + k] = buffer.text[base + (i + k)]
      BY <2>1 DEF PieceText, buffer, base
    <2> QED  BY <2>1, <2>2, <2>3
  <1>7. Len(PieceText(buffers, piece)) = piece.length
    BY PieceTextTyped
  <1> HIDE DEF part
  <1>8. PartAt(PieceText(buffers, piece), i, part)
    BY <1>1, <1>5, <1>6, <1>7 DEF PartAt
  <1> QED  BY <1>5, <1>8 DEF part, range

LEMMA CombinedText ==
  ASSUME NEW buffers, BuffersOK(buffers),
         NEW left, GoodPiece(buffers, left), left.index = ModBuf,
         NEW right, GoodPiece(buffers, right), right.index = ModBuf,
         left.last = right.first
  PROVE  PieceText(buffers, Combined(left, right))
           = Spliced(PieceText(buffers, left), left.length, PieceText(buffers, right))
  <1> DEFINE combined == Combined(left, right)
             buffer == buffer_at(buffers, ModBuf)
             i == cursor_offset(buffer, left.first)
             j == cursor_offset(buffer, right.first)
             a == left.length
             b == right.length
             L == PieceText(buffers, left)
             R == PieceText(buffers, right)
             both == Spliced(L, a, R)
             new == PieceText(buffers, combined)
  <1>1. /\ left \in Piece /\ PieceOK(buffers, left)
        /\ right \in Piece /\ PieceOK(buffers, right)
    BY DEF GoodPiece
  <1>2. i \in Nat /\ j \in Nat /\ a \in Nat /\ b \in Nat /\ j = i + a
    BY <1>1, PieceRangeOf
  <1>3. /\ L \in Text /\ Len(L) = a /\ R \in Text /\ Len(R) = b
    BY <1>1, PieceTextTyped
  <1>4. /\ GoodPiece(buffers, combined) /\ combined.length = a + b
    BY CombinedGood
  <1>5. combined.index = ModBuf /\ combined.first = left.first
    BY DEF Combined
  <1>6. new \in Text /\ Len(new) = a + b
    BY <1>4, PieceTextTyped DEF GoodPiece
  <1>7. a \in 0..Len(L)
    BY <1>2, <1>3
  <1>8. \A k \in 1..a : L[k] = buffer.text[i + k]
    BY DEF PieceText
  <1>9. \A k \in 1..b : R[k] = buffer.text[j + k]
    BY DEF PieceText
  <1>10. \A k \in 1..(a + b) : new[k] = buffer.text[i + k]
    <2> HIDE DEF combined
    <2> QED  BY <1>4, <1>5 DEF PieceText
  <1> HIDE DEF L, R, new, a, b, i, j, buffer
  <1>11. both \in Text /\ IsSpliced(both, L, a, R)
    BY <1>3, <1>7, SplicedText, Zenon DEF Text
  <1> HIDE DEF both
  <1>12. /\ Len(both) = a + b
         /\ \A k \in 1..(a + b) :
               both[k] = IF k <= a THEN L[k] ELSE IF k <= a + b THEN R[k - a] ELSE L[k - b]
    BY <1>3, <1>11 DEF IsSpliced
  <1>13. ASSUME NEW k \in 1..(a + b) PROVE new[k] = both[k]
    <2>1. CASE k <= a
      <3>1. k \in 1..a
        BY <2>1, <1>2
      <3> QED  BY <2>1, <3>1, <1>8, <1>10, <1>12
    <2>2. CASE k > a
      <3>1. k - a \in 1..b /\ ~(k <= a) /\ k <= a + b /\ j + (k - a) = i + k
        BY <2>2, <1>2
      <3>2. R[k - a] = buffer.text[i + k]
        BY <3>1, <1>9
      <3> QED  BY <3>1, <3>2, <1>10, <1>12
    <2> QED  BY <2>1, <2>2, <1>2
  <1>14. new = both
    BY <1>6, <1>11, <1>12, <1>13, SameText DEF Text
  <1> QED  BY <1>14 DEF new, both, L, R, a

LEMMA BuiltText ==
  ASSUME NEW buffers, BuffersOK(buffers), NEW text \in Text, text # << >>
  PROVE  PieceText(AppendText(buffers, text), build_piece(buffers, text)) = text
  <1> DEFINE now == AppendText(buffers, text)
             piece == build_piece(buffers, text)
             size == Len(buffers.mod.text)
             new == PieceText(now, piece)
  <1>1. /\ GoodPiece(now, piece) /\ piece.length = Len(text) /\ piece.index = ModBuf
        /\ BuffersOK(now)
    BY BuildPieceGood, AppendKeepsBuffers
  <1>2. now.mod = Extend(buffers.mod, text) /\ buffer_at(now, ModBuf) = now.mod
    BY DEF AppendText, BuffersOK, BufferCollection, buffer_at
  <1>3. WellFormed(buffers.mod) /\ WellFormed(now.mod) /\ size \in Nat /\ Len(text) \in Nat
    BY <1>1, ExtendWellFormed DEF BuffersOK
  <1>4. piece.first = cursor_from_offset(now.mod, size)
    BY DEF build_piece
  <1>5. cursor_offset(now.mod, piece.first) = size
    <2> HIDE DEF now, piece
    <2> QED  BY <1>3, <1>4, CursorRoundTrip
  <1>6. new \in Text /\ Len(new) = Len(text)
    BY <1>1, PieceTextTyped DEF GoodPiece
  <1>7. \A k \in 1..Len(text) : now.mod.text[size + k] = text[k]
    <2>1. now.mod.text = buffers.mod.text \o text
      BY <1>2 DEF Extend
    <2>2. buffers.mod.text \in Seq(Char) /\ text \in Seq(Char)
      BY <1>3 DEF WellFormed, CharBuffer, Text
    <2>3. \A k \in 1..(size + Len(text)) :
             now.mod.text[k] = IF k <= size THEN buffers.mod.text[k] ELSE text[k - size]
      BY <2>1, <2>2, ConcatProperties
    <2> HIDE DEF now, size
    <2>4. ASSUME NEW k \in 1..Len(text) PROVE now.mod.text[size + k] = text[k]
      <3>1. size + k \in 1..(size + Len(text)) /\ ~(size + k <= size) /\ (size + k) - size = k
        BY <1>3
      <3> QED  BY <2>3, <3>1
    <2> QED  BY <2>4
  <1>8. \A k \in 1..Len(text) : new[k] = now.mod.text[size + k]
    <2> HIDE DEF now, piece, size
    <2> QED  BY <1>1, <1>2, <1>5 DEF PieceText
  <1> HIDE DEF new, now, size
  <1>9. new = text
    BY <1>6, <1>7, <1>8, SameText DEF Text
  <1> QED  BY <1>9 DEF new, now

-----------------------------------------------------------------------------
(* The edits of a root as edits of its text *)

(* What a root has at one of its pieces. *)
LEMMA PartOfText ==
  ASSUME NEW buffers, BuffersOK(buffers), NEW root, NEW text, Reads(buffers, root, text),
         NEW s \in Starts(root)
  PROVE  LET part == PieceText(buffers, root.pieces[s])
         IN  /\ text \in Seq(Char) /\ part \in Seq(Char)
             /\ Len(part) = root.pieces[s].length
             /\ GoodPiece(buffers, root.pieces[s]) /\ root.pieces[s].length \in Nat
             /\ s \in Nat /\ PartAt(text, s, part)
  <1> DEFINE piece == root.pieces[s]
             part == PieceText(buffers, piece)
  <1>1. GoodRoot(buffers, root) /\ text = TextOf(buffers, root)
    BY DEF Reads
  <1>2. GoodPiece(buffers, piece) /\ piece.length \in Nat
    BY <1>1 DEF GoodRoot, TiledShape, Shape, Tiled, PiecesOK, GoodPiece, Piece
  <1>3. part \in Seq(Char) /\ Len(part) = piece.length
    BY <1>2, PieceTextTyped DEF GoodPiece, Text
  <1>4. text \in Seq(Char) /\ Len(text) = root.length
    BY <1>1, TextTyped DEF Text
  <1>5. s \in Nat /\ s + piece.length <= Len(text)
    BY <1>1, <1>4, RemoveReads
  <1>6. \A k \in 1..piece.length : text[s + k] = part[k]
    BY <1>1, CharOfPiece
  <1> HIDE DEF part, piece
  <1>7. PartAt(text, s, part)
    BY <1>3, <1>5, <1>6 DEF PartAt, part
  <1> QED  BY <1>2, <1>3, <1>4, <1>5, <1>7 DEF part, piece

LEMMA CoalesceReads ==
  ASSUME NEW buffers, BuffersOK(buffers), NEW root, NEW text, Reads(buffers, root, text),
         NEW piece, GoodPiece(buffers, piece), piece.index = ModBuf,
         NEW insert_at \in Nat, insert_at <= root.length,
         Continues(root, piece, insert_at)
  PROVE  Reads(buffers, Coalesce(root, piece, insert_at),
               Spliced(text, insert_at, PieceText(buffers, piece)))
  <1> DEFINE previous == find_node(root, insert_at - 1)
             start == previous.start_offset
             old == previous.piece
             combined == Combined(old, piece)
             removed == RemovePiece(root, start)
             part == PieceText(buffers, old)
             put == PieceText(buffers, piece)
             rest == Cut(text, start, old.length)
  <1>1. /\ root.length \in Nat /\ insert_at - 1 \in Nat /\ insert_at - 1 < root.length
        /\ TiledShape(root)
    BY DEF Reads, GoodRoot, TiledShape, Shape, Continues
  <1>2. start \in Starts(root) /\ old = root.pieces[start]
    BY <1>1, FindNode
  <1>3. old.index = ModBuf /\ old.last = piece.first /\ start + old.length = insert_at
    BY DEF Continues
  <1>4. Coalesce(root, piece, insert_at) = InsertPiece(removed, combined, start)
    BY DEF Coalesce
  <1> HIDE DEF previous
  <1>5. /\ text \in Seq(Char) /\ part \in Seq(Char) /\ Len(part) = old.length
        /\ GoodPiece(buffers, old) /\ old.length \in Nat
        /\ start \in Nat /\ PartAt(text, start, part)
    BY <1>2, PartOfText
  <1>6. /\ GoodPiece(buffers, combined)
        /\ PieceText(buffers, combined) = Spliced(part, old.length, put)
    BY <1>3, <1>5, CombinedGood, CombinedText
  <1>7. Reads(buffers, removed, rest) /\ Boundary(removed, start)
    BY <1>2, RemoveReads
  <1>8. put \in Seq(Char)
    BY PieceTextTyped DEF GoodPiece, Text
  <1> HIDE DEF combined, removed, start, old, part, put
  <1>9. Reads(buffers, InsertPiece(removed, combined, start),
              Spliced(rest, start, PieceText(buffers, combined)))
    BY <1>5, <1>6, <1>7, InsertReads, Zenon
  <1>10. old.length \in 0..Len(part)
    BY <1>5
  <1>11. Spliced(Cut(text, start, Len(part)), start, Spliced(part, old.length, put))
           = Spliced(text, start + old.length, put)
    BY <1>5, <1>8, <1>10, PartSpliced
  <1> QED  BY <1>3, <1>4, <1>5, <1>6, <1>9, <1>11, Zenon DEF put, old

LEMMA SplitAroundReads ==
  ASSUME NEW buffers, BuffersOK(buffers), NEW root, NEW text, Reads(buffers, root, text),
         NEW piece, GoodPiece(buffers, piece),
         NEW insert_at \in Nat, insert_at < root.length,
         find_node(root, insert_at).remainder # 0
  PROVE  Reads(buffers, SplitAround(buffers, root, piece, insert_at),
               Spliced(text, insert_at, PieceText(buffers, piece)))
  <1> DEFINE position == find_node(root, insert_at)
             start == position.start_offset
             old == position.piece
             r == position.remainder
             left == piece_range(buffers, old, 0, r)
             right == piece_range(buffers, old, r, old.length)
             removed == RemovePiece(root, start)
             withLeft == InsertPiece(removed, left, start)
             withNew == InsertPiece(withLeft, piece, start + left.length)
             new == InsertPiece(withNew, right, start + left.length + piece.length)
             part == PieceText(buffers, old)
             L == PieceText(buffers, left)
             put == PieceText(buffers, piece)
             R == PieceText(buffers, right)
             rest == Cut(text, start, old.length)
  <1>1. /\ start \in Starts(root) /\ old = root.pieces[start]
        /\ r \in Nat /\ r < old.length /\ r = insert_at - start
    BY FindNode DEF Reads, GoodRoot
  <1>2. SplitAround(buffers, root, piece, insert_at) = new
    BY DEF SplitAround
  <1>3. r > 0
    BY <1>1
  <1> HIDE DEF position
  <1>4. /\ text \in Seq(Char) /\ part \in Seq(Char) /\ Len(part) = old.length
        /\ GoodPiece(buffers, old) /\ old.length \in Nat
        /\ start \in Nat /\ PartAt(text, start, part)
    BY <1>1, PartOfText
  <1>9. Reads(buffers, removed, rest) /\ Boundary(removed, start)
    BY <1>1, RemoveReads
  <1>10. put \in Seq(Char) /\ Len(put) = piece.length /\ piece.length \in Nat
    BY PieceTextTyped DEF GoodPiece, Text, Piece
  <1> HIDE DEF start, old, r
  <1>5. old \in Piece /\ PieceOK(buffers, old) /\ old.length \in Nat /\ 0 <= r /\ r <= old.length
        /\ 0 \in Nat /\ old.length <= old.length
    BY <1>1, <1>4 DEF GoodPiece
  <1>6. /\ left \in Piece /\ PieceOK(buffers, left) /\ left.length = r - 0
        /\ right \in Piece /\ PieceOK(buffers, right) /\ right.length = old.length - r
    BY <1>1, <1>5, PieceRangeGood
  <1>7. L \in Text /\ Len(L) = r - 0 /\ PartAt(part, 0, L)
    BY <1>1, <1>5, PartText
  <1>8. R \in Text /\ Len(R) = old.length - r /\ PartAt(part, r, R)
    BY <1>1, <1>5, PartText, ZenonT(30)
  <1> HIDE DEF left, right, removed, part, put, L, R
  <1>11. /\ left.length = r /\ GoodPiece(buffers, left) /\ GoodPiece(buffers, right)
         /\ start + left.length \in Nat /\ start + left.length + piece.length \in Nat
    <2>1. r - 0 = r /\ old.length - r > 0
      BY <1>1, <1>5
    <2>2. left.length = r /\ GoodPiece(buffers, left) /\ GoodPiece(buffers, right)
      BY <2>1, <1>3, <1>6 DEF GoodPiece
    <2>3. start \in Nat /\ r \in Nat /\ piece.length \in Nat
      BY <1>1, <1>4, <1>10
    <2> QED  BY <2>2, <2>3
  <1>12. L \in Seq(Char) /\ R \in Seq(Char) /\ Around(part, L, R, r, 0)
    BY <1>1, <1>4, <1>5, <1>7, <1>8 DEF Text, Around
  <1>13. /\ Reads(buffers, withLeft, Spliced(rest, start, L))
         /\ start \in 0..Len(rest)
         /\ Boundary(withLeft, start + left.length)
    BY <1>4, <1>9, <1>11, InsertReads DEF L
  <1> HIDE DEF withLeft
  <1>14. /\ Reads(buffers, withNew, Spliced(Spliced(rest, start, L), start + left.length, put))
         /\ Boundary(withNew, start + left.length + piece.length)
    BY <1>11, <1>13, InsertReads DEF put
  <1> HIDE DEF withNew
  <1>15. Reads(buffers, new, Spliced(Spliced(Spliced(rest, start, L), start + left.length, put),
                                     start + left.length + piece.length, R))
    BY <1>11, <1>14, InsertReads DEF R
  <1> HIDE DEF new
  <1>16. Spliced(Spliced(Spliced(Cut(text, start, Len(part)), start, L), start + r, put),
                 (start + r) + Len(put), R)
           = Spliced(text, start + r, put)
    BY <1>4, <1>10, <1>12, SplitText
  <1>17. start + r = insert_at
    BY <1>1, <1>4
  <1> QED  BY <1>2, <1>4, <1>10, <1>11, <1>15, <1>16, <1>17, Zenon DEF put, rest

(* An insertion into a root is one into its text. *)
LEMMA InternalInsertReads ==
  ASSUME NEW buffers, BuffersOK(buffers), NEW root, NEW text, Reads(buffers, root, text),
         NEW piece, GoodPiece(buffers, piece), piece.index = ModBuf,
         NEW insert_at \in Nat, insert_at <= root.length
  PROVE  Reads(buffers, internal_insert(buffers, root, piece, insert_at),
               Spliced(text, insert_at, PieceText(buffers, piece)))
  <1>1. CASE Continues(root, piece, insert_at)
    BY <1>1, CoalesceReads DEF internal_insert
  <1>2. CASE /\ ~Continues(root, piece, insert_at)
             /\ insert_at = root.length \/ find_node(root, insert_at).remainder = 0
    <2>1. Boundary(root, insert_at)
      <3>1. CASE insert_at = root.length
        BY <3>1 DEF Boundary
      <3>2. CASE insert_at # root.length
        <4>1. insert_at < root.length /\ TiledShape(root) /\ Starts(root) \subseteq Nat
          BY <3>2 DEF Reads, GoodRoot, TiledShape, Shape
        <4>2. insert_at = find_node(root, insert_at).start_offset
          BY <1>2, <3>2, <4>1, FindNode
        <4> QED  BY <4>1, <4>2, FindNode DEF Boundary
      <3> QED  BY <3>1, <3>2
    <2> QED  BY <1>2, <2>1, InsertReads DEF internal_insert
  <1>3. CASE /\ ~Continues(root, piece, insert_at)
             /\ ~(insert_at = root.length \/ find_node(root, insert_at).remainder = 0)
    <2>1. insert_at < root.length
      BY <1>3 DEF Reads, GoodRoot, TiledShape, Shape
    <2> QED  BY <1>3, <2>1, SplitAroundReads DEF internal_insert
  <1> QED  BY <1>1, <1>2, <1>3

-----------------------------------------------------------------------------
(* Removals *)

(* A part that is put back, or is empty. *)
LEMMA PutBackReads ==
  ASSUME NEW buffers, BuffersOK(buffers), NEW root, NEW text, Reads(buffers, root, text),
         NEW part, part \in Piece, PieceOK(buffers, part),
         NEW at \in Nat, Boundary(root, at)
  PROVE  LET new == PutBack(root, part, at)
         IN  /\ Reads(buffers, new, Spliced(text, at, PieceText(buffers, part)))
             /\ Boundary(new, at + part.length)
  <1> DEFINE new == PutBack(root, part, at)
             put == PieceText(buffers, part)
  <1>1. part.length \in Nat /\ put \in Seq(Char) /\ Len(put) = part.length
    BY PieceTextTyped DEF Text, Piece
  <1>2. CASE part.length # 0
    <2>1. GoodPiece(buffers, part)
      BY <1>1, <1>2 DEF GoodPiece
    <2>2. new = InsertPiece(root, part, at)
      BY <1>2 DEF PutBack
    <2> QED  BY <2>1, <2>2, InsertReads
  <1>3. CASE part.length = 0
    <2>1. new = root /\ at + part.length = at
      BY <1>3 DEF PutBack
    <2>2. text \in Seq(Char) /\ Len(text) = root.length /\ root.length \in Nat
      BY TextTyped DEF Reads, Text
    <2>3. at \in 0..Len(text)
      <3>1. CASE at = root.length
        BY <3>1, <2>2
      <3>2. CASE at \in Starts(root)
        <4>1. at + Len(PieceText(buffers, root.pieces[at])) <= Len(text)
              /\ PieceText(buffers, root.pieces[at]) \in Seq(Char)
          BY <3>2, PartOfText DEF PartAt
        <4>2. Len(PieceText(buffers, root.pieces[at])) \in Nat
          BY <4>1, LenProperties
        <4> QED  BY <4>1, <4>2, <2>2
      <3> QED  BY <3>1, <3>2 DEF Boundary
    <2>4. Spliced(text, at, put) = text
      BY <1>1, <1>3, <2>2, <2>3, SplicedNothing
    <2> QED  BY <2>1, <2>4
  <1> QED  BY <1>2, <1>3, <1>1

(* A turn removes from the text what it takes off the count. *)
Takes(buffers, turn, text, offset, remaining) ==
    \E taken \in 1..remaining :
        /\ Reads(buffers, turn.root, Cut(text, offset, taken))
        /\ turn.remaining = remaining - taken

LEMMA RemoveTurnReads ==
  ASSUME NEW buffers, BuffersOK(buffers), NEW root, NEW text, Reads(buffers, root, text),
         NEW offset \in Nat, NEW remaining \in Nat, remaining > 0,
         offset + remaining <= root.length
  PROVE  Takes(buffers, RemoveTurn(buffers, root, offset, remaining), text, offset, remaining)
  <1> DEFINE position == find_node(root, offset)
             start == position.start_offset
             old == position.piece
             first == position.remainder
             available == old.length - first
             remove_now == IF remaining < available THEN remaining ELSE available
             left == piece_range(buffers, old, 0, first)
             right == piece_range(buffers, old, first + remove_now, old.length)
             removed == RemovePiece(root, start)
             withLeft == PutBack(removed, left, start)
             withRight == PutBack(withLeft, right, start + left.length)
             turn == RemoveTurn(buffers, root, offset, remaining)
             part == PieceText(buffers, old)
             L == PieceText(buffers, left)
             R == PieceText(buffers, right)
             rest == Cut(text, start, old.length)
  <1>1. offset < root.length /\ root.length \in Nat
    BY DEF Reads, GoodRoot, TiledShape, Shape
  <1>2. /\ start \in Starts(root) /\ old = root.pieces[start]
        /\ first \in Nat /\ first < old.length /\ first = offset - start
    BY <1>1, FindNode DEF Reads, GoodRoot
  <1>3. turn.root = withRight /\ turn.remaining = remaining - remove_now
    BY DEF RemoveTurn
  <1> HIDE DEF position, turn
  <1>4. /\ text \in Seq(Char) /\ part \in Seq(Char) /\ Len(part) = old.length
        /\ GoodPiece(buffers, old) /\ old.length \in Nat
        /\ start \in Nat /\ PartAt(text, start, part)
    BY <1>2, PartOfText
  <1>5. Reads(buffers, removed, rest) /\ Boundary(removed, start)
    BY <1>2, RemoveReads
  <1> HIDE DEF start, old, first
  <1>6. /\ remove_now \in 1..remaining
        /\ first + remove_now \in Nat /\ first + remove_now <= old.length
        /\ remove_now \in Nat
    BY <1>2, <1>4
  <1> HIDE DEF remove_now
  <1>7. old \in Piece /\ PieceOK(buffers, old) /\ 0 <= first /\ first <= old.length
        /\ 0 \in Nat /\ old.length <= old.length
    BY <1>2, <1>4 DEF GoodPiece
  <1>8. left \in Piece /\ PieceOK(buffers, left) /\ left.length = first - 0
    BY <1>2, <1>7, PieceRangeGood
  <1>9. right \in Piece /\ PieceOK(buffers, right)
    BY <1>4, <1>6, <1>7, PieceRangeGood
  <1>10. L \in Text /\ Len(L) = first - 0 /\ PartAt(part, 0, L)
    BY <1>2, <1>7, PartText
  <1>11. R \in Text /\ Len(R) = old.length - (first + remove_now) /\ PartAt(part, first + remove_now, R)
    BY <1>4, <1>6, <1>7, PartText
  <1> HIDE DEF left, right, removed, part, L, R
  <1>12. first - 0 = first /\ start + first = offset /\ start + left.length = start + first
    BY <1>2, <1>4, <1>8
  <1>13. L \in Seq(Char) /\ R \in Seq(Char) /\ Around(part, L, R, first, remove_now)
    BY <1>2, <1>4, <1>6, <1>10, <1>11, <1>12 DEF Text, Around
  <1>14. /\ Reads(buffers, withLeft, Spliced(rest, start, L))
         /\ Boundary(withLeft, start + left.length)
    BY <1>4, <1>5, <1>8, PutBackReads DEF L
  <1> HIDE DEF withLeft
  <1>15. start + left.length \in Nat
    BY <1>12
  <1>16. Reads(buffers, withRight, Spliced(Spliced(rest, start, L), start + left.length, R))
    BY <1>9, <1>14, <1>15, PutBackReads DEF R
  <1> HIDE DEF withRight
  <1>17. Spliced(Spliced(Cut(text, start, Len(part)), start, L), start + first, R)
           = Cut(text, start + first, remove_now)
    BY <1>4, <1>13, MiddleCut
  <1>18. Reads(buffers, withRight, Cut(text, offset, remove_now))
    BY <1>4, <1>12, <1>16, <1>17, Zenon DEF rest
  <1> QED  BY <1>3, <1>6, <1>18 DEF turn, Takes

(* A removal from a root is one from its text. *)
LEMMA InternalRemoveReads ==
  ASSUME NEW buffers, BuffersOK(buffers), NEW root, NEW text, Reads(buffers, root, text),
         NEW offset \in Nat, NEW count \in Nat, offset + count <= root.length
  PROVE  Reads(buffers, internal_remove(buffers, root, offset, count), Cut(text, offset, count))
  <1> DEFINE loop == RemoveLoop(buffers, root, offset, count)
             Inv(k) == \E gone \in 0..count :
                          /\ Reads(buffers, loop[k].root, Cut(text, offset, gone))
                          /\ loop[k].remaining = count - gone
                          /\ gone < k => gone = count
             S == {k \in Nat : k <= count => Inv(k)}
  <1>1. text \in Seq(Char) /\ Len(text) = root.length /\ root.length \in Nat
    BY TextTyped DEF Reads, Text
  <1>2. /\ loop[0] = [root |-> root, remaining |-> count]
        /\ \A k \in 1..count : loop[k] = NextTurn(buffers, offset, loop[k - 1])
    BY RemoveLoopTurns
  <1> HIDE DEF loop
  <1>3. 0 \in S
    <2>1. Cut(text, offset, 0) = text
      BY <1>1, CutNothing
    <2>2. /\ Reads(buffers, loop[0].root, Cut(text, offset, 0))
          /\ loop[0].remaining = count - 0 /\ 0 \in 0..count
      BY <1>2, <2>1
    <2>3. Inv(0)
      BY <2>2
    <2> QED  BY <2>3
  <1>4. ASSUME NEW k \in Nat, k \in S PROVE k + 1 \in S
    <2> SUFFICES ASSUME k + 1 <= count PROVE Inv(k + 1)
      OBVIOUS
    <2> DEFINE now == loop[k]
               next == loop[k + 1]
    <2>1. PICK gone \in 0..count :
             /\ Reads(buffers, now.root, Cut(text, offset, gone))
             /\ now.remaining = count - gone
             /\ gone < k => gone = count
      BY <1>4
    <2>2. next = NextTurn(buffers, offset, now)
      BY <1>2
    <2> HIDE DEF now, next
    <2>3. CASE gone < count
      <3>1. /\ now.remaining \in Nat /\ now.remaining > 0
            /\ offset + gone <= Len(text) /\ gone \in Nat
        BY <2>1, <2>3, <1>1
      <3>2. Cut(text, offset, gone) \in Text /\ Len(Cut(text, offset, gone)) = Len(text) - gone
        <4>1. Cut(text, offset, gone) \in Seq(Char) /\ IsCut(Cut(text, offset, gone), text, offset, gone)
          BY <3>1, <1>1, CutText, Zenon
        <4> QED  BY <4>1 DEF IsCut, Text
      <3>3. Len(Cut(text, offset, gone)) = now.root.length
        BY <2>1, TextTyped DEF Reads
      <3>4. offset + now.remaining <= now.root.length
        BY <2>1, <2>3, <3>1, <3>2, <3>3, <1>1
      <3>5. PICK taken \in 1..now.remaining :
               /\ Reads(buffers, next.root, Cut(Cut(text, offset, gone), offset, taken))
               /\ next.remaining = now.remaining - taken
        <4>1. next = RemoveTurn(buffers, now.root, offset, now.remaining)
          BY <2>2, <3>1 DEF NextTurn
        <4>2. Reads(buffers, now.root, Cut(text, offset, gone))
          BY <2>1
        <4>3. Takes(buffers, RemoveTurn(buffers, now.root, offset, now.remaining),
                    Cut(text, offset, gone), offset, now.remaining)
          BY <4>2, <3>1, <3>4, RemoveTurnReads
        <4> QED  BY <4>1, <4>3, Zenon DEF Takes
      <3>6. taken \in Nat /\ offset + gone + taken <= Len(text) /\ gone + taken \in 0..count
            /\ next.remaining = count - (gone + taken)
            /\ (gone + taken < k + 1 => gone + taken = count)
        <4>1. taken \in Nat /\ 1 <= taken /\ taken <= count - gone
          BY <2>1, <3>1, <3>5
        <4>2. /\ next.remaining = (count - gone) - taken
              /\ gone < k => gone = count
          BY <2>1, <3>5
        <4> HIDE DEF Inv
        <4> QED  BY <4>1, <4>2, <2>3, <3>1, <1>1
      <3>7. Cut(Cut(text, offset, gone), offset, taken) = Cut(text, offset, gone + taken)
        BY <3>1, <3>6, <1>1, CutTwice
      <3> QED  BY <3>5, <3>6, <3>7 DEF next
    <2>4. CASE gone = count
      <3>1. next = now
        BY <2>1, <2>2, <2>4 DEF NextTurn
      <3> QED  BY <3>1, <2>1, <2>4 DEF next
    <2> QED  BY <2>3, <2>4
  <1> HIDE DEF S
  <1>5. Nat \subseteq S
    BY <1>3, <1>4, SetInduction
  <1>6. Inv(count)
    BY <1>5 DEF S
  <1>7. PICK gone \in 0..count :
           /\ Reads(buffers, loop[count].root, Cut(text, offset, gone))
           /\ gone < count => gone = count
    BY <1>6
  <1>8. gone = count
    BY <1>7
  <1>9. internal_remove(buffers, root, offset, count) = loop[count].root
    BY DEF internal_remove, loop
  <1> QED  BY <1>7, <1>8, <1>9

-----------------------------------------------------------------------------
(* Roots over buffers that have grown, and the pieces made of new text *)

LEMMA AppendKeepsReads ==
  ASSUME NEW buffers, BuffersOK(buffers), NEW new \in Text,
         NEW root, NEW text, Reads(buffers, root, text)
  PROVE  Reads(AppendText(buffers, new), root, text)
  BY AppendKeepsGood, AppendKeepsText DEF Reads

LEMMA AddKeepsReads ==
  ASSUME NEW buffers, BuffersOK(buffers), NEW new \in Text,
         NEW root, NEW text, Reads(buffers, root, text)
  PROVE  Reads(AddBuffer(buffers, new), root, text)
  BY AddKeepsGood DEF Reads

LEMMA WholeText ==
  ASSUME NEW buffers, BuffersOK(buffers), NEW text \in Text, text # << >>
  PROVE  LET now   == AddBuffer(buffers, text)
             index == Len(buffers.orig) + 1
             piece == [index         |-> index,
                       first         |-> [line |-> 0, column |-> 0],
                       last          |-> cursor_from_offset(now.orig[index], Len(text)),
                       length        |-> Len(text),
                       newline_count |-> Cardinality(now.orig[index].line_starts) - 1]
         IN  PieceText(now, piece) = text
  <1> DEFINE now == AddBuffer(buffers, text)
             index == Len(buffers.orig) + 1
             buffer == NewBuffer(text)
             size == Len(text)
             piece == [index         |-> index,
                       first         |-> [line |-> 0, column |-> 0],
                       last          |-> cursor_from_offset(now.orig[index], size),
                       length        |-> size,
                       newline_count |-> Cardinality(now.orig[index].line_starts) - 1]
             new == PieceText(now, piece)
  <1>1. GoodPiece(now, piece)
    BY WholeBufferGood
  <1>2. /\ BuffersOK(now) /\ buffer_at(now, index) = buffer
        /\ buffer.text = text /\ WellFormed(buffer)
    BY AddKeepsBuffers, NewBufferWellFormed DEF NewBuffer
  <1>3. /\ piece.index = index /\ piece.length = size
        /\ piece.first = [line |-> 0, column |-> 0]
    OBVIOUS
  <1> HIDE DEF now, index, buffer, piece, size
  <1>4. new \in Text /\ Len(new) = size
    BY <1>1, <1>2, <1>3, PieceTextTyped DEF GoodPiece
  <1>5. cursor_offset(buffer, piece.first) = 0
    <2>1. size \in Nat
      BY LenProperties DEF size, Text
    <2>2. LastStart(buffer, 0, 0)
      BY <1>2, <2>1, StartsFinite DEF LastStart
    <2>3. LineStart(buffer, 0) = 0
      <3>1. StartsUpTo(buffer, 0) = {0}
        BY <1>2, StartsFinite DEF StartsUpTo
      <3>2. Cardinality(StartsUpTo(buffer, 0)) = 1
        BY <3>1, FS_Singleton
      <3>3. \A n : line_start_index(buffer, n) = Cardinality(StartsUpTo(buffer, n)) - 1
        BY Zenon DEF line_start_index, StartsUpTo
      <3>4. line_start_index(buffer, 0) = 1 - 1
        BY <3>2, <3>3, Zenon
      <3> QED  BY <1>2, <2>2, <3>4, LineStartOfIndex
    <2> QED  BY <1>3, <2>3 DEF cursor_offset
  <1>6. ASSUME NEW k \in 1..size PROVE new[k] = text[k]
    <2>1. new[k] = buffer.text[0 + k]
      BY <1>2, <1>3, <1>5 DEF PieceText
    <2> QED  BY <1>2, <2>1
  <1> HIDE DEF new
  <1>7. new = text
    BY <1>4, <1>6, SameText DEF Text, size
  <1> QED  BY <1>7 DEF new, piece, now, index, size

(* Behind the end, inserting is joining. *)
LEMMA SplicedAtEnd ==
  ASSUME NEW text \in Seq(Char), NEW new \in Seq(Char)
  PROVE  Spliced(text, Len(text), new) = text \o new
  <1> DEFINE all == Spliced(text, Len(text), new)
             both == text \o new
             n == Len(text)
             m == Len(new)
  <1>1. n \in Nat /\ m \in Nat /\ n \in 0..Len(text)
    BY LenProperties
  <1>2. all \in Seq(Char) /\ IsSpliced(all, text, n, new)
    BY <1>1, SplicedText, Zenon
  <1>3. both \in Seq(Char) /\ IsConcat(both, text, new)
    BY ConcatIs, Zenon
  <1> HIDE DEF all, both
  <1>4. /\ Len(all) = n + m /\ Len(both) = n + m
        /\ \A k \in 1..(n + m) : all[k] = both[k]
    <2>1. /\ Len(all) = n + m
          /\ \A k \in 1..(n + m) : all[k] = IF k <= n THEN text[k]
                                              ELSE IF k <= n + m THEN new[k - n]
                                              ELSE text[k - m]
      BY <1>2 DEF IsSpliced
    <2>2. /\ Len(both) = n + m
          /\ \A k \in 1..(n + m) : both[k] = IF k <= n THEN text[k] ELSE new[k - n]
      BY <1>3 DEF IsConcat
    <2> HIDE DEF n, m
    <2>3. \A k \in 1..(n + m) : k <= n + m
      BY <1>1
    <2> QED  BY <2>1, <2>2, <2>3
  <1> HIDE DEF n, m
  <1>5. all = both
    BY <1>2, <1>3, <1>4, SameText
  <1> QED  BY <1>5 DEF all, both, n

-----------------------------------------------------------------------------
(* The same edits by subsequences *)

LEMMA FrontText ==
  ASSUME NEW text \in Seq(Char), NEW at \in 0..Len(text)
  PROVE  /\ SubSeq(text, 1, at) \in Seq(Char) /\ Len(SubSeq(text, 1, at)) = at
         /\ \A k \in 1..at : SubSeq(text, 1, at)[k] = text[k]
  <1>1. Len(text) \in Nat /\ at \in Nat /\ \A k \in 1..at : text[k] \in Char
    BY LenProperties, ElementOfSeq
  <1> QED  BY <1>1, SubSeqProperties

LEMMA BackText ==
  ASSUME NEW text \in Seq(Char), NEW at \in 0..Len(text)
  PROVE  LET back == SubSeq(text, at + 1, Len(text))
         IN  /\ back \in Seq(Char) /\ Len(back) = Len(text) - at
             /\ \A k \in 1..(Len(text) - at) : back[k] = text[at + k]
  <1> DEFINE back == SubSeq(text, at + 1, Len(text))
  <1>1. Len(text) \in Nat /\ at \in Nat /\ \A k \in (at + 1)..Len(text) : text[k] \in Char
    BY LenProperties, ElementOfSeq
  <1>2. back \in Seq(Char) /\ Len(back) = Len(text) - at
    BY <1>1, SubSeqProperties
  <1>3. ASSUME NEW k \in 1..(Len(text) - at) PROVE back[k] = text[at + k]
    BY <1>1, SubSeqProperties
  <1> QED  BY <1>2, <1>3


LEMMA SplicedIsInserted ==
  ASSUME NEW text \in Seq(Char), NEW new \in Seq(Char), NEW at \in 0..Len(text)
  PROVE  Spliced(text, at, new) = SubSeq(text, 1, at) \o new \o SubSeq(text, at + 1, Len(text))
  <1> DEFINE left == SubSeq(text, 1, at)
             right == SubSeq(text, at + 1, Len(text))
  <1>1. /\ left \in Seq(Char) /\ Len(left) = at
        /\ \A k \in 1..at : left[k] = text[k]
    BY FrontText
  <1>2. /\ right \in Seq(Char) /\ Len(right) = Len(text) - at
        /\ \A k \in 1..(Len(text) - at) : right[k] = text[at + k]
    BY BackText
  <1>3. at \in Nat /\ Len(text) \in Nat /\ at + 0 <= Len(text) /\ at + 0 = at
    BY LenProperties
  <1> HIDE DEF left, right
  <1>4. PartAt(text, 0, left) /\ PartAt(text, at + 0, right)
    BY <1>1, <1>2, <1>3 DEF PartAt
  <1>5. Around(text, left, right, at, 0)
    BY <1>1, <1>2, <1>3, <1>4 DEF Around
  <1>6. (left \o new) \o right = Spliced(text, at, new)
    BY <1>1, <1>2, <1>5, PartsAround, SMTT(30)
  <1> QED  BY <1>6 DEF left, right

LEMMA CutIsRemoved ==
  ASSUME NEW text \in Seq(Char), NEW at \in Nat, NEW count \in Nat, at + count <= Len(text)
  PROVE  Cut(text, at, count) = SubSeq(text, 1, at) \o SubSeq(text, at + count + 1, Len(text))
  <1> DEFINE left == SubSeq(text, 1, at)
             behind == at + count
             right == SubSeq(text, behind + 1, Len(text))
  <1>1. Len(text) \in Nat /\ at \in 0..Len(text) /\ behind \in 0..Len(text) /\ behind \in Nat
    BY LenProperties
  <1>2. /\ left \in Seq(Char) /\ Len(left) = at
        /\ \A k \in 1..at : left[k] = text[k]
    BY <1>1, FrontText
  <1> HIDE DEF behind
  <1>3. /\ right \in Seq(Char) /\ Len(right) = Len(text) - behind
        /\ \A k \in 1..(Len(text) - behind) : right[k] = text[behind + k]
    BY <1>1, BackText
  <1> HIDE DEF left, right
  <1>4. PartAt(text, 0, left) /\ PartAt(text, behind, right)
    BY <1>1, <1>2, <1>3 DEF PartAt
  <1>5. Around(text, left, right, at, count)
    BY <1>1, <1>2, <1>3, <1>4 DEF Around, behind
  <1>6. left \o right = Cut(text, at, count)
    BY <1>2, <1>3, <1>5, PartsWithout
  <1> QED  BY <1>6 DEF left, right, behind

-----------------------------------------------------------------------------
(* The tree, its history and its clients *)

HistoryOK(buffers, entries) ==
    /\ \E S : entries \in Seq(S)
    /\ \A i \in 1..Len(entries) : GoodRoot(buffers, entries[i].root)

HeadsOK(buffers, roots) ==
    /\ roots = [h \in Handles |-> roots[h]]
    /\ \A h \in Handles : GoodRoot(buffers, roots[h])

(* Nothing is assumed about edits that a client could not make: the       *)
(* invariant only relates the roots to the buffers, and the cached length *)
(* that guards insert and remove to the current root.                     *)
IInv ==
    /\ built \in BOOLEAN
    /\ BuffersOK(m_buffers)
    /\ GoodRoot(m_buffers, m_root)
    /\ built => m_meta = MetaOf(m_root)
    /\ HistoryOK(m_buffers, m_undo_stack)
    /\ HistoryOK(m_buffers, m_redo_stack)
    /\ HeadsOK(m_buffers, heads)

-----------------------------------------------------------------------------
(* The history *)

LEMMA HistoryPush ==
  ASSUME NEW buffers, NEW entries, HistoryOK(buffers, entries),
         NEW root, GoodRoot(buffers, root), NEW offset
  PROVE  HistoryOK(buffers, <<Entry(root, offset)>> \o entries)
  <1> DEFINE e == Entry(root, offset)
  <1>1. PICK S : entries \in Seq(S)
    BY DEF HistoryOK
  <1>2. e.root = root
    BY DEF Entry
  <1> HIDE DEF e
  <1>3. <<e>> \in Seq(S \cup {e}) /\ entries \in Seq(S \cup {e})
        /\ Len(<<e>>) = 1 /\ <<e>>[1] = e /\ Len(entries) \in Nat
    BY <1>1, SeqMonotonic
  <1>4. /\ <<e>> \o entries \in Seq(S \cup {e})
        /\ Len(<<e>> \o entries) = 1 + Len(entries)
        /\ \A i \in 1..(1 + Len(entries)) :
              (<<e>> \o entries)[i] = IF i <= 1 THEN <<e>>[i] ELSE entries[i - 1]
    BY <1>3, ConcatProperties
  <1>5. ASSUME NEW i \in 1..(1 + Len(entries))
        PROVE  GoodRoot(buffers, (<<e>> \o entries)[i].root)
    <2>1. CASE i = 1
      BY <2>1, <1>2, <1>3, <1>4
    <2>2. CASE i # 1
      <3>1. i - 1 \in 1..Len(entries) /\ (<<e>> \o entries)[i] = entries[i - 1]
        BY <2>2, <1>3, <1>4
      <3> QED  BY <3>1 DEF HistoryOK
    <2> QED  BY <2>1, <2>2
  <1> QED  BY <1>4, <1>5 DEF HistoryOK, e

LEMMA HistoryPop ==
  ASSUME NEW buffers, NEW entries, HistoryOK(buffers, entries), entries # << >>
  PROVE  HistoryOK(buffers, Tail(entries)) /\ GoodRoot(buffers, Head(entries).root)
  <1>1. PICK S : entries \in Seq(S)
    BY DEF HistoryOK
  <1>2. /\ Len(entries) \in Nat /\ Len(entries) > 0 /\ Head(entries) = entries[1]
    BY <1>1, EmptySeq
  <1>3. /\ Tail(entries) \in Seq(S) /\ Len(Tail(entries)) = Len(entries) - 1
        /\ \A i \in 1..Len(Tail(entries)) : Tail(entries)[i] = entries[i + 1]
    BY <1>1, HeadTailProperties
  <1> QED  BY <1>2, <1>3 DEF HistoryOK

LEMMA HistoryEmpty == \A buffers : HistoryOK(buffers, << >>)
  <1>1. << >> \in Seq({}) /\ Len(<< >>) = 0
    BY EmptySeq
  <1> QED  BY <1>1 DEF HistoryOK

(* Buffers that keep every root good keep the history and the heads good. *)
LEMMA RootsKept ==
  ASSUME NEW old, NEW new, \A root : GoodRoot(old, root) => GoodRoot(new, root)
  PROVE  /\ \A entries : HistoryOK(old, entries) => HistoryOK(new, entries)
         /\ \A roots : HeadsOK(old, roots) => HeadsOK(new, roots)
  BY DEF HistoryOK, HeadsOK

-----------------------------------------------------------------------------
(* The inductive invariant *)

LEMMA InitIInv == Init => IInv
  <1> SUFFICES ASSUME Init PROVE IInv
    OBVIOUS
  <1>1. << >> \in Text /\ Len(<< >>) = 0
    BY DEF Text
  <1>2. WellFormed(NewBuffer(<< >>))
    BY <1>1, NewBufferWellFormed
  <1>3. BuffersOK(m_buffers)
    BY <1>2 DEF Init, BuffersOK, BufferCollection, WellFormed
  <1>4. GoodRoot(m_buffers, EmptyRoot)
    <2>1. Starts(EmptyRoot) = {} /\ EmptyRoot.length = 0
      BY DEF Starts, EmptyRoot, NoPieces
    <2> QED  BY <2>1 DEF GoodRoot, TiledShape, Shape, Tiled, PiecesOK
  <1> QED  BY <1>3, <1>4, HistoryEmpty DEF Init, IInv, HeadsOK

(* The turn of build_tree for the buffer that was added last. *)
LEMMA AcceptedIs ==
  ASSUME NEW buffers, BuffersOK(buffers), NEW text \in Text, NEW root
  PROVE  LET now   == AddBuffer(buffers, text)
             index == Len(buffers.orig) + 1
             piece == [index         |-> index,
                       first         |-> [line |-> 0, column |-> 0],
                       last          |-> cursor_from_offset(now.orig[index], Len(text)),
                       length        |-> Len(text),
                       newline_count |-> Cardinality(now.orig[index].line_starts) - 1]
         IN  build_tree(root, now, Len(now.orig))
               = IF text = << >> THEN root ELSE InsertPiece(root, piece, root.length)
  <1> DEFINE now   == AddBuffer(buffers, text)
             index == Len(buffers.orig) + 1
  <1>1. Len(now.orig) = index /\ now.orig[index] = NewBuffer(text)
    BY AddKeepsBuffers
  <1>2. now.orig[index].text = text
    BY <1>1 DEF NewBuffer
  <1> HIDE DEF now, index
  <1> QED  BY <1>1, <1>2 DEF build_tree, now, index

LEMMA AcceptIInv ==
  ASSUME IInv, NEW text \in InitialTexts, tree_builder_accept(text)
  PROVE  IInv'
  <1> DEFINE index   == Len(m_buffers.orig) + 1
             buffers == AddBuffer(m_buffers, text)
             piece   == [index         |-> index,
                         first         |-> [line |-> 0, column |-> 0],
                         last          |-> cursor_from_offset(buffers.orig[index], Len(text)),
                         length        |-> Len(text),
                         newline_count |-> Cardinality(buffers.orig[index].line_starts) - 1]
  <1>1. text \in Text /\ BuffersOK(m_buffers) /\ GoodRoot(m_buffers, m_root)
    BY TextsAssumption DEF IInv
  <1>2. /\ m_buffers' = buffers
        /\ m_root' = IF text = << >> THEN m_root ELSE InsertPiece(m_root, piece, m_root.length)
        /\ built' = FALSE
        /\ UNCHANGED <<m_undo_stack, m_redo_stack, heads>>
    BY <1>1, AcceptedIs DEF tree_builder_accept, AddBuffer, IInv
  <1>3. text # << >> => GoodPiece(buffers, piece)
    BY <1>1, WholeBufferGood
  <1> HIDE DEF piece, buffers
  <1>4. BuffersOK(buffers) /\ \A root : GoodRoot(m_buffers, root) => GoodRoot(buffers, root)
    BY <1>1, AddKeepsBuffers, AddKeepsGood DEF buffers
  <1>5. GoodRoot(buffers, m_root')
    <2>1. m_root.length \in Nat /\ Boundary(m_root, m_root.length)
      BY <1>1 DEF GoodRoot, TiledShape, Shape, Boundary
    <2> QED  BY <1>1, <1>2, <1>3, <1>4, <2>1, InsertKeepsGood
  <1>6. /\ HistoryOK(buffers, m_undo_stack) /\ HistoryOK(buffers, m_redo_stack)
        /\ HeadsOK(buffers, heads)
    BY <1>4, RootsKept DEF IInv
  <1> QED  BY <1>2, <1>4, <1>5, <1>6 DEF IInv

LEMMA InsertIInv ==
  ASSUME IInv, NEW offset \in 0..length, NEW text \in Texts, NEW suppress \in BOOLEAN,
         insert(offset, text, suppress)
  PROVE  IInv'
  <1> DEFINE buffers == AppendText(m_buffers, text)
             piece == build_piece(m_buffers, text)
  <1>1. text \in Text /\ text # << >> /\ BuffersOK(m_buffers) /\ GoodRoot(m_buffers, m_root)
    BY TextsAssumption DEF IInv, insert
  <1>2. offset \in Nat /\ offset <= m_root.length
    <2>1. length = m_root.length
      BY DEF IInv, insert, length, MetaOf
    <2>2. m_root.length \in Nat
      BY <1>1 DEF GoodRoot, TiledShape, Shape
    <2> QED  BY <2>1, <2>2
  <1>3. /\ m_buffers' = buffers
        /\ m_root' = internal_insert(buffers, m_root, piece, offset)
        /\ m_meta' = MetaOf(m_root')
        /\ UNCHANGED <<built, heads>>
        /\ m_redo_stack' \in {m_redo_stack, << >>}
        /\ m_undo_stack' \in {m_undo_stack, <<Entry(m_root, offset)>> \o m_undo_stack}
    BY DEF insert, set_root, append_undo
  <1>4. GoodPiece(buffers, piece) /\ piece.index = ModBuf
    BY <1>1, BuildPieceGood
  <1> HIDE DEF piece, buffers
  <1>5. BuffersOK(buffers) /\ \A root : GoodRoot(m_buffers, root) => GoodRoot(buffers, root)
    BY <1>1, AppendKeepsBuffers, AppendKeepsGood DEF buffers
  <1>6. GoodRoot(buffers, m_root')
    BY <1>1, <1>2, <1>3, <1>4, <1>5, InternalInsertGood
  <1>7. HistoryOK(m_buffers, m_undo_stack') /\ HistoryOK(m_buffers, m_redo_stack')
    BY <1>1, <1>3, HistoryPush, HistoryEmpty DEF IInv
  <1>8. /\ HistoryOK(buffers, m_undo_stack') /\ HistoryOK(buffers, m_redo_stack')
        /\ HeadsOK(buffers, heads)
    BY <1>5, <1>7, RootsKept DEF IInv
  <1> QED  BY <1>3, <1>5, <1>6, <1>8 DEF IInv

LEMMA RemoveIInv ==
  ASSUME IInv, NEW offset \in 0..length, NEW count \in 1..(length - offset),
         NEW suppress \in BOOLEAN, remove(offset, count, suppress)
  PROVE  IInv'
  <1>1. BuffersOK(m_buffers) /\ GoodRoot(m_buffers, m_root)
    BY DEF IInv
  <1>2. offset \in Nat /\ count \in Nat /\ offset + count <= m_root.length
    <2>1. length = m_root.length
      BY DEF IInv, remove, length, MetaOf
    <2>2. m_root.length \in Nat
      BY <1>1 DEF GoodRoot, TiledShape, Shape
    <2> QED  BY <2>1, <2>2
  <1>3. /\ m_root' = internal_remove(m_buffers, m_root, offset, count)
        /\ m_meta' = MetaOf(m_root')
        /\ UNCHANGED <<built, m_buffers, heads>>
        /\ m_redo_stack' \in {m_redo_stack, << >>}
        /\ m_undo_stack' \in {m_undo_stack, <<Entry(m_root, offset)>> \o m_undo_stack}
    BY DEF remove, set_root, append_undo
  <1>4. GoodRoot(m_buffers, m_root')
    BY <1>1, <1>2, <1>3, InternalRemoveGood
  <1>5. HistoryOK(m_buffers, m_undo_stack') /\ HistoryOK(m_buffers, m_redo_stack')
    BY <1>1, <1>3, HistoryPush, HistoryEmpty DEF IInv
  <1> QED  BY <1>3, <1>4, <1>5 DEF IInv

LEMMA HistoryIInv ==
  ASSUME IInv, NEW offset, commit_head(offset) \/ try_undo(offset) \/ try_redo(offset)
  PROVE  IInv'
  <1>1. GoodRoot(m_buffers, m_root)
    BY DEF IInv
  <1>2. CASE commit_head(offset)
    BY <1>1, <1>2, HistoryPush, HistoryEmpty DEF commit_head, append_undo, IInv
  <1>3. CASE try_undo(offset)
    BY <1>1, <1>3, HistoryPush, HistoryPop DEF try_undo, set_root, IInv
  <1>4. CASE try_redo(offset)
    BY <1>1, <1>4, HistoryPush, HistoryPop DEF try_redo, set_root, IInv
  <1> QED  BY <1>2, <1>3, <1>4

LEMMA HeadsIInv ==
  ASSUME IInv, NEW h \in Handles, head(h) \/ snap_to(h)
  PROVE  IInv'
  <1>1. CASE head(h)
    BY <1>1 DEF head, IInv, HeadsOK
  <1>2. CASE snap_to(h)
    BY <1>2 DEF snap_to, set_root, IInv, HeadsOK
  <1> QED  BY <1>1, <1>2

LEMMA StepIInv == IInv /\ [Next]_vars => IInv'
  <1> SUFFICES ASSUME IInv, [Next]_vars PROVE IInv'
    OBVIOUS
  <1>1. CASE \E text \in InitialTexts : tree_builder_accept(text)
    BY <1>1, AcceptIInv
  <1>2. CASE tree_builder_finish
    BY <1>2 DEF tree_builder_finish, IInv
  <1>3. CASE \E offset \in 0..length, text \in Texts, suppress \in BOOLEAN :
                insert(offset, text, suppress)
    BY <1>3, InsertIInv
  <1>4. CASE \E offset \in 0..length : \E count \in 1..(length - offset), suppress \in BOOLEAN :
                remove(offset, count, suppress)
    BY <1>4, RemoveIInv
  <1>5. CASE \E offset : commit_head(offset) \/ try_undo(offset) \/ try_redo(offset)
    BY <1>5, HistoryIInv
  <1>6. CASE \E h \in Handles : head(h) \/ snap_to(h)
    BY <1>6, HeadsIInv
  <1>7. CASE UNCHANGED vars
    BY <1>7 DEF vars, IInv
  <1> QED  BY <1>1, <1>2, <1>3, <1>4, <1>5, <1>6, <1>7 DEF Next

LEMMA InvariantHolds == Spec => []IInv
  BY InitIInv, StepIInv, PTL DEF Spec

-----------------------------------------------------------------------------
(* What the invariant says of the retained roots *)

LEMMA RetainedRootsGood == IInv => \A root \in RetainedRoots : GoodRoot(m_buffers, root)
  <1> SUFFICES ASSUME IInv, NEW root \in RetainedRoots PROVE GoodRoot(m_buffers, root)
    OBVIOUS
  <1>1. CASE root = m_root
    BY <1>1 DEF IInv
  <1>2. CASE \E h \in Handles : root = heads[h]
    BY <1>2 DEF IInv, HeadsOK
  <1>3. ASSUME NEW entries \in {m_undo_stack, m_redo_stack},
               NEW i \in DOMAIN entries, root = entries[i].root
        PROVE  GoodRoot(m_buffers, root)
    <2>1. HistoryOK(m_buffers, entries)
      BY DEF IInv
    <2>2. PICK S : entries \in Seq(S)
      BY <2>1 DEF HistoryOK
    <2>3. DOMAIN entries = 1..Len(entries)
      BY <2>2, LenProperties
    <2> QED  BY <1>3, <2>1, <2>3 DEF HistoryOK
  <1> QED  BY <1>1, <1>2, <1>3 DEF RetainedRoots

(* The pieces of every reachable root tile its document, so find_node     *)
(* never fails for an offset inside it.                                   *)
THEOREM PiecesTileDocuments == Spec => []RootsTiled
  <1>1. IInv => RootsTiled
    BY RetainedRootsGood DEF RootsTiled, GoodRoot, TiledShape
  <1> QED  BY <1>1, InvariantHolds, PTL

(* Every piece of every reachable root names bytes that are in its buffer *)
(* and counts their line feeds, however the buffer has grown.             *)
THEOREM PiecesStayInBuffers == Spec => []PiecesInBuffers
  <1>1. IInv => PiecesInBuffers
    BY RetainedRootsGood DEF PiecesInBuffers, GoodRoot
  <1> QED  BY <1>1, InvariantHolds, PTL

(* The incrementally extended line starts are those of the whole text.    *)
THEOREM LineStartsStayExact == Spec => []LineStartsExact
  <1>1. IInv => LineStartsExact
    <2> SUFFICES ASSUME IInv PROVE LineStartsExact
      OBVIOUS
    <2>1. DOMAIN m_buffers.orig = 1..Len(m_buffers.orig)
      BY LenProperties DEF IInv, BuffersOK, BufferCollection
    <2> QED  BY <2>1 DEF IInv, BuffersOK, WellFormed, LineStartsExact
  <1> QED  BY <1>1, InvariantHolds, PTL

-----------------------------------------------------------------------------
(* The offsets of the history *)

OffsetsOK(entries) ==
    \A i \in DOMAIN entries : entries[i].op_offset <= entries[i].root.length

LEMMA OffsetsPush ==
  ASSUME NEW buffers, NEW entries, HistoryOK(buffers, entries), OffsetsOK(entries),
         NEW root, NEW offset, offset <= root.length
  PROVE  OffsetsOK(<<Entry(root, offset)>> \o entries)
  <1> DEFINE e == Entry(root, offset)
             new == <<e>> \o entries
  <1>1. PICK S : entries \in Seq(S)
    BY DEF HistoryOK
  <1>2. e.op_offset <= e.root.length
    BY DEF Entry
  <1> HIDE DEF e
  <1>3. <<e>> \in Seq(S \cup {e}) /\ entries \in Seq(S \cup {e})
        /\ Len(<<e>>) = 1 /\ <<e>>[1] = e /\ Len(entries) \in Nat
    BY <1>1, SeqMonotonic
  <1>4. /\ new \in Seq(S \cup {e})
        /\ Len(new) = 1 + Len(entries)
        /\ \A i \in 1..(1 + Len(entries)) :
              new[i] = IF i <= 1 THEN <<e>>[i] ELSE entries[i - 1]
    BY <1>3, ConcatProperties
  <1>5. DOMAIN new = 1..(1 + Len(entries)) /\ DOMAIN entries = 1..Len(entries)
    BY <1>1, <1>4, LenProperties
  <1> HIDE DEF new
  <1>6. ASSUME NEW i \in DOMAIN new
        PROVE  new[i].op_offset <= new[i].root.length
    <2>1. CASE i = 1
      BY <2>1, <1>2, <1>3, <1>4, <1>5
    <2>2. CASE i # 1
      <3>1. i - 1 \in DOMAIN entries /\ new[i] = entries[i - 1]
        BY <2>2, <1>3, <1>4, <1>5
      <3> QED  BY <3>1 DEF OffsetsOK
    <2> QED  BY <2>1, <2>2
  <1> QED  BY <1>6 DEF OffsetsOK, e, new

LEMMA OffsetsPop ==
  ASSUME NEW buffers, NEW entries, HistoryOK(buffers, entries), OffsetsOK(entries),
         entries # << >>
  PROVE  OffsetsOK(Tail(entries))
  <1>1. PICK S : entries \in Seq(S)
    BY DEF HistoryOK
  <1>2. /\ Len(entries) \in Nat /\ Len(entries) > 0
        /\ Tail(entries) \in Seq(S) /\ Len(Tail(entries)) = Len(entries) - 1
        /\ \A i \in 1..Len(Tail(entries)) : Tail(entries)[i] = entries[i + 1]
    BY <1>1, EmptySeq, HeadTailProperties
  <1>3. /\ DOMAIN entries = 1..Len(entries)
        /\ DOMAIN Tail(entries) = 1..(Len(entries) - 1)
    BY <1>1, <1>2, LenProperties
  <1> QED  BY <1>2, <1>3 DEF OffsetsOK

LEMMA OffsetsEmpty == OffsetsOK(<< >>)
  BY DEF OffsetsOK

LEMMA OffsetsStep == IInv /\ HistoryOffsetsInBounds /\ [Next]_vars => HistoryOffsetsInBounds'
  <1> SUFFICES ASSUME IInv, HistoryOffsetsInBounds, [Next]_vars
               PROVE  HistoryOffsetsInBounds'
    OBVIOUS
  <1>1. /\ HistoryOK(m_buffers, m_undo_stack) /\ HistoryOK(m_buffers, m_redo_stack)
        /\ OffsetsOK(m_undo_stack) /\ OffsetsOK(m_redo_stack)
    BY DEF IInv, HistoryOffsetsInBounds, OffsetsOK
  <1>2. built => \A offset \in 0..length : offset <= m_root.length
    BY DEF IInv, length, MetaOf, GoodRoot, TiledShape, Shape
  <1>3. SUFFICES OffsetsOK(m_undo_stack') /\ OffsetsOK(m_redo_stack')
    BY DEF HistoryOffsetsInBounds, OffsetsOK
  <1>4. ASSUME NEW offset \in 0..length, built
        PROVE  /\ OffsetsOK(<<Entry(m_root, offset)>> \o m_undo_stack)
               /\ OffsetsOK(<<Entry(m_root, offset)>> \o m_redo_stack)
    BY <1>1, <1>2, <1>4, OffsetsPush
  <1>5. ASSUME NEW offset \in 0..length,
               \/ \E text, suppress : insert(offset, text, suppress)
               \/ \E count, suppress : remove(offset, count, suppress)
               \/ commit_head(offset)
        PROVE  OffsetsOK(m_undo_stack') /\ OffsetsOK(m_redo_stack')
    <2>1. /\ built
          /\ m_undo_stack' \in {m_undo_stack, <<Entry(m_root, offset)>> \o m_undo_stack}
          /\ m_redo_stack' \in {m_redo_stack, << >>}
      BY <1>5 DEF insert, remove, commit_head, append_undo
    <2> QED  BY <1>1, <1>4, <2>1, OffsetsEmpty
  <1>6. ASSUME NEW offset \in 0..length, try_undo(offset) \/ try_redo(offset)
        PROVE  OffsetsOK(m_undo_stack') /\ OffsetsOK(m_redo_stack')
    BY <1>1, <1>4, <1>6, OffsetsPop DEF try_undo, try_redo
  <1>7. CASE UNCHANGED <<m_undo_stack, m_redo_stack>>
    BY <1>1, <1>7
  <1> QED
    BY <1>5, <1>6, <1>7 DEF Next, tree_builder_accept, tree_builder_finish, head, snap_to, vars

(* Whatever is undone and redone in which order, the offset that comes    *)
(* back lies in the document that comes back with it.                     *)
THEOREM HistoryOffsetsStayInBounds == Spec => []HistoryOffsetsInBounds
  <1>1. Init => HistoryOffsetsInBounds
    BY DEF Init, HistoryOffsetsInBounds
  <1> QED  BY <1>1, OffsetsStep, InvariantHolds, PTL DEF Spec

(* No operation changes the text of a root that was retained before it.   *)
THEOREM RetainedTextsStayStable == Spec => RetainedTextStable
  <1>1. IInv /\ [Next]_vars => [\A root \in RetainedRoots :
                                  TextOf(m_buffers', root) = TextOf(m_buffers, root)]_vars
    <2> SUFFICES ASSUME IInv, Next, NEW root \in RetainedRoots
                 PROVE  TextOf(m_buffers', root) = TextOf(m_buffers, root)
      OBVIOUS
    <2>1. BuffersOK(m_buffers) /\ GoodRoot(m_buffers, root)
      BY RetainedRootsGood DEF IInv
    <2>2. CASE m_buffers' = m_buffers
      BY <2>2
    <2>3. ASSUME NEW text \in InitialTexts, tree_builder_accept(text)
          PROVE  TextOf(m_buffers', root) = TextOf(m_buffers, root)
      <3>1. text \in Text /\ m_buffers' = AddBuffer(m_buffers, text)
        BY <2>3, TextsAssumption DEF tree_builder_accept, AddBuffer
      <3> QED  BY <3>1, <2>1, AddKeepsGood
    <2>4. ASSUME NEW offset, NEW text \in Texts, NEW suppress, insert(offset, text, suppress)
          PROVE  TextOf(m_buffers', root) = TextOf(m_buffers, root)
      <3>1. text \in Text /\ m_buffers' = AppendText(m_buffers, text)
        BY <2>4, TextsAssumption DEF insert
      <3> QED  BY <3>1, <2>1, AppendKeepsText
    <2>5. \/ m_buffers' = m_buffers
          \/ \E text \in InitialTexts : tree_builder_accept(text)
          \/ \E offset, suppress : \E text \in Texts : insert(offset, text, suppress)
      BY DEF Next, tree_builder_finish, remove, commit_head, try_undo, try_redo, head, snap_to
    <2> QED  BY <2>2, <2>3, <2>4, <2>5
  <1> QED  BY <1>1, InvariantHolds, PTL DEF Spec, RetainedTextStable

-----------------------------------------------------------------------------
(* The texts of the retained roots *)

Read(buffers, root) == Reads(buffers, root, TextOf(buffers, root))

(* Before the tree is finished there is no history. *)
TextsInv ==
    /\ ~built => m_undo_stack = << >> /\ m_redo_stack = << >>
    /\ \A root \in RetainedRoots : Read(m_buffers, root)

LEMMA ReadsRead ==
  ASSUME NEW buffers, NEW root, NEW text, Reads(buffers, root, text)
  PROVE  Read(buffers, root) /\ TextOf(buffers, root) = text /\ GoodRoot(buffers, root)
  BY DEF Read, Reads

RootsOf(entries) == {entries[i].root : i \in DOMAIN entries}

(* The roots of a history that has one more entry. *)
LEMMA PushedRoots ==
  ASSUME NEW buffers, NEW entries, HistoryOK(buffers, entries), NEW root, NEW offset
  PROVE  LET new == <<Entry(root, offset)>> \o entries
         IN  /\ RootsOf(new) \subseteq RootsOf(entries) \cup {root}
             /\ Len(entries) \in Nat /\ Len(new) = Len(entries) + 1
             /\ DOMAIN new = 1..(Len(entries) + 1) /\ DOMAIN entries = 1..Len(entries)
             /\ new[1] = Entry(root, offset)
             /\ \A i \in 1..Len(entries) : new[i + 1] = entries[i]
  <1> DEFINE e == Entry(root, offset)
             new == <<e>> \o entries
  <1>1. PICK S : entries \in Seq(S)
    BY DEF HistoryOK
  <1>2. e.root = root
    BY DEF Entry
  <1> HIDE DEF e
  <1>3. <<e>> \in Seq(S \cup {e}) /\ entries \in Seq(S \cup {e})
        /\ Len(<<e>>) = 1 /\ <<e>>[1] = e /\ Len(entries) \in Nat
    BY <1>1, SeqMonotonic
  <1>4. /\ new \in Seq(S \cup {e})
        /\ Len(new) = 1 + Len(entries)
        /\ \A i \in 1..(1 + Len(entries)) :
              new[i] = IF i <= 1 THEN <<e>>[i] ELSE entries[i - 1]
    BY <1>3, ConcatProperties
  <1>5. DOMAIN new = 1..(Len(entries) + 1) /\ DOMAIN entries = 1..Len(entries)
    BY <1>1, <1>3, <1>4, LenProperties
  <1> HIDE DEF new
  <1>6. new[1] = e
    BY <1>3, <1>4
  <1>7. ASSUME NEW i \in 1..Len(entries) PROVE new[i + 1] = entries[i]
    <2>1. i + 1 \in 1..(1 + Len(entries)) /\ ~(i + 1 <= 1) /\ (i + 1) - 1 = i
      BY <1>3
    <2> QED  BY <2>1, <1>4
  <1>8. ASSUME NEW i \in DOMAIN new
        PROVE  new[i].root \in {root} \cup {entries[j].root : j \in DOMAIN entries}
    <2>1. CASE i = 1
      BY <2>1, <1>2, <1>6
    <2>2. CASE i # 1
      <3>1. i - 1 \in DOMAIN entries /\ (i - 1) + 1 = i
        BY <2>2, <1>3, <1>5
      <3>2. new[i] = entries[i - 1]
        BY <3>1, <1>5, <1>7
      <3> QED  BY <3>1, <3>2
    <2> QED  BY <2>1, <2>2
  <1> QED  BY <1>3, <1>4, <1>5, <1>6, <1>7, <1>8 DEF e, new, RootsOf

LEMMA PoppedRoots ==
  ASSUME NEW buffers, NEW entries, HistoryOK(buffers, entries), entries # << >>
  PROVE  LET new == Tail(entries)
         IN  /\ RootsOf(new) \subseteq RootsOf(entries)
             /\ Head(entries).root \in RootsOf(entries)
             /\ Len(entries) \in Nat /\ Len(entries) > 0 /\ Len(new) = Len(entries) - 1
             /\ Head(entries) = entries[1]
             /\ DOMAIN entries = 1..Len(entries) /\ DOMAIN new = 1..(Len(entries) - 1)
             /\ \A i \in 1..(Len(entries) - 1) : new[i] = entries[i + 1]
  <1>1. PICK S : entries \in Seq(S)
    BY DEF HistoryOK
  <1>2. /\ Len(entries) \in Nat /\ Len(entries) > 0 /\ Head(entries) = entries[1]
    BY <1>1, EmptySeq
  <1>3. /\ Tail(entries) \in Seq(S) /\ Len(Tail(entries)) = Len(entries) - 1
        /\ \A i \in 1..Len(Tail(entries)) : Tail(entries)[i] = entries[i + 1]
    BY <1>1, HeadTailProperties
  <1>4. DOMAIN entries = 1..Len(entries) /\ DOMAIN Tail(entries) = 1..(Len(entries) - 1)
    BY <1>1, <1>3, LenProperties
  <1>5. 1 \in DOMAIN entries /\ \A i \in 1..(Len(entries) - 1) : i + 1 \in DOMAIN entries
    BY <1>2, <1>4
  <1> QED  BY <1>2, <1>3, <1>4, <1>5 DEF RootsOf

-----------------------------------------------------------------------------
(* What every operation makes of the text *)

(* Everything that is retained reads as before. *)
TextsStay ==
    \A root : Read(m_buffers, root) =>
        Read(m_buffers', root) /\ TextOf(m_buffers', root) = TextOf(m_buffers, root)

LEMMA AcceptText ==
  ASSUME IInv, Read(m_buffers, m_root), NEW text \in InitialTexts, tree_builder_accept(text)
  PROVE  /\ TextsStay
         /\ Reads(m_buffers', m_root', TextOf(m_buffers, m_root) \o text)
  <1> DEFINE index   == Len(m_buffers.orig) + 1
             buffers == AddBuffer(m_buffers, text)
             piece   == [index         |-> index,
                         first         |-> [line |-> 0, column |-> 0],
                         last          |-> cursor_from_offset(buffers.orig[index], Len(text)),
                         length        |-> Len(text),
                         newline_count |-> Cardinality(buffers.orig[index].line_starts) - 1]
             old == TextOf(m_buffers, m_root)
  <1>1. text \in Text /\ BuffersOK(m_buffers) /\ GoodRoot(m_buffers, m_root)
    BY TextsAssumption DEF IInv
  <1>2. /\ m_buffers' = buffers
        /\ m_root' = IF text = << >> THEN m_root ELSE InsertPiece(m_root, piece, m_root.length)
    BY <1>1, AcceptedIs DEF tree_builder_accept, AddBuffer
  <1>3. text # << >> => GoodPiece(buffers, piece) /\ PieceText(buffers, piece) = text
    BY <1>1, WholeBufferGood, WholeText
  <1> HIDE DEF piece, buffers
  <1>4. /\ BuffersOK(buffers)
        /\ \A root, read : Reads(m_buffers, root, read) => Reads(buffers, root, read)
    BY <1>1, AddKeepsBuffers, AddKeepsReads DEF buffers
  <1>5. TextsStay
    BY <1>2, <1>4, ReadsRead DEF TextsStay, Read
  <1>6. Reads(buffers, m_root, old)
    BY <1>4 DEF Read
  <1>7. old \in Seq(Char) /\ Len(old) = m_root.length /\ m_root.length \in Nat /\ text \in Seq(Char)
    BY <1>1, TextTyped DEF Text
  <1> HIDE DEF old
  <1>8. ASSUME text = << >> PROVE Reads(buffers, m_root', old \o text)
    <2>1. old \o text = old
      BY <1>7, <1>8
    <2> QED  BY <1>2, <1>6, <1>8, <2>1
  <1>9. ASSUME text # << >> PROVE Reads(buffers, m_root', old \o text)
    <2>1. Boundary(m_root, m_root.length)
      BY DEF Boundary
    <2>2. Reads(buffers, InsertPiece(m_root, piece, m_root.length),
                Spliced(old, m_root.length, PieceText(buffers, piece)))
      BY <1>3, <1>4, <1>6, <1>7, <1>9, <2>1, InsertReads
    <2>3. Spliced(old, Len(old), text) = old \o text
      BY <1>7, SplicedAtEnd
    <2> QED  BY <1>2, <1>3, <1>7, <1>9, <2>2, <2>3
  <1> QED  BY <1>2, <1>5, <1>8, <1>9 DEF old

LEMMA InsertedReads ==
  ASSUME IInv, Read(m_buffers, m_root), NEW offset \in 0..length, NEW text \in Texts,
         NEW suppress \in BOOLEAN, insert(offset, text, suppress)
  PROVE  /\ TextsStay
         /\ text \in Seq(Char) /\ offset \in 0..Len(TextOf(m_buffers, m_root))
         /\ Reads(m_buffers', m_root', Spliced(TextOf(m_buffers, m_root), offset, text))
  <1> DEFINE buffers == AppendText(m_buffers, text)
             piece == build_piece(m_buffers, text)
             old == TextOf(m_buffers, m_root)
  <1>1. text \in Text /\ text # << >> /\ BuffersOK(m_buffers) /\ GoodRoot(m_buffers, m_root)
    BY TextsAssumption DEF IInv, insert
  <1>2. Len(old) = m_root.length /\ m_root.length \in Nat
    BY <1>1, TextTyped
  <1>3. offset \in Nat /\ offset <= m_root.length
    <2>1. length = m_root.length
      BY DEF IInv, insert, length, MetaOf
    <2> QED  BY <1>2, <2>1
  <1>4. /\ m_buffers' = buffers
        /\ m_root' = internal_insert(buffers, m_root, piece, offset)
    BY DEF insert, set_root
  <1>5. GoodPiece(buffers, piece) /\ piece.index = ModBuf /\ PieceText(buffers, piece) = text
    BY <1>1, BuildPieceGood, BuiltText
  <1> HIDE DEF piece, buffers
  <1>6. /\ BuffersOK(buffers)
        /\ \A root, read : Reads(m_buffers, root, read) => Reads(buffers, root, read)
    BY <1>1, AppendKeepsBuffers, AppendKeepsReads DEF buffers
  <1>7. TextsStay
    BY <1>4, <1>6, ReadsRead DEF TextsStay, Read
  <1>8. Reads(buffers, m_root, old)
    BY <1>6 DEF Read
  <1> HIDE DEF old
  <1>9. Reads(buffers, m_root', Spliced(old, offset, PieceText(buffers, piece)))
    BY <1>3, <1>4, <1>5, <1>6, <1>8, InternalInsertReads
  <1> QED  BY <1>1, <1>2, <1>3, <1>4, <1>5, <1>7, <1>9 DEF Text, old

LEMMA RemovedReads ==
  ASSUME IInv, Read(m_buffers, m_root), NEW offset \in 0..length,
         NEW count \in 1..(length - offset), NEW suppress \in BOOLEAN,
         remove(offset, count, suppress)
  PROVE  /\ TextsStay
         /\ offset + count <= Len(TextOf(m_buffers, m_root))
         /\ Reads(m_buffers', m_root', Cut(TextOf(m_buffers, m_root), offset, count))
  <1> DEFINE old == TextOf(m_buffers, m_root)
  <1>1. BuffersOK(m_buffers) /\ GoodRoot(m_buffers, m_root)
    BY DEF IInv
  <1>2. Len(old) = m_root.length /\ m_root.length \in Nat
    BY <1>1, TextTyped
  <1>3. offset \in Nat /\ count \in Nat /\ offset + count <= m_root.length
    <2>1. length = m_root.length
      BY DEF IInv, remove, length, MetaOf
    <2> QED  BY <1>2, <2>1
  <1>4. /\ m_root' = internal_remove(m_buffers, m_root, offset, count)
        /\ m_buffers' = m_buffers
    BY DEF remove, set_root
  <1>5. Reads(m_buffers, m_root', Cut(old, offset, count))
    BY <1>1, <1>3, <1>4, InternalRemoveReads DEF Read
  <1> QED  BY <1>2, <1>3, <1>4, <1>5 DEF TextsStay


-----------------------------------------------------------------------------
(* The metadata *)

LEMMA EmptyReads ==
  ASSUME NEW buffers, BuffersOK(buffers)
  PROVE  Reads(buffers, EmptyRoot, << >>)
  <1>1. Starts(EmptyRoot) = {} /\ EmptyRoot.length = 0 /\ EmptyRoot.lf_count = 0
    BY DEF Starts, EmptyRoot, NoPieces
  <1>2. GoodRoot(buffers, EmptyRoot)
    BY <1>1 DEF GoodRoot, TiledShape, Shape, Tiled, PiecesOK
  <1>3. << >> \in Text /\ Len(<< >>) = 0
    BY DEF Text
  <1>4. TextOf(buffers, EmptyRoot) = << >>
    BY <1>1, <1>2, <1>3, TextIs
  <1>5. {k \in 1..0 : << >>[k] = LF} = {}
    OBVIOUS
  <1>6. Feeds(<< >>) = 0
    BY <1>3, <1>5, FS_EmptySet DEF Feeds
  <1> QED  BY <1>1, <1>2, <1>4, <1>6 DEF Reads

LEMMA InitTexts == Init => TextsInv
  <1> SUFFICES ASSUME Init PROVE TextsInv
    OBVIOUS
  <1>1. IInv
    BY InitIInv
  <1>2. Read(m_buffers, EmptyRoot)
    BY <1>1, EmptyReads, ReadsRead DEF IInv
  <1>3. RetainedRoots \subseteq {EmptyRoot}
    BY DEF RetainedRoots, Init
  <1> QED  BY <1>2, <1>3 DEF TextsInv, Init

(* A step retains one new root at most. *)
LEMMA RetainedAfter ==
  ASSUME IInv, Next
  PROVE  RetainedRoots' \subseteq RetainedRoots \cup {m_root'}
  <1> DEFINE Undo == RootsOf(m_undo_stack)
             Redo == RootsOf(m_redo_stack)
             Kept == {heads[h] : h \in Handles}
  <1>1. RetainedRoots = {m_root} \cup Kept \cup Undo \cup Redo
    BY DEF RetainedRoots, RootsOf
  <1>2. RetainedRoots' = {m_root'} \cup Kept' \cup Undo' \cup Redo'
    BY DEF RetainedRoots, RootsOf
  <1>3. HistoryOK(m_buffers, m_undo_stack) /\ HistoryOK(m_buffers, m_redo_stack)
    BY DEF IInv
  <1>4. Kept' \subseteq Kept \cup {m_root}
    <2>1. heads' = heads \/ \E h \in Handles : heads' = [heads EXCEPT ![h] = m_root]
      BY DEF Next, tree_builder_accept, tree_builder_finish, insert, remove, commit_head,
             try_undo, try_redo, head, snap_to
    <2>2. heads = [h \in Handles |-> heads[h]]
      BY DEF IInv, HeadsOK
    <2> QED  BY <2>1, <2>2
  <1>5. ASSUME UNCHANGED <<m_undo_stack, m_redo_stack>>
        PROVE  Undo' \cup Redo' \subseteq Undo \cup Redo \cup {m_root}
    BY <1>5
  <1>6. ASSUME NEW offset,
               m_undo_stack' \in {m_undo_stack, <<Entry(m_root, offset)>> \o m_undo_stack},
               m_redo_stack' \in {m_redo_stack, << >>}
        PROVE  Undo' \cup Redo' \subseteq Undo \cup Redo \cup {m_root}
    <2>1. Undo' \subseteq Undo \cup {m_root}
      BY <1>3, <1>6, PushedRoots
    <2>2. Redo' \subseteq Redo
      BY <1>6 DEF RootsOf
    <2> QED  BY <2>1, <2>2
  <1>7. ASSUME NEW offset, try_undo(offset)
        PROVE  Undo' \cup Redo' \subseteq Undo \cup Redo \cup {m_root}
    <2>1. /\ m_redo_stack' = <<Entry(m_root, offset)>> \o m_redo_stack
          /\ m_undo_stack # << >> /\ m_undo_stack' = Tail(m_undo_stack)
      BY <1>7 DEF try_undo
    <2>2. Redo' \subseteq Redo \cup {m_root}
      BY <1>3, <2>1, PushedRoots
    <2>3. Undo' \subseteq Undo
      BY <1>3, <2>1, PoppedRoots
    <2> QED  BY <2>2, <2>3
  <1>8. ASSUME NEW offset, try_redo(offset)
        PROVE  Undo' \cup Redo' \subseteq Undo \cup Redo \cup {m_root}
    <2>1. /\ m_undo_stack' = <<Entry(m_root, offset)>> \o m_undo_stack
          /\ m_redo_stack # << >> /\ m_redo_stack' = Tail(m_redo_stack)
      BY <1>8 DEF try_redo
    <2>2. Undo' \subseteq Undo \cup {m_root}
      BY <1>3, <2>1, PushedRoots
    <2>3. Redo' \subseteq Redo
      BY <1>3, <2>1, PoppedRoots
    <2> QED  BY <2>2, <2>3
  <1>9. Undo' \cup Redo' \subseteq Undo \cup Redo \cup {m_root}
    <2> HIDE DEF Undo, Redo, Kept
    <2>1. CASE \E offset, text, suppress : insert(offset, text, suppress)
      BY <2>1, <1>5, <1>6 DEF insert, append_undo
    <2>2. CASE \E offset, count, suppress : remove(offset, count, suppress)
      BY <2>2, <1>5, <1>6 DEF remove, append_undo
    <2>3. CASE \E offset : commit_head(offset)
      BY <2>3, <1>6 DEF commit_head, append_undo
    <2>4. CASE \E offset : try_undo(offset) \/ try_redo(offset)
      BY <2>4, <1>7, <1>8
    <2>5. CASE \/ \E text : tree_builder_accept(text)
               \/ tree_builder_finish
               \/ \E h : head(h) \/ snap_to(h)
      BY <2>5, <1>5 DEF tree_builder_accept, tree_builder_finish, head, snap_to
    <2> QED  BY <2>1, <2>2, <2>3, <2>4, <2>5 DEF Next
  <1> HIDE DEF Undo, Redo, Kept
  <1> QED  BY <1>1, <1>2, <1>4, <1>9

LEMMA TextsStep == IInv /\ TextsInv /\ [Next]_vars => TextsInv'
  <1> SUFFICES ASSUME IInv, TextsInv, [Next]_vars PROVE TextsInv'
    OBVIOUS
  <1>1. Read(m_buffers, m_root) /\ m_root \in RetainedRoots
    BY DEF TextsInv, RetainedRoots
  <1>2. CASE UNCHANGED vars
    BY <1>2 DEF vars, TextsInv, RetainedRoots, RetainedRoots
  <1>3. CASE Next
    <2>1. TextsStay /\ Read(m_buffers', m_root')
      <3>1. ASSUME NEW text \in InitialTexts, tree_builder_accept(text)
            PROVE  TextsStay /\ Read(m_buffers', m_root')
        BY <1>1, <3>1, AcceptText, ReadsRead
      <3>2. ASSUME NEW offset \in 0..length, NEW text \in Texts, NEW suppress \in BOOLEAN,
                   insert(offset, text, suppress)
            PROVE  TextsStay /\ Read(m_buffers', m_root')
        BY <1>1, <3>2, InsertedReads, ReadsRead
      <3>3. ASSUME NEW offset \in 0..length, NEW count \in 1..(length - offset),
                   NEW suppress \in BOOLEAN, remove(offset, count, suppress)
            PROVE  TextsStay /\ Read(m_buffers', m_root')
        BY <1>1, <3>3, RemovedReads, ReadsRead
      <3>4. ASSUME m_buffers' = m_buffers, m_root' \in RetainedRoots
            PROVE  TextsStay /\ Read(m_buffers', m_root')
        BY <3>4 DEF TextsInv, TextsStay
      <3>5. CASE tree_builder_finish
        BY <1>1, <3>4, <3>5 DEF tree_builder_finish
      <3>6. CASE \E offset : commit_head(offset)
        BY <1>1, <3>4, <3>6 DEF commit_head
      <3>7. CASE \E offset : try_undo(offset)
        <4>1. /\ m_buffers' = m_buffers /\ m_undo_stack # << >>
              /\ m_root' = Head(m_undo_stack).root
          BY <3>7 DEF try_undo, set_root
        <4>2. m_root' \in RootsOf(m_undo_stack)
          BY <4>1, PoppedRoots DEF IInv
        <4> QED  BY <3>4, <4>1, <4>2 DEF RetainedRoots, RootsOf
      <3>8. CASE \E offset : try_redo(offset)
        <4>1. /\ m_buffers' = m_buffers /\ m_redo_stack # << >>
              /\ m_root' = Head(m_redo_stack).root
          BY <3>8 DEF try_redo, set_root
        <4>2. m_root' \in RootsOf(m_redo_stack)
          BY <4>1, PoppedRoots DEF IInv
        <4> QED  BY <3>4, <4>1, <4>2 DEF RetainedRoots, RootsOf
      <3>9. CASE \E h \in Handles : head(h) \/ snap_to(h)
        <4>1. m_buffers' = m_buffers /\ (m_root' = m_root \/ \E h \in Handles : m_root' = heads[h])
          BY <3>9 DEF head, snap_to, set_root
        <4> QED  BY <1>1, <3>4, <4>1 DEF RetainedRoots
      <3> QED  BY <1>3, <3>1, <3>2, <3>3, <3>5, <3>6, <3>7, <3>8, <3>9 DEF Next
    <2>2. RetainedRoots' \subseteq RetainedRoots \cup {m_root'}
      BY <1>3, RetainedAfter
    <2>3. \A root \in RetainedRoots' : Read(m_buffers', root)
      BY <2>1, <2>2 DEF TextsInv, TextsStay
    <2>4. ~built' => m_undo_stack' = << >> /\ m_redo_stack' = << >>
      BY <1>3 DEF TextsInv, Next, tree_builder_accept, tree_builder_finish, insert, remove,
                  commit_head, try_undo, try_redo, head, snap_to
    <2> QED  BY <2>3, <2>4 DEF TextsInv
  <1> QED  BY <1>2, <1>3

LEMMA TextsHold == Spec => [](IInv /\ TextsInv)
  BY InitIInv, StepIInv, InitTexts, TextsStep, PTL DEF Spec

(* The cached length and line feed count of every reachable root are those *)
(* of its text, whatever was split, joined, undone and retained.           *)
THEOREM MetadataStaysExact == Spec => []MetadataExact
  <1>1. IInv /\ TextsInv => MetadataExact
    <2> SUFFICES ASSUME IInv, TextsInv PROVE MetadataExact
      OBVIOUS
    <2>1. ASSUME NEW root \in RetainedRoots
          PROVE  root.lf_count =
                   Cardinality({k \in 1..root.length : TextOf(m_buffers, root)[k] = LF})
      <3>1. Read(m_buffers, root)
        BY DEF TextsInv
      <3>2. Len(TextOf(m_buffers, root)) = root.length
        BY <3>1, TextTyped DEF IInv, Read, Reads
      <3> QED  BY <3>1, <3>2 DEF Read, Reads, Feeds
    <2> QED  BY <2>1 DEF IInv, MetadataExact
  <1> QED  BY <1>1, TextsHold, PTL

-----------------------------------------------------------------------------
(* Types *)

(* The part of the types that says nothing of roots.  An entry of the      *)
(* history is typed with whatever roots it holds: that the roots are roots *)
(* follows from their texts, for all reachable roots at once.              *)
EntriesTyped(entries) == \E R : entries \in Seq([root : R, op_offset : Nat])

TypesInv ==
    /\ m_meta \in BufferMeta
    /\ m_end_last_insert \in Nat \cup {Sentinel}
    /\ EntriesTyped(m_undo_stack)
    /\ EntriesTyped(m_redo_stack)

LEMMA PushTyped ==
  ASSUME NEW entries, EntriesTyped(entries), NEW root, NEW offset \in Nat
  PROVE  EntriesTyped(<<Entry(root, offset)>> \o entries)
  <1>1. PICK R : entries \in Seq([root : R, op_offset : Nat])
    BY DEF EntriesTyped
  <1> DEFINE S == [root : R \cup {root}, op_offset : Nat]
             e == Entry(root, offset)
  <1>2. e \in S
    BY DEF Entry
  <1>3. [root : R, op_offset : Nat] \subseteq S
    OBVIOUS
  <1>4. entries \in Seq(S)
    BY <1>1, <1>3, SeqMonotonic
  <1> HIDE DEF e
  <1>5. <<e>> \in Seq(S)
    <2> HIDE DEF S
    <2> QED  BY <1>2
  <1>6. <<e>> \o entries \in Seq(S)
    <2> HIDE DEF S
    <2> QED  BY <1>4, <1>5, ConcatProperties
  <1> QED  BY <1>6, Zenon DEF EntriesTyped, e

LEMMA TailTyped ==
  ASSUME NEW entries, EntriesTyped(entries), entries # << >>
  PROVE  EntriesTyped(Tail(entries))
  <1>1. PICK R : entries \in Seq([root : R, op_offset : Nat])
    BY DEF EntriesTyped
  <1>2. Tail(entries) \in Seq([root : R, op_offset : Nat])
    BY <1>1, HeadTailProperties, Zenon
  <1> QED  BY <1>2, Zenon DEF EntriesTyped

LEMMA NoEntriesTyped == EntriesTyped(<< >>)
  BY EmptySeq, Zenon DEF EntriesTyped

LEMMA RetainedTyped ==
  ASSUME IInv, TextsInv, NEW root \in RetainedRoots
  PROVE  IsRoot(root)
  <1>1. Read(m_buffers, root) /\ TextOf(m_buffers, root) \in Text
    BY TextTyped DEF TextsInv, Read, Reads, IInv
  <1>2. root.lf_count = Feeds(TextOf(m_buffers, root)) /\ GoodRoot(m_buffers, root)
    BY <1>1 DEF Read, Reads
  <1>3. Len(TextOf(m_buffers, root)) \in Nat
    BY <1>1, LenProperties DEF Text
  <1>4. root.lf_count \in Nat
    <2>1. Feeds(TextOf(m_buffers, root)) \in Nat
      BY <1>1, FeedsFiniteSet, Zenon
    <2> QED  BY <1>2, <2>1
  <1> QED  BY <1>2, <1>4 DEF GoodRoot, TiledShape, Shape, IsRoot

RootsTyped == \A root \in RetainedRoots : IsRoot(root)

LEMMA AllRootsTyped == IInv /\ TextsInv => RootsTyped
  BY RetainedTyped, Zenon DEF RootsTyped

LEMMA AllRootsTypedNext == IInv' /\ TextsInv' => RootsTyped'
  BY AllRootsTyped, PTL

LEMMA InvTyped == IInv /\ TextsInv /\ TypesInv => TypeOK
  <1> SUFFICES ASSUME IInv, TextsInv, TypesInv PROVE TypeOK
    OBVIOUS
  <1>1. ASSUME NEW entries, EntriesTyped(entries), NEW i \in DOMAIN entries
        PROVE  entries[i].op_offset \in Nat
    <2>1. PICK R : entries \in Seq([root : R, op_offset : Nat])
      BY <1>1 DEF EntriesTyped
    <2>2. entries[i] \in [root : R, op_offset : Nat]
      BY <2>1, ElementOfSeq, LenProperties
    <2> QED  BY <2>2
  <1> QED  BY <1>1, RetainedTyped DEF TypeOK, TypesInv, IInv, BuffersOK

LEMMA TypesInit == Init => TypesInv
  BY NoEntriesTyped DEF Init, TypesInv, MetaOf, EmptyRoot, BufferMeta

LEMMA TypesStep ==
  ASSUME IInv, TextsInv, TypesInv, [Next]_vars, IInv', TextsInv'
  PROVE  TypesInv'
  <1>1. m_meta' \in BufferMeta
    <2>1. CASE built'
      <3>1. m_root' \in RetainedRoots'
        BY DEF RetainedRoots
      <3>2. IsRoot(m_root')
        BY <3>1, AllRootsTypedNext DEF RootsTyped
      <3> QED  BY <2>1, <3>2 DEF IInv, MetaOf, BufferMeta, IsRoot
    <2>2. CASE ~built'
      <3>1. ASSUME NEW text \in InitialTexts, tree_builder_accept(text) PROVE m_meta' = m_meta
        BY <3>1 DEF tree_builder_accept
      <3>2. UNCHANGED vars => m_meta' = m_meta
        BY DEF vars
      <3>3. Next /\ built => built'
        BY DEF Next, tree_builder_accept, tree_builder_finish, insert, remove,
               commit_head, try_undo, try_redo, head, snap_to
      <3>4. Next /\ ~built =>
              (\E text \in InitialTexts : tree_builder_accept(text)) \/ tree_builder_finish
        BY DEF Next, insert, remove, commit_head, try_undo, try_redo, head, snap_to
      <3>5. UNCHANGED vars \/ \E text \in InitialTexts : tree_builder_accept(text)
        BY <2>2, <3>3, <3>4 DEF tree_builder_finish
      <3> QED  BY <3>1, <3>2, <3>5 DEF TypesInv
    <2> QED  BY <2>1, <2>2
  <1>2. length \in Nat
    BY DEF TypesInv, BufferMeta, length
  <1> DEFINE Rest == /\ m_end_last_insert' \in Nat \cup {Sentinel}
                     /\ EntriesTyped(m_undo_stack')
                     /\ EntriesTyped(m_redo_stack')
  <1>3. ASSUME NEW offset \in 0..length, NEW text \in Texts, NEW suppress \in BOOLEAN,
               insert(offset, text, suppress)
        PROVE  Rest
    <2>1. offset \in Nat /\ offset + Len(text) \in Nat
      BY <1>2, TextsAssumption, LenProperties DEF Text
    <2> QED  BY <1>3, <2>1, PushTyped, NoEntriesTyped DEF insert, append_undo, TypesInv
  <1>4. ASSUME NEW offset \in 0..length, NEW count, NEW suppress \in BOOLEAN,
               remove(offset, count, suppress)
        PROVE  Rest
    <2>1. offset \in Nat
      BY <1>2
    <2> QED  BY <1>4, <2>1, PushTyped, NoEntriesTyped DEF remove, append_undo, TypesInv
  <1>5. ASSUME NEW offset \in 0..length, commit_head(offset) \/ try_undo(offset) \/ try_redo(offset)
        PROVE  Rest
    <2>1. offset \in Nat
      BY <1>2
    <2> QED  BY <1>5, <2>1, PushTyped, TailTyped, NoEntriesTyped
             DEF commit_head, try_undo, try_redo, append_undo, TypesInv
  <1>6. ASSUME NEW h \in Handles, head(h) \/ snap_to(h)
        PROVE  Rest
    BY <1>6 DEF head, snap_to, TypesInv
  <1>7. ASSUME NEW text \in InitialTexts, tree_builder_accept(text)
        PROVE  Rest
    BY <1>7 DEF tree_builder_accept, TypesInv
  <1>8. CASE tree_builder_finish \/ UNCHANGED vars
    BY <1>1, <1>8 DEF tree_builder_finish, vars, TypesInv
  <1> QED  BY <1>1, <1>3, <1>4, <1>5, <1>6, <1>7, <1>8 DEF Next, TypesInv

(* Every variable of the tree keeps its type: the roots of the document,   *)
(* of both stacks and of the clients count their characters and line feeds *)
(* by natural numbers, and so does the cached metadata.                    *)
THEOREM TreeTyped == Spec => []TypeOK
  BY TextsHold, TypesInit, TypesStep, InvTyped, PTL DEF Spec

-----------------------------------------------------------------------------
(* Sequences of anything *)

IsSeq(s) == \E S : s \in Seq(S)

LEMMA SeqFacts ==
  ASSUME NEW s, IsSeq(s)
  PROVE  /\ Len(s) \in Nat /\ DOMAIN s = 1..Len(s)
         /\ s = << >> <=> Len(s) = 0
  <1>1. PICK S : s \in Seq(S)
    BY DEF IsSeq
  <1> QED  BY <1>1, LenProperties, EmptySeq

LEMMA SeqSame ==
  ASSUME NEW s, IsSeq(s), NEW t, IsSeq(t), Len(s) = Len(t), \A i \in 1..Len(s) : s[i] = t[i]
  PROVE  s = t
  <1>1. PICK S : s \in Seq(S)
    BY DEF IsSeq
  <1>2. PICK T : t \in Seq(T)
    BY DEF IsSeq
  <1>3. s \in Seq(S \cup T) /\ t \in Seq(S \cup T)
    BY <1>1, <1>2, SeqMonotonic
  <1> QED  BY <1>3, SeqEqual

LEMMA FunctionIsSeq ==
  ASSUME NEW n \in Nat, NEW f, f = [i \in 1..n |-> f[i]]
  PROVE  IsSeq(f) /\ Len(f) = n
  <1> DEFINE S == {f[i] : i \in 1..n}
  <1>1. f \in [1..n -> S]
    OBVIOUS
  <1>2. f \in Seq(S) /\ Len(f) = n
    BY <1>1
  <1> QED  BY <1>2 DEF IsSeq

LEMMA ConsIs ==
  ASSUME NEW s, IsSeq(s), NEW x
  PROVE  LET new == <<x>> \o s
         IN  /\ IsSeq(new) /\ Len(new) = Len(s) + 1 /\ new[1] = x
             /\ \A i \in 1..Len(s) : new[i + 1] = s[i]
             /\ \A i \in 2..(Len(s) + 1) : new[i] = s[i - 1]
  <1> DEFINE new == <<x>> \o s
  <1>1. PICK S : s \in Seq(S)
    BY DEF IsSeq
  <1>2. <<x>> \in Seq(S \cup {x}) /\ s \in Seq(S \cup {x})
        /\ Len(<<x>>) = 1 /\ <<x>>[1] = x /\ Len(s) \in Nat
    BY <1>1, SeqMonotonic
  <1>3. /\ new \in Seq(S \cup {x})
        /\ Len(new) = 1 + Len(s)
        /\ \A i \in 1..(1 + Len(s)) : new[i] = IF i <= 1 THEN <<x>>[i] ELSE s[i - 1]
    BY <1>2, ConcatProperties
  <1> HIDE DEF new
  <1>4. ASSUME NEW i \in 1..Len(s) PROVE new[i + 1] = s[i]
    <2>1. i + 1 \in 1..(1 + Len(s)) /\ ~(i + 1 <= 1) /\ (i + 1) - 1 = i
      BY <1>2
    <2> QED  BY <2>1, <1>3
  <1>5. ASSUME NEW i \in 2..(Len(s) + 1) PROVE new[i] = s[i - 1]
    <2>1. i \in 1..(1 + Len(s)) /\ ~(i <= 1)
      BY <1>2
    <2> QED  BY <2>1, <1>3
  <1>6. new[1] = x /\ Len(new) = Len(s) + 1
    BY <1>2, <1>3
  <1> QED  BY <1>3, <1>4, <1>5, <1>6 DEF IsSeq, new

LEMMA TailIs ==
  ASSUME NEW s, IsSeq(s), s # << >>
  PROVE  /\ IsSeq(Tail(s)) /\ Len(Tail(s)) = Len(s) - 1 /\ Head(s) = s[1]
         /\ Len(s) \in Nat /\ Len(s) > 0
         /\ \A i \in 1..(Len(s) - 1) : Tail(s)[i] = s[i + 1]
  <1>1. PICK S : s \in Seq(S)
    BY DEF IsSeq
  <1>2. /\ Len(s) \in Nat /\ Len(s) > 0 /\ Head(s) = s[1]
    BY <1>1, EmptySeq
  <1>3. /\ Tail(s) \in Seq(S) /\ Len(Tail(s)) = Len(s) - 1
        /\ \A i \in 1..Len(Tail(s)) : Tail(s)[i] = s[i + 1]
    BY <1>1, HeadTailProperties
  <1> QED  BY <1>2, <1>3 DEF IsSeq

LEMMA EmptyIs == IsSeq(<< >>) /\ Len(<< >>) = 0
  <1>1. << >> \in Seq({}) /\ Len(<< >>) = 0
    BY EmptySeq
  <1> QED  BY <1>1 DEF IsSeq

LEMMA AppendIs ==
  ASSUME NEW s, IsSeq(s), NEW x
  PROVE  /\ IsSeq(Append(s, x)) /\ Len(Append(s, x)) = Len(s) + 1
         /\ Append(s, x)[Len(s) + 1] = x
         /\ \A i \in 1..Len(s) : Append(s, x)[i] = s[i]
  <1>1. PICK S : s \in Seq(S)
    BY DEF IsSeq
  <1>2. s \in Seq(S \cup {x})
    BY <1>1, SeqMonotonic
  <1>3. Append(s, x) \in Seq(S \cup {x})
    BY <1>2
  <1> QED  BY <1>2, <1>3 DEF IsSeq

LEMMA FrontIs ==
  ASSUME NEW s, IsSeq(s), NEW last \in 0..Len(s)
  PROVE  /\ IsSeq(SubSeq(s, 1, last)) /\ Len(SubSeq(s, 1, last)) = last
         /\ \A i \in 1..last : SubSeq(s, 1, last)[i] = s[i]
  <1>1. PICK S : s \in Seq(S)
    BY DEF IsSeq
  <1>2. Len(s) \in Nat /\ \A i \in 1..last : s[i] \in S
    BY <1>1, LenProperties, ElementOfSeq
  <1>3. /\ SubSeq(s, 1, last) \in Seq(S) /\ Len(SubSeq(s, 1, last)) = last
        /\ \A i \in 1..last : SubSeq(s, 1, last)[i] = s[i]
    BY <1>1, <1>2, SubSeqProperties
  <1> QED  BY <1>3 DEF IsSeq

LEMMA ExceptIs ==
  ASSUME NEW s, IsSeq(s), NEW k \in 1..Len(s), NEW x
  PROVE  LET new == [s EXCEPT ![k] = x]
         IN  /\ IsSeq(new) /\ Len(new) = Len(s)
             /\ \A i \in 1..Len(s) : new[i] = IF i = k THEN x ELSE s[i]
  <1>1. PICK S : s \in Seq(S)
    BY DEF IsSeq
  <1>2. s \in Seq(S \cup {x})
    BY <1>1, SeqMonotonic
  <1> DEFINE new == [s EXCEPT ![k] = x]
  <1>3. new \in Seq(S \cup {x}) /\ Len(new) = Len(s)
        /\ \A i \in 1..Len(s) : new[i] = IF i = k THEN x ELSE s[i]
    BY <1>2, ExceptSeq
  <1> QED  BY <1>3 DEF IsSeq

(* s is t behind x, and t is s without its first element. *)
IsCons(s, x, t) == Len(s) = Len(t) + 1 /\ s[1] = x /\ \A i \in 1..Len(t) : s[i + 1] = t[i]

IsTail(t, s) == Len(t) = Len(s) - 1 /\ \A i \in 1..(Len(s) - 1) : t[i] = s[i + 1]

LEMMA ConsSame ==
  ASSUME NEW s, IsSeq(s), NEW x, NEW t, IsSeq(t), IsCons(s, x, t)
  PROVE  s = <<x>> \o t
  <1>0. Len(s) = Len(t) + 1 /\ s[1] = x /\ \A i \in 1..Len(t) : s[i + 1] = t[i]
    BY DEF IsCons
  <1> DEFINE new == <<x>> \o t
  <1>1. /\ IsSeq(new) /\ Len(new) = Len(t) + 1 /\ new[1] = x
        /\ \A i \in 1..Len(t) : new[i + 1] = t[i]
    BY ConsIs
  <1>2. Len(t) \in Nat
    BY SeqFacts
  <1> HIDE DEF new
  <1>3. ASSUME NEW i \in 1..Len(s) PROVE s[i] = new[i]
    <2>1. CASE i = 1
      BY <2>1, <1>0, <1>1
    <2>2. CASE i # 1
      <3>1. i - 1 \in 1..Len(t) /\ (i - 1) + 1 = i
        BY <2>2, <1>0, <1>2
      <3>2. s[(i - 1) + 1] = t[i - 1] /\ new[(i - 1) + 1] = t[i - 1]
        BY <3>1, <1>0, <1>1
      <3> QED  BY <3>1, <3>2
    <2> QED  BY <2>1, <2>2
  <1>4. s = new
    BY <1>0, <1>1, <1>3, SeqSame
  <1> QED  BY <1>4 DEF new

LEMMA TailSame ==
  ASSUME NEW s, IsSeq(s), NEW t, IsSeq(t), s # << >>, IsTail(t, s)
  PROVE  t = Tail(s)
  <1>1. /\ IsSeq(Tail(s)) /\ Len(Tail(s)) = Len(s) - 1
        /\ \A i \in 1..(Len(s) - 1) : Tail(s)[i] = s[i + 1]
    BY TailIs
  <1> QED  BY <1>1, SeqSame DEF IsTail

-----------------------------------------------------------------------------
(* Two stacks with something between them, as one line: the top of `past'   *)
(* is just before it, and the top of `ahead' just behind it.               *)

Line(past, here, ahead) ==
    [i \in 1..(Len(past) + 1 + Len(ahead)) |->
        IF i <= Len(past) THEN past[Len(past) + 1 - i]
        ELSE IF i = Len(past) + 1 THEN here
        ELSE ahead[i - Len(past) - 1]]

LEMMA LineIs ==
  ASSUME NEW past, IsSeq(past), NEW here, NEW ahead, IsSeq(ahead)
  PROVE  LET line == Line(past, here, ahead)
             p == Len(past)
         IN  /\ p \in Nat /\ Len(ahead) \in Nat
             /\ IsSeq(line) /\ Len(line) = p + 1 + Len(ahead)
             /\ \A i \in 1..p : line[i] = past[p + 1 - i]
             /\ line[p + 1] = here
             /\ \A i \in (p + 2)..(p + 1 + Len(ahead)) : line[i] = ahead[i - p - 1]
  <1> DEFINE line == Line(past, here, ahead)
             p == Len(past)
             n == p + 1 + Len(ahead)
  <1>1. p \in Nat /\ Len(ahead) \in Nat /\ n \in Nat
    BY SeqFacts
  <1>2. line = [i \in 1..n |-> line[i]]
    BY DEF Line
  <1>3. \A i \in 1..n : line[i] = IF i <= p THEN past[p + 1 - i]
                                  ELSE IF i = p + 1 THEN here ELSE ahead[i - p - 1]
    BY DEF Line
  <1> HIDE DEF line
  <1>4. IsSeq(line) /\ Len(line) = n
    BY <1>1, <1>2, FunctionIsSeq
  <1> HIDE DEF p
  <1>5. /\ \A i \in 1..p : i \in 1..n /\ i <= p
        /\ p + 1 \in 1..n /\ ~(p + 1 <= p)
        /\ \A i \in (p + 2)..n : i \in 1..n /\ ~(i <= p) /\ i # p + 1
    BY <1>1
  <1>6. /\ \A i \in 1..p : line[i] = past[p + 1 - i]
        /\ line[p + 1] = here
        /\ \A i \in (p + 2)..n : line[i] = ahead[i - p - 1]
    BY <1>3, <1>5
  <1> QED  BY <1>1, <1>4, <1>6 DEF line, p

(* What is ahead is cut off. *)
LEMMA LineCutOff ==
  ASSUME NEW past, IsSeq(past), NEW here, NEW ahead, IsSeq(ahead), NEW new
  PROVE  /\ SubSeq(Line(past, here, ahead), 1, Len(past) + 1) = Line(past, here, << >>)
         /\ Append(SubSeq(Line(past, here, ahead), 1, Len(past)), new) = Line(past, new, << >>)
  <1> DEFINE line == Line(past, here, ahead)
             p == Len(past)
             cut == SubSeq(line, 1, p + 1)
             front == SubSeq(line, 1, p)
             end == Append(front, new)
             A == Line(past, here, << >>)
             B == Line(past, new, << >>)
  <1>1. /\ p \in Nat /\ IsSeq(line) /\ Len(line) = p + 1 + Len(ahead) /\ Len(ahead) \in Nat
        /\ \A i \in 1..p : line[i] = past[p + 1 - i]
        /\ line[p + 1] = here
    BY LineIs
  <1>2. /\ IsSeq(A) /\ Len(A) = p + 1 + 0 /\ A[p + 1] = here
        /\ \A i \in 1..p : A[i] = past[p + 1 - i]
    BY LineIs, EmptyIs
  <1>3. /\ IsSeq(B) /\ Len(B) = p + 1 + 0 /\ B[p + 1] = new
        /\ \A i \in 1..p : B[i] = past[p + 1 - i]
    BY LineIs, EmptyIs
  <1> HIDE DEF line, p, A, B
  <1>4. p \in 0..Len(line) /\ p + 1 \in 0..Len(line)
    BY <1>1
  <1>5. IsSeq(cut) /\ Len(cut) = p + 1 /\ \A i \in 1..(p + 1) : cut[i] = line[i]
    BY <1>1, <1>4, FrontIs
  <1>6. IsSeq(front) /\ Len(front) = p /\ \A i \in 1..p : front[i] = line[i]
    BY <1>1, <1>4, FrontIs
  <1> HIDE DEF cut, front
  <1>7. /\ IsSeq(end) /\ Len(end) = p + 1 /\ end[p + 1] = new
        /\ \A i \in 1..p : end[i] = front[i]
    BY <1>6, AppendIs
  <1> HIDE DEF end
  <1>8. \A i \in 1..(p + 1) : i \in 1..p \/ i = p + 1
    BY <1>1
  <1>9. cut = A
    <2>1. \A i \in 1..(p + 1) : cut[i] = A[i]
      <3>1. ASSUME NEW i \in 1..(p + 1) PROVE cut[i] = A[i]
        BY <1>1, <1>2, <1>5, <1>8
      <3> QED  BY <3>1
    <2>2. Len(A) = p + 1
      BY <1>1, <1>2
    <2> QED  BY <1>2, <1>5, <2>1, <2>2, SeqSame
  <1>10. end = B
    <2>1. \A i \in 1..(p + 1) : end[i] = B[i]
      <3>1. ASSUME NEW i \in 1..(p + 1) PROVE end[i] = B[i]
        BY <1>1, <1>3, <1>6, <1>7, <1>8
      <3> QED  BY <3>1
    <2>2. Len(B) = p + 1
      BY <1>1, <1>3
    <2> QED  BY <1>3, <1>7, <2>1, <2>2, SeqSame
  <1> QED  BY <1>9, <1>10 DEF cut, end, front, line, p, A, B

(* Something else stands there. *)
LEMMA LineHere ==
  ASSUME NEW past, IsSeq(past), NEW here, NEW ahead, IsSeq(ahead), NEW new
  PROVE  /\ [Line(past, here, ahead) EXCEPT ![Len(past) + 1] = new] = Line(past, new, ahead)
         /\ Len(past) + 1 \in 1..Len(Line(past, here, ahead))
  <1> DEFINE p == Len(past)
             line == Line(past, here, ahead)
             B == Line(past, new, ahead)
             n == p + 1 + Len(ahead)
             E == [line EXCEPT ![p + 1] = new]
  <1>1. /\ p \in Nat /\ Len(ahead) \in Nat
        /\ IsSeq(line) /\ Len(line) = n
        /\ \A i \in 1..p : line[i] = past[p + 1 - i]
        /\ \A i \in (p + 2)..n : line[i] = ahead[i - p - 1]
    BY LineIs
  <1>2. /\ IsSeq(B) /\ Len(B) = n
        /\ \A i \in 1..p : B[i] = past[p + 1 - i]
        /\ B[p + 1] = new
        /\ \A i \in (p + 2)..n : B[i] = ahead[i - p - 1]
    BY LineIs
  <1> HIDE DEF line, B, p
  <1>3. p + 1 \in 1..Len(line)
    BY <1>1
  <1>4. /\ IsSeq(E) /\ Len(E) = Len(line)
        /\ \A i \in 1..Len(line) : E[i] = IF i = p + 1 THEN new ELSE line[i]
    <2> DEFINE k == p + 1
    <2>1. IsSeq(line) /\ k \in 1..Len(line)
      BY <1>1, <1>3
    <2> HIDE DEF k
    <2>2. /\ IsSeq([line EXCEPT ![k] = new])
          /\ Len([line EXCEPT ![k] = new]) = Len(line)
          /\ \A i \in 1..Len(line) :
                [line EXCEPT ![k] = new][i] = IF i = k THEN new ELSE line[i]
      BY <2>1, ExceptIs
    <2> QED  BY <2>2 DEF k
  <1> HIDE DEF E
  <1>5. ASSUME NEW i \in 1..n PROVE E[i] = B[i]
    <2>1. i \in 1..p \/ i = p + 1 \/ i \in (p + 2)..n
      BY <1>1
    <2>2. i \in 1..Len(line) /\ (i \in 1..p \/ i \in (p + 2)..n => i # p + 1)
      BY <1>1
    <2> HIDE DEF n
    <2> QED  BY <1>1, <1>2, <1>4, <2>1, <2>2
  <1>6. E = B
    BY <1>1, <1>2, <1>4, <1>5, SeqSame
  <1> QED  BY <1>3, <1>6 DEF E, B, line, p

(* What stood there goes to the past. *)
LEMMA LineOn ==
  ASSUME NEW past, IsSeq(past), NEW here, NEW new
  PROVE  Append(Line(past, here, << >>), new) = Line(<<here>> \o past, new, << >>)
  <1> DEFINE p == Len(past)
             more == <<here>> \o past
             line == Line(past, here, << >>)
             A == Append(line, new)
             B == Line(more, new, << >>)
  <1>1. /\ p \in Nat /\ IsSeq(line) /\ Len(line) = p + 1 + 0
        /\ line[p + 1] = here /\ \A i \in 1..p : line[i] = past[p + 1 - i]
    BY LineIs, EmptyIs
  <1>2. /\ IsSeq(more) /\ Len(more) = p + 1 /\ more[1] = here
        /\ \A i \in 2..(p + 1) : more[i] = past[i - 1]
    BY ConsIs
  <1> HIDE DEF line, more
  <1>3. /\ IsSeq(B) /\ Len(B) = (p + 1) + 1 + 0 /\ B[(p + 1) + 1] = new
        /\ \A i \in 1..(p + 1) : B[i] = more[(p + 1) + 1 - i]
    BY <1>2, LineIs, EmptyIs, SMTT(30)
  <1>4. /\ IsSeq(A) /\ Len(A) = Len(line) + 1 /\ A[Len(line) + 1] = new
        /\ \A i \in 1..Len(line) : A[i] = line[i]
    BY <1>1, AppendIs
  <1> HIDE DEF A, B, p
  <1>5. Len(line) = p + 1 /\ Len(A) = p + 2 /\ Len(B) = p + 2
    BY <1>1, <1>3, <1>4
  <1>6. ASSUME NEW i \in 1..(p + 2) PROVE A[i] = B[i]
    <2>1. CASE i = p + 2
      BY <2>1, <1>1, <1>3, <1>4, <1>5
    <2>2. CASE i = p + 1
      <3>1. i \in 1..(p + 1) /\ (p + 1) + 1 - i = 1
        BY <2>2, <1>1
      <3> QED  BY <2>2, <3>1, <1>1, <1>2, <1>3, <1>4, <1>5
    <2>3. CASE i <= p
      <3>1. /\ i \in 1..p /\ i \in 1..(p + 1) /\ (p + 1) + 1 - i \in 2..(p + 1)
            /\ ((p + 1) + 1 - i) - 1 = p + 1 - i
        BY <2>3, <1>1
      <3>2. B[i] = past[p + 1 - i]
        BY <3>1, <1>2, <1>3
      <3> QED  BY <3>1, <3>2, <1>1, <1>4, <1>5
    <2> QED  BY <2>1, <2>2, <2>3, <1>1
  <1>7. A = B
    BY <1>3, <1>4, <1>5, <1>6, SeqSame
  <1> QED  BY <1>7 DEF A, B, line, more

(* One place back along the line. *)
LEMMA LineBack ==
  ASSUME NEW past, IsSeq(past), past # << >>, NEW here, NEW ahead, IsSeq(ahead)
  PROVE  Line(Tail(past), Head(past), <<here>> \o ahead) = Line(past, here, ahead)
  <1> DEFINE p == Len(past)
             f == Len(ahead)
             less == Tail(past)
             more == <<here>> \o ahead
             A == Line(less, Head(past), more)
             B == Line(past, here, ahead)
  <1>1. /\ IsSeq(less) /\ Len(less) = p - 1 /\ Head(past) = past[1]
        /\ p \in Nat /\ p > 0
        /\ \A i \in 1..(p - 1) : less[i] = past[i + 1]
    BY TailIs
  <1>2. /\ IsSeq(more) /\ Len(more) = f + 1 /\ more[1] = here
        /\ \A i \in 2..(f + 1) : more[i] = ahead[i - 1]
    BY ConsIs
  <1>3. /\ f \in Nat /\ IsSeq(B) /\ Len(B) = p + 1 + f
        /\ \A i \in 1..p : B[i] = past[p + 1 - i]
        /\ B[p + 1] = here
        /\ \A i \in (p + 2)..(p + 1 + f) : B[i] = ahead[i - p - 1]
    BY LineIs
  <1> HIDE DEF less, more
  <1> DEFINE x == Head(past)
  <1> HIDE DEF x
  <1>a. IsSeq(less) /\ IsSeq(more)
    BY <1>1, <1>2
  <1>b. /\ IsSeq(Line(less, x, more)) /\ Len(Line(less, x, more)) = Len(less) + 1 + Len(more)
        /\ \A i \in 1..Len(less) : Line(less, x, more)[i] = less[Len(less) + 1 - i]
        /\ Line(less, x, more)[Len(less) + 1] = x
        /\ \A i \in (Len(less) + 2)..(Len(less) + 1 + Len(more)) :
              Line(less, x, more)[i] = more[i - Len(less) - 1]
    BY <1>a, LineIs
  <1>c. Len(less) = p - 1 /\ Len(more) = f + 1
    BY <1>1, <1>2
  <1>4. /\ IsSeq(A) /\ Len(A) = (p - 1) + 1 + (f + 1)
        /\ \A i \in 1..(p - 1) : A[i] = less[(p - 1) + 1 - i]
        /\ A[(p - 1) + 1] = Head(past)
        /\ \A i \in ((p - 1) + 2)..((p - 1) + 1 + (f + 1)) : A[i] = more[i - (p - 1) - 1]
    BY <1>b, <1>c DEF x
  <1> HIDE DEF A, B, p, f
  <1>5. Len(A) = p + 1 + f
    BY <1>1, <1>3, <1>4
  <1>6. ASSUME NEW i \in 1..(p + 1 + f) PROVE A[i] = B[i]
    <2>1. CASE i < p
      <3>1. /\ i \in 1..(p - 1) /\ i \in 1..p /\ (p - 1) + 1 - i \in 1..(p - 1)
            /\ ((p - 1) + 1 - i) + 1 = p + 1 - i
        BY <2>1, <1>1, <1>3
      <3>2. A[i] = past[p + 1 - i]
        BY <3>1, <1>1, <1>4
      <3> QED  BY <3>1, <3>2, <1>3
    <2>2. CASE i = p
      <3>1. i \in 1..p /\ p + 1 - i = 1 /\ i = (p - 1) + 1
        BY <2>2, <1>1
      <3> QED  BY <3>1, <1>1, <1>3, <1>4
    <2>3. CASE i = p + 1
      <3>1. i \in ((p - 1) + 2)..((p - 1) + 1 + (f + 1)) /\ i - (p - 1) - 1 = 1
        BY <2>3, <1>1, <1>3
      <3> QED  BY <2>3, <3>1, <1>2, <1>3, <1>4
    <2>4. CASE i > p + 1
      <3>1. /\ i \in ((p - 1) + 2)..((p - 1) + 1 + (f + 1)) /\ i - (p - 1) - 1 \in 2..(f + 1)
            /\ (i - (p - 1) - 1) - 1 = i - p - 1 /\ i \in (p + 2)..(p + 1 + f)
        BY <2>4, <1>1, <1>3
      <3>2. A[i] = ahead[i - p - 1]
        BY <3>1, <1>2, <1>4
      <3> QED  BY <3>1, <3>2, <1>3
    <2> QED  BY <2>1, <2>2, <2>3, <2>4, <1>1, <1>3
  <1>7. A = B
    BY <1>3, <1>4, <1>5, <1>6, SeqSame
  <1> QED  BY <1>7 DEF A, B, less, more

(* One place on along the line. *)
LEMMA LineForth ==
  ASSUME NEW past, IsSeq(past), NEW here, NEW ahead, IsSeq(ahead), ahead # << >>
  PROVE  Line(<<here>> \o past, Head(ahead), Tail(ahead)) = Line(past, here, ahead)
  <1> DEFINE more == <<here>> \o past
             x == Head(ahead)
             less == Tail(ahead)
             again == <<x>> \o less
  <1>1. /\ IsSeq(more) /\ Len(more) = Len(past) + 1 /\ more[1] = here
        /\ \A i \in 1..Len(past) : more[i + 1] = past[i]
    BY ConsIs
  <1>2. /\ IsSeq(less) /\ Len(less) = Len(ahead) - 1 /\ x = ahead[1]
        /\ Len(ahead) \in Nat /\ Len(ahead) > 0
        /\ \A i \in 1..(Len(ahead) - 1) : less[i] = ahead[i + 1]
    BY TailIs
  <1>3. Len(past) \in Nat /\ more # << >>
    BY <1>1, SeqFacts
  <1> HIDE DEF more, less, x
  <1>4. /\ IsSeq(Tail(more)) /\ Len(Tail(more)) = Len(more) - 1 /\ Head(more) = more[1]
        /\ \A i \in 1..(Len(more) - 1) : Tail(more)[i] = more[i + 1]
    BY <1>1, <1>3, TailIs
  <1>5. Tail(more) = past /\ Head(more) = here
    <2>1. Len(more) - 1 = Len(past)
      BY <1>1, <1>3
    <2> QED  BY <1>1, <1>4, <2>1, SeqSame
  <1>6. again = ahead
    <2>1. /\ IsSeq(again) /\ Len(again) = Len(less) + 1 /\ again[1] = x
          /\ \A i \in 2..(Len(less) + 1) : again[i] = less[i - 1]
      BY <1>2, ConsIs
    <2> HIDE DEF again
    <2>2. ASSUME NEW i \in 1..Len(ahead) PROVE again[i] = ahead[i]
      <3>1. CASE i = 1
        BY <3>1, <2>1, <1>2
      <3>2. CASE i # 1
        <4>1. i \in 2..(Len(less) + 1) /\ i - 1 \in 1..(Len(ahead) - 1) /\ (i - 1) + 1 = i
          BY <3>2, <1>2
        <4> QED  BY <4>1, <2>1, <1>2
      <3> QED  BY <3>1, <3>2
    <2>3. Len(again) = Len(ahead)
      BY <1>2, <2>1
    <2> QED  BY <2>1, <2>2, <2>3, SeqSame
  <1>7. Line(Tail(more), Head(more), <<x>> \o less) = Line(more, x, less)
    BY <1>1, <1>2, <1>3, LineBack
  <1> QED  BY <1>5, <1>6, <1>7 DEF more, less, x

(* A line of one. *)
LEMMA LineOfOne == Len(<< >>) = 0 /\ \A x : Line(<< >>, x, << >>) = <<x>>
  <1>1. Len(<< >>) = 0
    BY EmptyIs
  <1>2. ASSUME NEW x PROVE Line(<< >>, x, << >>) = <<x>>
    <2>1. Line(<< >>, x, << >>) = [i \in 1..1 |-> x]
      BY <1>1 DEF Line
    <2> QED  BY <2>1
  <1> QED  BY <1>1, <1>2

-----------------------------------------------------------------------------
(* The texts and the offsets of a history *)

TextsOf(buffers, entries) == [i \in 1..Len(entries) |-> TextOf(buffers, entries[i].root)]

OffsetsOf(entries) == [i \in 1..Len(entries) |-> entries[i].op_offset]

LEMMA SeenIs ==
  ASSUME NEW buffers, NEW entries, IsSeq(entries)
  PROVE  LET texts == TextsOf(buffers, entries)
             offsets == OffsetsOf(entries)
         IN  /\ IsSeq(texts) /\ IsSeq(offsets)
             /\ Len(texts) = Len(entries) /\ Len(offsets) = Len(entries)
             /\ \A i \in 1..Len(entries) :
                   /\ texts[i] = TextOf(buffers, entries[i].root)
                   /\ offsets[i] = entries[i].op_offset
  <1> DEFINE texts == TextsOf(buffers, entries)
             offsets == OffsetsOf(entries)
  <1>1. Len(entries) \in Nat
    BY SeqFacts
  <1>2. texts = [i \in 1..Len(entries) |-> texts[i]]
        /\ \A i \in 1..Len(entries) : texts[i] = TextOf(buffers, entries[i].root)
    BY DEF TextsOf
  <1>3. offsets = [i \in 1..Len(entries) |-> offsets[i]]
        /\ \A i \in 1..Len(entries) : offsets[i] = entries[i].op_offset
    BY DEF OffsetsOf
  <1> HIDE DEF texts, offsets
  <1>4. IsSeq(texts) /\ Len(texts) = Len(entries)
    BY <1>1, <1>2, FunctionIsSeq
  <1>5. IsSeq(offsets) /\ Len(offsets) = Len(entries)
    BY <1>1, <1>3, FunctionIsSeq
  <1> QED  BY <1>2, <1>3, <1>4, <1>5 DEF texts, offsets

(* What a push shows. *)
Pushed(buffers, new, root, offset, entries) ==
    /\ TextsOf(buffers, new) = <<TextOf(buffers, root)>> \o TextsOf(buffers, entries)
    /\ OffsetsOf(new) = <<offset>> \o OffsetsOf(entries)
    /\ IsSeq(new) /\ Len(new) = Len(entries) + 1

LEMMA PushedSeen ==
  ASSUME NEW buffers, NEW entries, IsSeq(entries), NEW root, NEW offset
  PROVE  Pushed(buffers, <<Entry(root, offset)>> \o entries, root, offset, entries)
  <1> DEFINE e == Entry(root, offset)
             new == <<e>> \o entries
             texts == TextsOf(buffers, entries)
             offsets == OffsetsOf(entries)
             newTexts == TextsOf(buffers, new)
             newOffsets == OffsetsOf(new)
  <1>1. e.root = root /\ e.op_offset = offset
    BY DEF Entry
  <1> HIDE DEF e
  <1>2. /\ IsSeq(new) /\ Len(new) = Len(entries) + 1 /\ new[1] = e /\ Len(entries) \in Nat
        /\ \A i \in 1..Len(entries) : new[i + 1] = entries[i]
    BY ConsIs, SeqFacts
  <1> HIDE DEF new
  <1>3. /\ IsSeq(texts) /\ IsSeq(offsets)
        /\ Len(texts) = Len(entries) /\ Len(offsets) = Len(entries)
        /\ \A i \in 1..Len(entries) : /\ texts[i] = TextOf(buffers, entries[i].root)
                                      /\ offsets[i] = entries[i].op_offset
    BY SeenIs
  <1>4. /\ IsSeq(newTexts) /\ IsSeq(newOffsets)
        /\ Len(newTexts) = Len(new) /\ Len(newOffsets) = Len(new)
        /\ \A i \in 1..Len(new) : /\ newTexts[i] = TextOf(buffers, new[i].root)
                                  /\ newOffsets[i] = new[i].op_offset
    BY <1>2, SeenIs
  <1> HIDE DEF texts, offsets, newTexts, newOffsets
  <1>5. 1 \in 1..Len(new) /\ \A i \in 1..Len(entries) : i + 1 \in 1..Len(new)
    BY <1>2
  <1>6. newTexts[1] = TextOf(buffers, root) /\ newOffsets[1] = offset
    <2>1. newTexts[1] = TextOf(buffers, new[1].root) /\ newOffsets[1] = new[1].op_offset
      BY <1>4, <1>5, Zenon
    <2> QED  BY <2>1, <1>1, <1>2, Zenon
  <1>7. \A i \in 1..Len(entries) : newTexts[i + 1] = texts[i] /\ newOffsets[i + 1] = offsets[i]
    <2>1. ASSUME NEW i \in 1..Len(entries)
          PROVE  newTexts[i + 1] = texts[i] /\ newOffsets[i + 1] = offsets[i]
      <3>1. i + 1 \in 1..Len(new) /\ new[i + 1] = entries[i]
        BY <1>2, <1>5
      <3> QED  BY <3>1, <1>3, <1>4, Zenon
    <2> QED  BY <2>1
  <1>8. newTexts = <<TextOf(buffers, root)>> \o texts
    <2>1. IsCons(newTexts, TextOf(buffers, root), texts)
      BY <1>2, <1>3, <1>4, <1>6, <1>7 DEF IsCons
    <2> QED  BY <1>3, <1>4, <2>1, ConsSame, Zenon
  <1>9. newOffsets = <<offset>> \o offsets
    <2>1. IsCons(newOffsets, offset, offsets)
      BY <1>2, <1>3, <1>4, <1>6, <1>7 DEF IsCons
    <2> QED  BY <1>3, <1>4, <2>1, ConsSame, Zenon
  <1> QED  BY <1>2, <1>8, <1>9 DEF Pushed, texts, offsets, newTexts, newOffsets, new, e

LEMMA PoppedSeen ==
  ASSUME NEW buffers, NEW entries, IsSeq(entries), entries # << >>
  PROVE  /\ TextsOf(buffers, Tail(entries)) = Tail(TextsOf(buffers, entries))
         /\ OffsetsOf(Tail(entries)) = Tail(OffsetsOf(entries))
         /\ TextOf(buffers, Head(entries).root) = Head(TextsOf(buffers, entries))
         /\ TextsOf(buffers, entries) # << >> /\ OffsetsOf(entries) # << >>
         /\ IsSeq(Tail(entries)) /\ Len(Tail(entries)) = Len(entries) - 1 /\ Len(entries) \in Nat
         /\ Len(entries) > 0
  <1> DEFINE new == Tail(entries)
             texts == TextsOf(buffers, entries)
             offsets == OffsetsOf(entries)
             newTexts == TextsOf(buffers, new)
             newOffsets == OffsetsOf(new)
  <1>2. /\ IsSeq(new) /\ Len(new) = Len(entries) - 1 /\ Head(entries) = entries[1]
        /\ Len(entries) \in Nat /\ Len(entries) > 0
        /\ \A i \in 1..(Len(entries) - 1) : new[i] = entries[i + 1]
    BY TailIs
  <1> HIDE DEF new
  <1>3. /\ IsSeq(texts) /\ IsSeq(offsets)
        /\ Len(texts) = Len(entries) /\ Len(offsets) = Len(entries)
        /\ \A i \in 1..Len(entries) : /\ texts[i] = TextOf(buffers, entries[i].root)
                                      /\ offsets[i] = entries[i].op_offset
    BY SeenIs
  <1>4. /\ IsSeq(newTexts) /\ IsSeq(newOffsets)
        /\ Len(newTexts) = Len(new) /\ Len(newOffsets) = Len(new)
        /\ \A i \in 1..Len(new) : /\ newTexts[i] = TextOf(buffers, new[i].root)
                                  /\ newOffsets[i] = new[i].op_offset
    BY <1>2, SeenIs
  <1> HIDE DEF texts, offsets, newTexts, newOffsets
  <1>5. \A i \in 1..(Len(entries) - 1) : i \in 1..Len(new) /\ i + 1 \in 1..Len(entries)
    BY <1>2
  <1>6. \A i \in 1..(Len(entries) - 1) : newTexts[i] = texts[i + 1] /\ newOffsets[i] = offsets[i + 1]
    <2>1. ASSUME NEW i \in 1..(Len(entries) - 1)
          PROVE  newTexts[i] = texts[i + 1] /\ newOffsets[i] = offsets[i + 1]
      <3>1. i \in 1..Len(new) /\ i + 1 \in 1..Len(entries) /\ new[i] = entries[i + 1]
        BY <1>2, <1>5
      <3> QED  BY <3>1, <1>3, <1>4, Zenon
    <2> QED  BY <2>1
  <1>7. texts # << >> /\ offsets # << >> /\ 1 \in 1..Len(entries)
    BY <1>2, <1>3, SeqFacts
  <1>8. newTexts = Tail(texts)
    <2>1. IsTail(newTexts, texts)
      BY <1>2, <1>3, <1>4, <1>6 DEF IsTail
    <2> QED  BY <1>3, <1>4, <1>7, <2>1, TailSame, Zenon
  <1>9. newOffsets = Tail(offsets)
    <2>1. IsTail(newOffsets, offsets)
      BY <1>2, <1>3, <1>4, <1>6 DEF IsTail
    <2> QED  BY <1>3, <1>4, <1>7, <2>1, TailSame, Zenon
  <1>10. Head(texts) = texts[1]
    BY <1>3, <1>7, TailIs
  <1> QED  BY <1>2, <1>3, <1>7, <1>8, <1>9, <1>10 DEF texts, offsets, newTexts, newOffsets, new

LEMMA EmptySeen ==
  ASSUME NEW buffers
  PROVE  TextsOf(buffers, << >>) = << >> /\ OffsetsOf(<< >>) = << >>
  <1>1. IsSeq(<< >>) /\ Len(<< >>) = 0
    BY EmptyIs
  <1>2. /\ IsSeq(TextsOf(buffers, << >>)) /\ IsSeq(OffsetsOf(<< >>))
        /\ Len(TextsOf(buffers, << >>)) = 0 /\ Len(OffsetsOf(<< >>)) = 0
    BY <1>1, SeenIs
  <1> QED  BY <1>2, SeqFacts

LEMMA SameSeen ==
  ASSUME NEW old, NEW new, NEW entries,
         \A i \in 1..Len(entries) :
            TextOf(new, entries[i].root) = TextOf(old, entries[i].root)
  PROVE  TextsOf(new, entries) = TextsOf(old, entries)
  BY DEF TextsOf

-----------------------------------------------------------------------------
(* The state of the document *)

LEMMA HistoryIsSeq ==
  ASSUME NEW buffers, NEW entries, HistoryOK(buffers, entries)
  PROVE  IsSeq(entries)
  BY DEF HistoryOK, IsSeq

DocTexts == Line(TextsOf(m_buffers, m_undo_stack), TextOf(m_buffers, m_root),
                 TextsOf(m_buffers, m_redo_stack))

DocOffsets == Line(OffsetsOf(m_undo_stack), Sentinel, OffsetsOf(m_redo_stack))

DocKept == [h \in Handles |-> TextOf(m_buffers, heads[h])]

(* What the variables of the document stand for. *)
DocShows ==
    /\ DocTimeline = DocTexts
    /\ DocMarks = DocOffsets
    /\ [h \in Handles |-> DocText[heads[h]]] = DocKept

LEMMA DocIs == IInv => DocShows
  <1> SUFFICES ASSUME IInv PROVE DocShows
    OBVIOUS
  <1> DEFINE past == Len(m_undo_stack)
             ahead == Len(m_redo_stack)
             n == past + 1 + ahead
             U == TextsOf(m_buffers, m_undo_stack)
             R == TextsOf(m_buffers, m_redo_stack)
             O == OffsetsOf(m_undo_stack)
             Q == OffsetsOf(m_redo_stack)
  <1>1. /\ IsSeq(m_undo_stack) /\ IsSeq(m_redo_stack)
        /\ past \in Nat /\ ahead \in Nat
        /\ DOMAIN m_undo_stack = 1..past /\ DOMAIN m_redo_stack = 1..ahead
    BY HistoryIsSeq, SeqFacts DEF IInv
  <1>2. /\ Len(U) = past /\ Len(O) = past
        /\ \A i \in 1..past : /\ U[i] = TextOf(m_buffers, m_undo_stack[i].root)
                              /\ O[i] = m_undo_stack[i].op_offset
    BY <1>1, SeenIs
  <1>3. /\ Len(R) = ahead /\ Len(Q) = ahead
        /\ \A i \in 1..ahead : /\ R[i] = TextOf(m_buffers, m_redo_stack[i].root)
                               /\ Q[i] = m_redo_stack[i].op_offset
    <2> HIDE DEF R, Q, U, O, n, past
    <2>1. IsSeq(m_redo_stack)
      BY <1>1
    <2>2. \A entries : IsSeq(entries) =>
            /\ Len(TextsOf(m_buffers, entries)) = Len(entries)
            /\ Len(OffsetsOf(entries)) = Len(entries)
            /\ \A i \in 1..Len(entries) :
                  /\ TextsOf(m_buffers, entries)[i] = TextOf(m_buffers, entries[i].root)
                  /\ OffsetsOf(entries)[i] = entries[i].op_offset
      BY SeenIs
    <2> QED  BY <2>1, <2>2, Zenon DEF R, Q
  <1>4. \A root \in RetainedRoots : DocText[root] = TextOf(m_buffers, root)
    BY DEF DocText
  <1>5. /\ m_root \in RetainedRoots /\ \A h \in Handles : heads[h] \in RetainedRoots
        /\ \A i \in 1..past : m_undo_stack[i].root \in RetainedRoots
        /\ \A i \in 1..ahead : m_redo_stack[i].root \in RetainedRoots
    BY <1>1 DEF RetainedRoots
  <1> HIDE DEF U, R, O, Q
  <1>6. DocTimeline = Line(U, TextOf(m_buffers, m_root), R)
    <2> DEFINE T(i) == DocText[IF i <= past THEN m_undo_stack[past + 1 - i].root
                               ELSE IF i = past + 1 THEN m_root
                               ELSE m_redo_stack[i - past - 1].root]
               L(i) == IF i <= past THEN U[past + 1 - i]
                       ELSE IF i = past + 1 THEN TextOf(m_buffers, m_root)
                       ELSE R[i - past - 1]
    <2>1. DocTimeline = [i \in 1..n |-> T(i)]
      BY DEF DocTimeline
    <2>2. Line(U, TextOf(m_buffers, m_root), R) = [i \in 1..n |-> L(i)]
      BY <1>2, <1>3 DEF Line
    <2>3. ASSUME NEW i \in 1..n PROVE T(i) = L(i)
      <3>1. CASE i <= past
        <4>1. past + 1 - i \in 1..past
          BY <3>1, <1>1
        <4>2. U[past + 1 - i] = DocText[m_undo_stack[past + 1 - i].root]
          BY <4>1, <1>2, <1>4, <1>5
        <4> QED  BY <4>2, <3>1
      <3>2. CASE i = past + 1
        <4>1. ~(i <= past)
          BY <3>2, <1>1
        <4> QED  BY <4>1, <3>2, <1>4, <1>5
      <3>3. CASE i > past + 1
        <4>1. i - past - 1 \in 1..ahead /\ ~(i <= past) /\ i # past + 1
          BY <3>3, <1>1
        <4>2. R[i - past - 1] = DocText[m_redo_stack[i - past - 1].root]
          BY <4>1, <1>3, <1>4, <1>5
        <4> QED  BY <4>1, <4>2
      <3> QED  BY <3>1, <3>2, <3>3, <1>1
    <2> HIDE DEF T, L
    <2> QED  BY <2>1, <2>2, <2>3
  <1>7. DocMarks = Line(O, Sentinel, Q)
    <2> DEFINE T(i) == IF i <= past THEN m_undo_stack[past + 1 - i].op_offset
                       ELSE IF i = past + 1 THEN Sentinel
                       ELSE m_redo_stack[i - past - 1].op_offset
               L(i) == IF i <= past THEN O[past + 1 - i]
                       ELSE IF i = past + 1 THEN Sentinel
                       ELSE Q[i - past - 1]
    <2>1. DocMarks = [i \in 1..n |-> T(i)]
      BY DEF DocMarks
    <2>2. Line(O, Sentinel, Q) = [i \in 1..n |-> L(i)]
      BY <1>2, <1>3 DEF Line
    <2>3. ASSUME NEW i \in 1..n PROVE T(i) = L(i)
      <3>1. CASE i <= past
        <4>1. past + 1 - i \in 1..past
          BY <3>1, <1>1
        <4> QED  BY <4>1, <3>1, <1>2
      <3>2. CASE i = past + 1
        BY <3>2
      <3>3. CASE i > past + 1
        <4>1. i - past - 1 \in 1..ahead /\ ~(i <= past) /\ i # past + 1
          BY <3>3, <1>1
        <4> QED  BY <4>1, <1>3
      <3> QED  BY <3>1, <3>2, <3>3, <1>1
    <2> HIDE DEF T, L
    <2> QED  BY <2>1, <2>2, <2>3
  <1>8. [h \in Handles |-> DocText[heads[h]]] = DocKept
    BY <1>4, <1>5 DEF DocKept
  <1> QED  BY <1>6, <1>7, <1>8 DEF U, R, O, Q, DocTexts, DocOffsets, DocShows

LEMMA DocIsAfter == IInv' => DocShows'
  BY DocIs, PTL

-----------------------------------------------------------------------------
(* The steps of the document *)

(* Where the document stands before a step. *)
LEMMA DocNow ==
  ASSUME IInv
  PROVE  LET U == TextsOf(m_buffers, m_undo_stack)
             R == TextsOf(m_buffers, m_redo_stack)
             O == OffsetsOf(m_undo_stack)
             Q == OffsetsOf(m_redo_stack)
         IN  /\ IsSeq(m_undo_stack) /\ IsSeq(m_redo_stack)
             /\ IsSeq(U) /\ IsSeq(R) /\ IsSeq(O) /\ IsSeq(Q)
             /\ Len(m_undo_stack) \in Nat
             /\ Len(U) = Len(m_undo_stack) /\ Len(O) = Len(m_undo_stack)
             /\ DocTimeline = Line(U, TextOf(m_buffers, m_root), R)
             /\ DocMarks = Line(O, Sentinel, Q)
             /\ DocTimeline[Len(m_undo_stack) + 1] = TextOf(m_buffers, m_root)
  <1> DEFINE U == TextsOf(m_buffers, m_undo_stack)
             R == TextsOf(m_buffers, m_redo_stack)
             O == OffsetsOf(m_undo_stack)
             Q == OffsetsOf(m_redo_stack)
  <1>1. IsSeq(m_undo_stack) /\ IsSeq(m_redo_stack)
    BY HistoryIsSeq DEF IInv
  <1>2. IsSeq(U) /\ IsSeq(O) /\ Len(U) = Len(m_undo_stack) /\ Len(O) = Len(m_undo_stack)
        /\ Len(m_undo_stack) \in Nat
    BY <1>1, SeenIs, SeqFacts
  <1>3. IsSeq(R) /\ IsSeq(Q)
    BY <1>1, SeenIs
  <1>4. DocTimeline = Line(U, TextOf(m_buffers, m_root), R) /\ DocMarks = Line(O, Sentinel, Q)
    BY DocIs DEF DocShows, DocTexts, DocOffsets
  <1> HIDE DEF U, R, O, Q
  <1>5. Line(U, TextOf(m_buffers, m_root), R)[Len(U) + 1] = TextOf(m_buffers, m_root)
    BY <1>2, <1>3, LineIs
  <1> QED  BY <1>1, <1>2, <1>3, <1>4, <1>5 DEF U, R, O, Q

(* The buffers may have grown: what was there before reads the same. *)
LEMMA StaySeen ==
  ASSUME IInv, TextsInv, TextsStay
  PROVE  /\ TextsOf(m_buffers', m_undo_stack) = TextsOf(m_buffers, m_undo_stack)
         /\ TextsOf(m_buffers', m_redo_stack) = TextsOf(m_buffers, m_redo_stack)
         /\ \A h \in Handles : TextOf(m_buffers', heads[h]) = TextOf(m_buffers, heads[h])
         /\ TextOf(m_buffers', m_root) = TextOf(m_buffers, m_root)
  <1>1. \A root \in RetainedRoots : TextOf(m_buffers', root) = TextOf(m_buffers, root)
    BY DEF TextsInv, TextsStay
  <1>2. /\ DOMAIN m_undo_stack = 1..Len(m_undo_stack)
        /\ DOMAIN m_redo_stack = 1..Len(m_redo_stack)
    BY HistoryIsSeq, SeqFacts DEF IInv
  <1>3. /\ \A i \in 1..Len(m_undo_stack) : m_undo_stack[i].root \in RetainedRoots
        /\ \A i \in 1..Len(m_redo_stack) : m_redo_stack[i].root \in RetainedRoots
        /\ \A h \in Handles : heads[h] \in RetainedRoots
        /\ m_root \in RetainedRoots
    BY <1>2 DEF RetainedRoots
  <1>4. TextsOf(m_buffers', m_undo_stack) = TextsOf(m_buffers, m_undo_stack)
    BY <1>1, <1>3, SameSeen
  <1>5. TextsOf(m_buffers', m_redo_stack) = TextsOf(m_buffers, m_redo_stack)
    BY <1>1, <1>3, SameSeen
  <1> QED  BY <1>1, <1>3, <1>4, <1>5

(* What a step leaves of the document. *)
LEMMA DocAfter ==
  ASSUME IInv'
  PROVE  /\ DocTimeline' = Line(TextsOf(m_buffers', m_undo_stack'), TextOf(m_buffers', m_root'),
                                TextsOf(m_buffers', m_redo_stack'))
         /\ DocMarks' = Line(OffsetsOf(m_undo_stack'), Sentinel, OffsetsOf(m_redo_stack'))
         /\ [h \in Handles |-> DocText[heads[h]]]' = [h \in Handles |-> TextOf(m_buffers', heads'[h])]
  <1>1. DocShows'
    BY DocIsAfter
  <1> QED  BY <1>1 DEF DocShows, DocTexts, DocOffsets, DocKept

LEMMA KeptStay ==
  ASSUME IInv, TextsInv, TextsStay, IInv', UNCHANGED heads
  PROVE  [h \in Handles |-> DocText[heads[h]]]' = [h \in Handles |-> DocText[heads[h]]]
  <1>1. [h \in Handles |-> DocText[heads[h]]]' = [h \in Handles |-> TextOf(m_buffers', heads'[h])]
    BY DocAfter
  <1>2. [h \in Handles |-> DocText[heads[h]]] = DocKept
    BY DocIs DEF DocShows
  <1>3. \A h \in Handles : TextOf(m_buffers', heads[h]) = TextOf(m_buffers, heads[h])
    BY StaySeen
  <1> QED  BY <1>1, <1>2, <1>3 DEF DocKept

(* An edit that records the state before it. *)
LEMMA EditBehindBoundary ==
  ASSUME IInv, TextsInv, TextsStay, IInv', NEW offset,
         m_undo_stack' = <<Entry(m_root, offset)>> \o m_undo_stack,
         m_redo_stack' = << >>
  PROVE  Document!Edit(TextOf(m_buffers', m_root'), TRUE, offset)
  <1> DEFINE U == TextsOf(m_buffers, m_undo_stack)
             R == TextsOf(m_buffers, m_redo_stack)
             O == OffsetsOf(m_undo_stack)
             Q == OffsetsOf(m_redo_stack)
             p == Len(m_undo_stack)
             old == TextOf(m_buffers, m_root)
             new == TextOf(m_buffers', m_root')
  <1>1. /\ IsSeq(m_undo_stack) /\ IsSeq(U) /\ IsSeq(R) /\ IsSeq(O) /\ IsSeq(Q)
        /\ p \in Nat /\ Len(U) = p /\ Len(O) = p
        /\ DocTimeline = Line(U, old, R) /\ DocMarks = Line(O, Sentinel, Q)
    BY DocNow
  <1>2. /\ TextsOf(m_buffers', m_undo_stack') = <<TextOf(m_buffers', m_root)>>
                                                  \o TextsOf(m_buffers', m_undo_stack)
        /\ OffsetsOf(m_undo_stack') = <<offset>> \o O
        /\ Len(m_undo_stack') = p + 1
    <2> DEFINE pushed == <<Entry(m_root, offset)>> \o m_undo_stack
    <2>1. Pushed(m_buffers', pushed, m_root, offset, m_undo_stack)
      BY <1>1, PushedSeen
    <2>2. m_undo_stack' = pushed
      OBVIOUS
    <2> HIDE DEF pushed
    <2> QED  BY <2>1, <2>2 DEF Pushed
  <1>3. TextsOf(m_buffers', m_undo_stack) = U /\ TextOf(m_buffers', m_root) = old
    BY StaySeen
  <1>4. TextsOf(m_buffers', m_redo_stack') = << >> /\ OffsetsOf(m_redo_stack') = << >>
    BY EmptySeen
  <1>5. /\ DocTimeline' = Line(<<old>> \o U, new, << >>)
        /\ DocMarks' = Line(<<offset>> \o O, Sentinel, << >>)
    BY <1>2, <1>3, <1>4, DocAfter
  <1> HIDE DEF U, R, O, Q, p, old, new
  <1>6. Append(SubSeq(DocTimeline, 1, p + 1), new) = DocTimeline'
    <2>1. SubSeq(Line(U, old, R), 1, Len(U) + 1) = Line(U, old, << >>)
      BY <1>1, LineCutOff
    <2>2. Append(Line(U, old, << >>), new) = Line(<<old>> \o U, new, << >>)
      BY <1>1, LineOn
    <2> QED  BY <1>1, <1>5, <2>1, <2>2
  <1>7. Append([SubSeq(DocMarks, 1, p + 1) EXCEPT ![p + 1] = offset], Sentinel) = DocMarks'
    <2>1. SubSeq(Line(O, Sentinel, Q), 1, Len(O) + 1) = Line(O, Sentinel, << >>)
      BY <1>1, LineCutOff
    <2>2. [Line(O, Sentinel, << >>) EXCEPT ![Len(O) + 1] = offset] = Line(O, offset, << >>)
      BY <1>1, EmptyIs, LineHere
    <2>3. Append(Line(O, offset, << >>), Sentinel) = Line(<<offset>> \o O, Sentinel, << >>)
      BY <1>1, LineOn
    <2> QED  BY <1>1, <1>5, <2>1, <2>2, <2>3
  <1>8. (p + 1) + 1 - 1 = p + 1 /\ Len(m_undo_stack') + 1 = (p + 1) + 1
        /\ (Len(m_undo_stack') + 1) - 1 = p + 1
    BY <1>1, <1>2
  <1> QED  BY <1>6, <1>7, <1>8 DEF Document!Edit, Document!Mark, p, new

(* An edit that goes on from the last insertion. *)
LEMMA EditJoined ==
  ASSUME IInv, TextsInv, TextsStay, IInv', NEW offset,
         m_undo_stack' = m_undo_stack, m_redo_stack' = << >>
  PROVE  Document!Edit(TextOf(m_buffers', m_root'), FALSE, offset)
  <1> DEFINE U == TextsOf(m_buffers, m_undo_stack)
             R == TextsOf(m_buffers, m_redo_stack)
             O == OffsetsOf(m_undo_stack)
             Q == OffsetsOf(m_redo_stack)
             p == Len(m_undo_stack)
             old == TextOf(m_buffers, m_root)
             new == TextOf(m_buffers', m_root')
  <1>1. /\ IsSeq(m_undo_stack) /\ IsSeq(U) /\ IsSeq(R) /\ IsSeq(O) /\ IsSeq(Q)
        /\ p \in Nat /\ Len(U) = p /\ Len(O) = p
        /\ DocTimeline = Line(U, old, R) /\ DocMarks = Line(O, Sentinel, Q)
    BY DocNow
  <1>2. TextsOf(m_buffers', m_undo_stack') = U /\ OffsetsOf(m_undo_stack') = O
    BY StaySeen
  <1>3. TextsOf(m_buffers', m_redo_stack') = << >> /\ OffsetsOf(m_redo_stack') = << >>
    BY EmptySeen
  <1>4. DocTimeline' = Line(U, new, << >>) /\ DocMarks' = Line(O, Sentinel, << >>)
    BY <1>2, <1>3, DocAfter
  <1> HIDE DEF U, R, O, Q, p, old, new
  <1>5. Append(SubSeq(DocTimeline, 1, p), new) = DocTimeline'
    <2>1. Append(SubSeq(Line(U, old, R), 1, Len(U)), new) = Line(U, new, << >>)
      BY <1>1, LineCutOff
    <2> QED  BY <1>1, <1>4, <2>1
  <1>6. SubSeq(DocMarks, 1, p + 1) = DocMarks'
    <2>1. SubSeq(Line(O, Sentinel, Q), 1, Len(O) + 1) = Line(O, Sentinel, << >>)
      BY <1>1, LineCutOff
    <2> QED  BY <1>1, <1>4, <2>1
  <1>7. (p + 1) - 1 = p
    BY <1>1
  <1> QED  BY <1>5, <1>6, <1>7 DEF Document!Edit, Document!Mark, p, new

(* An edit that the history does not hear of. *)
LEMMA EditUnheard ==
  ASSUME IInv, TextsInv, TextsStay, IInv', UNCHANGED <<m_undo_stack, m_redo_stack>>
  PROVE  Document!EditUnrecorded(TextOf(m_buffers', m_root'))
  <1> DEFINE U == TextsOf(m_buffers, m_undo_stack)
             R == TextsOf(m_buffers, m_redo_stack)
             O == OffsetsOf(m_undo_stack)
             Q == OffsetsOf(m_redo_stack)
             p == Len(m_undo_stack)
             old == TextOf(m_buffers, m_root)
             new == TextOf(m_buffers', m_root')
  <1>1. /\ IsSeq(U) /\ IsSeq(R) /\ Len(U) = p
        /\ DocTimeline = Line(U, old, R) /\ DocMarks = Line(O, Sentinel, Q)
    BY DocNow
  <1>2. /\ TextsOf(m_buffers', m_undo_stack') = U /\ OffsetsOf(m_undo_stack') = O
        /\ TextsOf(m_buffers', m_redo_stack') = R /\ OffsetsOf(m_redo_stack') = Q
    BY StaySeen
  <1>3. DocTimeline' = Line(U, new, R) /\ DocMarks' = Line(O, Sentinel, Q)
    BY <1>2, DocAfter
  <1> HIDE DEF U, R, O, Q, p, old, new
  <1>4. [DocTimeline EXCEPT ![p + 1] = new] = DocTimeline'
    <2>1. [Line(U, old, R) EXCEPT ![Len(U) + 1] = new] = Line(U, new, R)
      BY <1>1, LineHere
    <2> QED  BY <1>1, <1>3, <2>1
  <1> QED  BY <1>1, <1>3, <1>4 DEF Document!EditUnrecorded, p, new

(* Where undo and redo put the document. *)
LEMMA MovedBack ==
  ASSUME IInv, TextsInv, NEW offset, try_undo(offset), IInv'
  PROVE  /\ DocTimeline' = DocTimeline
         /\ DocMarks' = Document!Mark(Document!Mark(DocMarks, Len(m_undo_stack) + 1, offset),
                                      Len(m_undo_stack), Sentinel)
         /\ Len(m_undo_stack') + 1 = Len(m_undo_stack)
         /\ Len(m_undo_stack) \in DOMAIN DocMarks
  <1> DEFINE U == TextsOf(m_buffers, m_undo_stack)
             R == TextsOf(m_buffers, m_redo_stack)
             O == OffsetsOf(m_undo_stack)
             Q == OffsetsOf(m_redo_stack)
             p == Len(m_undo_stack)
             old == TextOf(m_buffers, m_root)
  <1>1. /\ IsSeq(m_undo_stack) /\ IsSeq(m_redo_stack) /\ IsSeq(U) /\ IsSeq(R) /\ IsSeq(O) /\ IsSeq(Q)
        /\ p \in Nat /\ Len(U) = p /\ Len(O) = p
        /\ DocTimeline = Line(U, old, R) /\ DocMarks = Line(O, Sentinel, Q)
    BY DocNow
  <1>2. /\ m_undo_stack # << >> /\ m_undo_stack' = Tail(m_undo_stack)
        /\ m_redo_stack' = <<Entry(m_root, offset)>> \o m_redo_stack
        /\ m_root' = Head(m_undo_stack).root /\ m_buffers' = m_buffers
    BY DEF try_undo, set_root
  <1>3. /\ TextsOf(m_buffers', m_undo_stack') = Tail(U) /\ OffsetsOf(m_undo_stack') = Tail(O)
        /\ TextOf(m_buffers', m_root') = Head(U) /\ U # << >> /\ O # << >>
        /\ Len(m_undo_stack') = p - 1 /\ p > 0
    BY <1>1, <1>2, PoppedSeen
  <1>4. /\ TextsOf(m_buffers', m_redo_stack') = <<old>> \o R
        /\ OffsetsOf(m_redo_stack') = <<offset>> \o Q
    <2>1. Pushed(m_buffers, m_redo_stack', m_root, offset, m_redo_stack)
      BY <1>1, <1>2, PushedSeen, Zenon
    <2> QED  BY <1>2, <2>1, Zenon DEF Pushed
  <1>5. /\ DocTimeline' = Line(Tail(U), Head(U), <<old>> \o R)
        /\ DocMarks' = Line(Tail(O), Sentinel, <<offset>> \o Q)
    BY <1>3, <1>4, DocAfter
  <1> HIDE DEF U, R, O, Q, old
  <1>6. DocTimeline' = DocTimeline
    <2>1. Line(Tail(U), Head(U), <<old>> \o R) = Line(U, old, R)
      BY <1>1, <1>3, LineBack
    <2> QED  BY <1>1, <1>5, <2>1
  <1>7. DocMarks' = [[DocMarks EXCEPT ![p + 1] = offset] EXCEPT ![p] = Sentinel]
    <2> DEFINE first == [DocMarks EXCEPT ![p + 1] = offset]
               less == Tail(O)
               more == <<offset>> \o Q
               x == Head(O)
    <2>1. IsSeq(less) /\ IsSeq(more) /\ Len(less) + 1 = p
      <3>1. IsSeq(less) /\ Len(less) = Len(O) - 1
        BY <1>1, <1>3, TailIs
      <3>2. IsSeq(more)
        BY <1>1, ConsIs
      <3> QED  BY <3>1, <3>2, <1>1
    <2>2. [Line(O, Sentinel, Q) EXCEPT ![Len(O) + 1] = offset] = Line(O, offset, Q)
      BY <1>1, LineHere
    <2>3. Line(less, x, more) = Line(O, offset, Q)
      BY <1>1, <1>3, LineBack
    <2>4. first = Line(less, x, more)
      BY <1>1, <2>2, <2>3
    <2>5. DocMarks' = Line(less, Sentinel, more)
      BY <1>5
    <2> HIDE DEF first, less, more, x
    <2>6. [Line(less, x, more) EXCEPT ![Len(less) + 1] = Sentinel] = Line(less, Sentinel, more)
      BY <2>1, LineHere
    <2>7. [first EXCEPT ![p] = Sentinel] = DocMarks'
      BY <2>1, <2>4, <2>5, <2>6
    <2> QED  BY <2>7 DEF first
  <1>8. p \in DOMAIN DocMarks
    <2>1. /\ IsSeq(Line(O, Sentinel, Q)) /\ Len(Line(O, Sentinel, Q)) = Len(O) + 1 + Len(Q)
          /\ Len(Q) \in Nat
      BY <1>1, LineIs
    <2>2. DOMAIN Line(O, Sentinel, Q) = 1..(p + 1 + Len(Q))
      BY <1>1, <2>1, SeqFacts
    <2>3. p \in 1..(p + 1 + Len(Q))
      BY <1>1, <1>3, <2>1
    <2> QED  BY <1>1, <2>2, <2>3
  <1>9. Len(m_undo_stack') + 1 = p
    BY <1>1, <1>3
  <1> QED  BY <1>6, <1>7, <1>8, <1>9 DEF Document!Mark, p

LEMMA MovedForth ==
  ASSUME IInv, TextsInv, NEW offset, try_redo(offset), IInv'
  PROVE  /\ DocTimeline' = DocTimeline
         /\ DocMarks' = Document!Mark(Document!Mark(DocMarks, Len(m_undo_stack) + 1, offset),
                                      Len(m_undo_stack) + 2, Sentinel)
         /\ Len(m_undo_stack') + 1 = Len(m_undo_stack) + 2
         /\ Len(m_undo_stack) + 2 \in DOMAIN DocMarks
  <1> DEFINE U == TextsOf(m_buffers, m_undo_stack)
             R == TextsOf(m_buffers, m_redo_stack)
             O == OffsetsOf(m_undo_stack)
             Q == OffsetsOf(m_redo_stack)
             p == Len(m_undo_stack)
             old == TextOf(m_buffers, m_root)
  <1>1. /\ IsSeq(m_undo_stack) /\ IsSeq(m_redo_stack) /\ IsSeq(U) /\ IsSeq(R) /\ IsSeq(O) /\ IsSeq(Q)
        /\ p \in Nat /\ Len(U) = p /\ Len(O) = p
        /\ DocTimeline = Line(U, old, R) /\ DocMarks = Line(O, Sentinel, Q)
    BY DocNow
  <1>2. /\ m_redo_stack # << >> /\ m_redo_stack' = Tail(m_redo_stack)
        /\ m_undo_stack' = <<Entry(m_root, offset)>> \o m_undo_stack
        /\ m_root' = Head(m_redo_stack).root /\ m_buffers' = m_buffers
    BY DEF try_redo, set_root
  <1>3. /\ TextsOf(m_buffers', m_redo_stack') = Tail(R) /\ OffsetsOf(m_redo_stack') = Tail(Q)
        /\ TextOf(m_buffers', m_root') = Head(R) /\ R # << >> /\ Q # << >>
    BY <1>1, <1>2, PoppedSeen
  <1>4. /\ TextsOf(m_buffers', m_undo_stack') = <<old>> \o U
        /\ OffsetsOf(m_undo_stack') = <<offset>> \o O
        /\ Len(m_undo_stack') = p + 1
    <2>1. Pushed(m_buffers, m_undo_stack', m_root, offset, m_undo_stack)
      BY <1>1, <1>2, PushedSeen, Zenon
    <2> QED  BY <1>2, <2>1, Zenon DEF Pushed
  <1>5. /\ DocTimeline' = Line(<<old>> \o U, Head(R), Tail(R))
        /\ DocMarks' = Line(<<offset>> \o O, Sentinel, Tail(Q))
    BY <1>3, <1>4, DocAfter
  <1> HIDE DEF U, R, O, Q, old
  <1>6. DocTimeline' = DocTimeline
    <2>1. Line(<<old>> \o U, Head(R), Tail(R)) = Line(U, old, R)
      BY <1>1, <1>3, LineForth
    <2> QED  BY <1>1, <1>5, <2>1
  <1>7. DocMarks' = [[DocMarks EXCEPT ![p + 1] = offset] EXCEPT ![p + 2] = Sentinel]
    <2> DEFINE first == [DocMarks EXCEPT ![p + 1] = offset]
               more == <<offset>> \o O
               less == Tail(Q)
               x == Head(Q)
    <2>1. IsSeq(less) /\ IsSeq(more) /\ Len(more) + 1 = p + 2
      <3>1. IsSeq(less)
        BY <1>1, <1>3, TailIs
      <3>2. IsSeq(more) /\ Len(more) = Len(O) + 1
        BY <1>1, ConsIs
      <3> QED  BY <3>1, <3>2, <1>1
    <2>2. [Line(O, Sentinel, Q) EXCEPT ![Len(O) + 1] = offset] = Line(O, offset, Q)
      BY <1>1, LineHere
    <2>3. Line(more, x, less) = Line(O, offset, Q)
      BY <1>1, <1>3, LineForth
    <2>4. first = Line(more, x, less)
      BY <1>1, <2>2, <2>3
    <2>5. DocMarks' = Line(more, Sentinel, less)
      BY <1>5
    <2> HIDE DEF first, less, more, x
    <2>6. [Line(more, x, less) EXCEPT ![Len(more) + 1] = Sentinel] = Line(more, Sentinel, less)
      BY <2>1, LineHere
    <2>7. [first EXCEPT ![p + 2] = Sentinel] = DocMarks'
      BY <2>1, <2>4, <2>5, <2>6
    <2> QED  BY <2>7 DEF first
  <1>8. p + 2 \in DOMAIN DocMarks
    <2>1. /\ IsSeq(Line(O, Sentinel, Q)) /\ Len(Line(O, Sentinel, Q)) = Len(O) + 1 + Len(Q)
          /\ Len(Q) \in Nat /\ Len(Q) # 0
      BY <1>1, <1>3, LineIs, SeqFacts
    <2>2. DOMAIN Line(O, Sentinel, Q) = 1..(p + 1 + Len(Q))
      BY <1>1, <2>1, SeqFacts
    <2>3. p + 2 \in 1..(p + 1 + Len(Q))
      BY <1>1, <2>1
    <2> QED  BY <1>1, <2>2, <2>3
  <1>9. Len(m_undo_stack') + 1 = p + 2
    BY <1>1, <1>4
  <1> QED  BY <1>6, <1>7, <1>8, <1>9 DEF Document!Mark, p

-----------------------------------------------------------------------------
(* Every step of the tree is a step of the document *)

LEMMA DocAcceptStep ==
  ASSUME IInv, TextsInv, IInv', NEW text \in InitialTexts, tree_builder_accept(text)
  PROVE  Document!DocAccept(text)
  <1> DEFINE old == TextOf(m_buffers, m_root)
  <1>1. Read(m_buffers, m_root)
    BY DEF TextsInv, RetainedRoots
  <1>2. TextsStay /\ TextOf(m_buffers', m_root') = old \o text
    BY <1>1, AcceptText, ReadsRead
  <1>3. /\ ~built /\ m_undo_stack = << >> /\ m_redo_stack = << >>
        /\ UNCHANGED <<built, m_undo_stack, m_redo_stack, m_end_last_insert, heads>>
    BY DEF TextsInv, tree_builder_accept
  <1>4. [h \in Handles |-> DocText[heads[h]]]' = [h \in Handles |-> DocText[heads[h]]]
    BY <1>2, <1>3, KeptStay
  <1>5. Len(<< >>) = 0 /\ \A x : Line(<< >>, x, << >>) = <<x>>
    BY LineOfOne
  <1>6. DocTimeline' = <<old \o text>> /\ DocMarks' = <<Sentinel>>
    BY <1>2, <1>3, <1>5, DocAfter, EmptySeen
  <1>7. DocMarks = <<Sentinel>>
    BY <1>3, <1>5, DocNow, EmptySeen
  <1>8. DocTimeline[Len(m_undo_stack) + 1] = old
    BY DocNow
  <1> HIDE DEF old
  <1> QED  BY <1>3, <1>4, <1>6, <1>7, <1>8 DEF Document!DocAccept, Document!current

LEMMA SameDoc ==
  ASSUME IInv, IInv', UNCHANGED <<m_buffers, m_root, m_undo_stack, m_redo_stack>>
  PROVE  DocTimeline' = DocTimeline /\ DocMarks' = DocMarks
  <1>1. DocTimeline' = DocTexts' /\ DocMarks' = DocOffsets'
    BY DocIsAfter DEF DocShows
  <1>2. DocTimeline = DocTexts /\ DocMarks = DocOffsets
    BY DocIs DEF DocShows
  <1> QED  BY <1>1, <1>2 DEF DocTexts, DocOffsets

LEMMA SameStay ==
  ASSUME UNCHANGED m_buffers
  PROVE  TextsStay
  BY DEF TextsStay

LEMMA DocFinishStep ==
  ASSUME IInv, TextsInv, IInv', tree_builder_finish
  PROVE  Document!DocFinish
  <1>1. /\ ~built /\ built' = TRUE
        /\ UNCHANGED <<m_buffers, m_root, m_undo_stack, m_redo_stack, m_end_last_insert, heads>>
    BY DEF tree_builder_finish
  <1>2. DocTimeline' = DocTimeline /\ DocMarks' = DocMarks
    BY <1>1, SameDoc
  <1>3. [h \in Handles |-> DocText[heads[h]]]' = [h \in Handles |-> DocText[heads[h]]]
    BY <1>1, SameStay, KeptStay
  <1> QED  BY <1>1, <1>2, <1>3 DEF Document!DocFinish

(* The offsets of the tree are offsets of the current text. *)
LEMMA DocLength ==
  ASSUME IInv, built
  PROVE  length = Len(TextOf(m_buffers, m_root)) /\ length \in Nat
         /\ TextOf(m_buffers, m_root) \in Seq(Char)
  <1>1. length = m_root.length
    BY DEF IInv, length, MetaOf
  <1>2. /\ TextOf(m_buffers, m_root) \in Text /\ m_root.length \in Nat
        /\ Len(TextOf(m_buffers, m_root)) = m_root.length
    BY TextTyped DEF IInv
  <1> QED  BY <1>1, <1>2 DEF Text

LEMMA DocInsertStep ==
  ASSUME IInv, TextsInv, IInv', NEW offset \in 0..length, NEW text \in Texts,
         NEW suppress \in BOOLEAN, insert(offset, text, suppress)
  PROVE  Document!DocInsert(TextOf(m_buffers, m_root), offset, text, ~suppress)
  <1> DEFINE old == TextOf(m_buffers, m_root)
             new == TextOf(m_buffers', m_root')
  <1>1. Read(m_buffers, m_root)
    BY DEF TextsInv, RetainedRoots
  <1>2. /\ TextsStay /\ text \in Seq(Char) /\ offset \in 0..Len(old)
        /\ new = Spliced(old, offset, text)
    BY <1>1, InsertedReads, ReadsRead
  <1>3. old \in Seq(Char)
    BY DocLength DEF insert
  <1>4. new = Document!TextAfterInsert(old, offset, text)
    BY <1>2, <1>3, SplicedIsInserted DEF Document!TextAfterInsert
  <1>5. [h \in Handles |-> DocText[heads[h]]]' = [h \in Handles |-> DocText[heads[h]]]
    BY <1>2, KeptStay DEF insert
  <1>6. CASE suppress
    <2>1. Document!EditUnrecorded(new)
      BY <1>2, <1>6, EditUnheard DEF insert
    <2> QED  BY <1>4, <1>5, <1>6, <2>1 DEF Document!DocInsert, insert
  <1>7. CASE ~suppress /\ offset # m_end_last_insert
    <2>1. Document!Edit(new, TRUE, offset)
      BY <1>2, <1>7, EditBehindBoundary DEF insert, append_undo
    <2>2. (offset # m_end_last_insert) = TRUE
      BY <1>7
    <2> QED  BY <1>4, <1>5, <1>7, <2>1, <2>2 DEF Document!DocInsert, insert
  <1>8. CASE ~suppress /\ offset = m_end_last_insert
    <2>1. Document!Edit(new, FALSE, offset)
      BY <1>2, <1>8, EditJoined DEF insert
    <2>2. (offset # m_end_last_insert) = FALSE
      BY <1>8
    <2> QED  BY <1>4, <1>5, <1>8, <2>1, <2>2 DEF Document!DocInsert, insert
  <1> QED  BY <1>6, <1>7, <1>8

LEMMA DocRemoveStep ==
  ASSUME IInv, TextsInv, IInv', NEW offset \in 0..length, NEW count \in 1..(length - offset),
         NEW suppress \in BOOLEAN, remove(offset, count, suppress)
  PROVE  Document!DocRemove(TextOf(m_buffers, m_root), offset, count, ~suppress)
  <1> DEFINE old == TextOf(m_buffers, m_root)
             new == TextOf(m_buffers', m_root')
  <1>1. Read(m_buffers, m_root)
    BY DEF TextsInv, RetainedRoots
  <1>2. TextsStay /\ offset + count <= Len(old) /\ new = Cut(old, offset, count)
    BY <1>1, RemovedReads, ReadsRead
  <1>3. old \in Seq(Char) /\ offset \in Nat /\ count \in Nat
    BY DocLength DEF remove
  <1>4. new = Document!TextAfterRemove(old, offset, count)
    BY <1>2, <1>3, CutIsRemoved DEF Document!TextAfterRemove
  <1>5. [h \in Handles |-> DocText[heads[h]]]' = [h \in Handles |-> DocText[heads[h]]]
    BY <1>2, KeptStay DEF remove
  <1>6. CASE suppress
    <2>1. Document!EditUnrecorded(new)
      BY <1>2, <1>6, EditUnheard DEF remove
    <2> QED  BY <1>4, <1>5, <1>6, <2>1 DEF Document!DocRemove, remove
  <1>7. CASE ~suppress
    <2>1. Document!Edit(new, TRUE, offset)
      BY <1>2, <1>7, EditBehindBoundary DEF remove, append_undo
    <2> QED  BY <1>4, <1>5, <1>7, <2>1 DEF Document!DocRemove, remove
  <1> QED  BY <1>6, <1>7

LEMMA DocCommitStep ==
  ASSUME IInv, TextsInv, IInv', NEW offset, commit_head(offset)
  PROVE  Document!DocCommit(offset)
  <1>1. /\ built /\ m_redo_stack' = << >>
        /\ m_undo_stack' = <<Entry(m_root, offset)>> \o m_undo_stack
        /\ m_end_last_insert' = Sentinel /\ UNCHANGED <<built, m_buffers, m_root, heads>>
    BY DEF commit_head, append_undo
  <1>2. TextsStay
    BY <1>1, SameStay
  <1>3. Document!Edit(TextOf(m_buffers', m_root'), TRUE, offset)
    BY <1>1, <1>2, EditBehindBoundary
  <1>4. [h \in Handles |-> DocText[heads[h]]]' = [h \in Handles |-> DocText[heads[h]]]
    BY <1>1, <1>2, KeptStay
  <1>5. DocTimeline[Len(m_undo_stack) + 1] = TextOf(m_buffers', m_root')
    BY <1>1, DocNow
  <1> QED  BY <1>1, <1>3, <1>4, <1>5 DEF Document!DocCommit, Document!current

LEMMA DocMoveStep ==
  ASSUME IInv, TextsInv, IInv', NEW offset
  PROVE  /\ try_undo(offset) => Document!DocUndo(offset)
         /\ try_redo(offset) => Document!DocRedo(offset)
  <1>1. Len(m_undo_stack) \in Nat
    BY DocNow
  <1>2. ASSUME try_undo(offset) PROVE Document!DocUndo(offset)
    <2>1. /\ built /\ m_end_last_insert' = Sentinel /\ UNCHANGED <<built, m_buffers, heads>>
      BY <1>2 DEF try_undo
    <2>2. [h \in Handles |-> DocText[heads[h]]]' = [h \in Handles |-> DocText[heads[h]]]
      BY <2>1, SameStay, KeptStay
    <2>3. /\ DocTimeline' = DocTimeline
          /\ DocMarks' = Document!Mark(Document!Mark(DocMarks, Len(m_undo_stack) + 1, offset),
                                       Len(m_undo_stack), Sentinel)
          /\ Len(m_undo_stack') + 1 = Len(m_undo_stack)
          /\ Len(m_undo_stack) \in DOMAIN DocMarks
      BY <1>2, MovedBack
    <2>4. (Len(m_undo_stack) + 1) - 1 = Len(m_undo_stack)
      BY <1>1
    <2> QED  BY <2>1, <2>2, <2>3, <2>4 DEF Document!DocUndo, Document!DocMove
  <1>3. ASSUME try_redo(offset) PROVE Document!DocRedo(offset)
    <2>1. /\ built /\ m_end_last_insert' = Sentinel /\ UNCHANGED <<built, m_buffers, heads>>
      BY <1>3 DEF try_redo
    <2>2. [h \in Handles |-> DocText[heads[h]]]' = [h \in Handles |-> DocText[heads[h]]]
      BY <2>1, SameStay, KeptStay
    <2>3. /\ DocTimeline' = DocTimeline
          /\ DocMarks' = Document!Mark(Document!Mark(DocMarks, Len(m_undo_stack) + 1, offset),
                                       Len(m_undo_stack) + 2, Sentinel)
          /\ Len(m_undo_stack') + 1 = Len(m_undo_stack) + 2
          /\ Len(m_undo_stack) + 2 \in DOMAIN DocMarks
      BY <1>3, MovedForth
    <2>4. (Len(m_undo_stack) + 1) + 1 = Len(m_undo_stack) + 2
      BY <1>1
    <2> QED  BY <2>1, <2>2, <2>3, <2>4 DEF Document!DocRedo, Document!DocMove
  <1> QED  BY <1>2, <1>3

LEMMA DocKeepStep ==
  ASSUME IInv, TextsInv, IInv', NEW h \in Handles
  PROVE  /\ head(h) => Document!DocHead(h)
         /\ snap_to(h) => Document!DocSnapTo(h)
  <1>1. [g \in Handles |-> DocText[heads[g]]] = [g \in Handles |-> TextOf(m_buffers, heads[g])]
    BY DocIs DEF DocShows, DocKept
  <1>2. ASSUME head(h) PROVE Document!DocHead(h)
    <2>1. /\ built /\ heads' = [heads EXCEPT ![h] = m_root]
          /\ UNCHANGED <<built, m_buffers, m_root, m_undo_stack, m_redo_stack, m_end_last_insert>>
      BY <1>2 DEF head
    <2>2. DocTimeline' = DocTimeline /\ DocMarks' = DocMarks
      BY <2>1, SameDoc
    <2>3. DocTimeline[Len(m_undo_stack) + 1] = TextOf(m_buffers, m_root)
      BY DocNow
    <2>4. [g \in Handles |-> DocText[heads[g]]]' = [g \in Handles |-> TextOf(m_buffers, heads'[g])]
      BY <2>1, DocAfter
    <2>5. \A g \in Handles : heads'[g] = IF g = h THEN m_root ELSE heads[g]
      BY <2>1 DEF IInv, HeadsOK
    <2>6. [g \in Handles |-> TextOf(m_buffers, heads'[g])]
            = [[g \in Handles |-> TextOf(m_buffers, heads[g])] EXCEPT ![h] = TextOf(m_buffers, m_root)]
      BY <2>5
    <2> QED  BY <1>1, <2>1, <2>2, <2>3, <2>4, <2>6 DEF Document!DocHead, Document!current
  <1>3. ASSUME snap_to(h) PROVE Document!DocSnapTo(h)
    <2>1. /\ built /\ m_root' = heads[h] /\ m_end_last_insert' = Sentinel
          /\ UNCHANGED <<built, m_buffers, m_undo_stack, m_redo_stack, heads>>
      BY <1>3 DEF snap_to, set_root
    <2>2. TextsStay
      BY <2>1, SameStay
    <2>3. Document!EditUnrecorded(TextOf(m_buffers', m_root'))
      BY <2>1, <2>2, EditUnheard
    <2>4. [g \in Handles |-> DocText[heads[g]]]' = [g \in Handles |-> DocText[heads[g]]]
      BY <2>1, <2>2, KeptStay
    <2>5. [g \in Handles |-> DocText[heads[g]]][h] = TextOf(m_buffers', m_root')
      BY <1>1, <2>1
    <2> QED  BY <2>1, <2>3, <2>4, <2>5 DEF Document!DocSnapTo
  <1> QED  BY <1>2, <1>3

LEMMA DocInitStep == Init => Document!DocInit
  <1> SUFFICES ASSUME Init PROVE Document!DocInit
    OBVIOUS
  <1>1. IInv
    BY InitIInv
  <1>2. /\ m_undo_stack = << >> /\ m_redo_stack = << >> /\ m_root = EmptyRoot
        /\ built = FALSE /\ m_end_last_insert = Sentinel
        /\ heads = [h \in Handles |-> EmptyRoot]
    BY DEF Init
  <1>3. TextOf(m_buffers, EmptyRoot) = << >>
    BY <1>1, EmptyReads, ReadsRead DEF IInv
  <1>4. DocTimeline = Line(<< >>, << >>, << >>) /\ DocMarks = Line(<< >>, Sentinel, << >>)
    <2>1. DocTimeline = DocTexts /\ DocMarks = DocOffsets
      BY <1>1, DocIs DEF DocShows
    <2> QED  BY <2>1, <1>2, <1>3, EmptySeen DEF DocTexts, DocOffsets
  <1>5. DocTimeline = << << >> >> /\ DocMarks = <<Sentinel>>
    BY <1>4, LineOfOne, Zenon
  <1>6. [h \in Handles |-> DocText[heads[h]]] = [h \in Handles |-> << >>]
    <2>1. [h \in Handles |-> DocText[heads[h]]] = DocKept
      BY <1>1, DocIs DEF DocShows
    <2>2. \A h \in Handles : heads[h] = EmptyRoot
      BY <1>2
    <2> QED  BY <2>1, <2>2, <1>3 DEF DocKept
  <1>7. Len(m_undo_stack) + 1 = 1
    BY <1>2, LineOfOne
  <1> QED  BY <1>2, <1>5, <1>6, <1>7 DEF Document!DocInit

LEMMA DocStep ==
  ASSUME IInv, TextsInv, Next, IInv'
  PROVE  Document!DocNext
  <1> DEFINE text == TextOf(m_buffers, m_root)
  <1>1. DocTimeline[Len(m_undo_stack) + 1] = text
    BY DocNow
  <1>2. built => length = Len(text) /\ length \in Nat
    BY DocLength
  <1>3. ASSUME NEW new \in InitialTexts, tree_builder_accept(new)
        PROVE  \E t \in Texts \cup InitialTexts : Document!DocAccept(t)
    BY <1>3, DocAcceptStep
  <1>4. ASSUME tree_builder_finish PROVE Document!DocFinish
    BY <1>4, DocFinishStep
  <1>5. ASSUME NEW offset \in 0..length, NEW new \in Texts, NEW suppress \in BOOLEAN,
               insert(offset, new, suppress)
        PROVE  \E o \in 0..Len(text), n \in Texts \cup InitialTexts, recorded \in BOOLEAN :
                  Document!DocInsert(text, o, n, recorded)
    <2>1. Document!DocInsert(text, offset, new, ~suppress)
      BY <1>5, DocInsertStep
    <2>2. offset \in 0..Len(text)
      <3>1. built
        BY <1>5 DEF insert
      <3> HIDE DEF text
      <3> QED  BY <3>1, <1>2
    <2>3. (~suppress) \in BOOLEAN
      OBVIOUS
    <2> HIDE DEF text
    <2> QED  BY <2>1, <2>2, <2>3
  <1>6. ASSUME NEW offset \in 0..length, NEW count \in 1..(length - offset),
               NEW suppress \in BOOLEAN, remove(offset, count, suppress)
        PROVE  \E recorded \in BOOLEAN, o \in 0..Len(text) :
                  \E c \in 1..(Len(text) - o) : Document!DocRemove(text, o, c, recorded)
    <2>1. Document!DocRemove(text, offset, count, ~suppress)
      BY <1>6, DocRemoveStep
    <2>2. offset \in 0..Len(text) /\ count \in 1..(Len(text) - offset)
      <3>1. built
        BY <1>6 DEF remove
      <3> HIDE DEF text
      <3> QED  BY <3>1, <1>2
    <2>3. (~suppress) \in BOOLEAN
      OBVIOUS
    <2> HIDE DEF text
    <2> QED  BY <2>1, <2>2, <2>3
  <1>7. ASSUME NEW offset \in 0..length,
               commit_head(offset) \/ try_undo(offset) \/ try_redo(offset)
        PROVE  \E o \in 0..Len(text) :
                  Document!DocUndo(o) \/ Document!DocRedo(o) \/ Document!DocCommit(o)
    <2>1. offset \in 0..Len(text)
      BY <1>2, <1>7 DEF commit_head, try_undo, try_redo
    <2>2. Document!DocUndo(offset) \/ Document!DocRedo(offset) \/ Document!DocCommit(offset)
      BY <1>7, DocMoveStep, DocCommitStep
    <2> HIDE DEF text
    <2> QED  BY <2>1, <2>2
  <1>8. ASSUME NEW h \in Handles, head(h) \/ snap_to(h)
        PROVE  Document!DocHead(h) \/ Document!DocSnapTo(h)
    BY <1>8, DocKeepStep
  <1> HIDE DEF text
  <1>9. CASE \E new \in InitialTexts : tree_builder_accept(new)
    BY <1>9, <1>3 DEF Document!DocNext
  <1>10. CASE tree_builder_finish
    BY <1>10, <1>4 DEF Document!DocNext
  <1>11. CASE \E offset \in 0..length, new \in Texts, suppress \in BOOLEAN :
                 insert(offset, new, suppress)
    BY <1>1, <1>11, <1>5 DEF Document!DocNext, Document!current
  <1>12. CASE \E offset \in 0..length : \E count \in 1..(length - offset), suppress \in BOOLEAN :
                 remove(offset, count, suppress)
    BY <1>1, <1>12, <1>6 DEF Document!DocNext, Document!current
  <1>13. CASE \E offset \in 0..length :
                 commit_head(offset) \/ try_undo(offset) \/ try_redo(offset)
    BY <1>1, <1>13, <1>7 DEF Document!DocNext, Document!current
  <1>14. CASE \E h \in Handles : head(h) \/ snap_to(h)
    BY <1>14, <1>8 DEF Document!DocNext
  <1> QED  BY <1>9, <1>10, <1>11, <1>12, <1>13, <1>14 DEF Next

(* The tree implements the document: whatever pieces, buffers, line starts *)
(* and stacks it keeps, an editor sees one text with a linear history, in  *)
(* which an undo or a redo only moves and an edit never changes what was   *)
(* kept.                                                                   *)
THEOREM TreeImplementsDocument == Spec => ImplementsDocument
  <1>1. IInv /\ TextsInv /\ [Next]_vars => [Document!DocNext]_(Document!docVars)
    <2> SUFFICES ASSUME IInv, TextsInv, [Next]_vars
                 PROVE  [Document!DocNext]_(Document!docVars)
      OBVIOUS
    <2>1. IInv'
      BY StepIInv
    <2>2. CASE Next
      BY <2>1, <2>2, DocStep
    <2>3. CASE UNCHANGED vars
      <3>1. UNCHANGED <<built, m_buffers, m_root, m_undo_stack, m_redo_stack,
                        m_end_last_insert, heads>>
        BY <2>3 DEF vars
      <3>2. DocTimeline' = DocTimeline /\ DocMarks' = DocMarks
        BY <2>1, <3>1, SameDoc
      <3>3. [h \in Handles |-> DocText[heads[h]]]' = [h \in Handles |-> DocText[heads[h]]]
        BY <2>1, <3>1, SameStay, KeptStay
      <3> QED  BY <3>1, <3>2, <3>3 DEF Document!docVars
    <2> QED  BY <2>2, <2>3
  <1> QED  BY <1>1, DocInitStep, TextsHold, PTL DEF Spec, ImplementsDocument, Document!DocSpec

--------------------------------------------------------------------------------
(* Snapshots *)

(* The part of the modification buffer a reference snapshot looks at. *)
Prefix(buffer, size, count) ==
    [text        |-> SubSeq(buffer.text, 1, size),
     line_starts |-> FirstStarts(buffer, count)]

InPrefix(buffer, size, count) ==
    size \in 0..Len(buffer.text) /\ count \in 0..Cardinality(buffer.line_starts)

(* A reference snapshot is only made of a tree that is built, whose       *)
(* immutable buffers are final, and its view is inside the buffer that     *)
(* goes on growing.                                                       *)
SnapOK(snap) ==
    /\ built
    /\ snap.kind \in {"reference", "owning"}
    /\ GoodRoot(BuffersOf(snap), snap.root)
    /\ snap.kind = "reference" => InPrefix(m_buffers.mod, snap.size, snap.count)

(* The released tree keeps its metadata but not its root, so that the     *)
(* invariant of the tree holds while there is one.                        *)
SnapIInv ==
    /\ BuffersOK(m_buffers)
    /\ alive => IInv
    /\ snaps = [i \in SnapIds |-> snaps[i]]
    /\ \A i \in Held : SnapOK(snaps[i])

-----------------------------------------------------------------------------
(* Views of a buffer *)

(* All of a buffer is the view of it with its present size and count. *)
LEMMA PrefixOfAll ==
  ASSUME NEW buffer, WellFormed(buffer)
  PROVE  LET size  == Len(buffer.text)
             count == Cardinality(buffer.line_starts)
         IN  /\ InPrefix(buffer, size, count)
             /\ Prefix(buffer, size, count) = buffer
  <1> DEFINE size  == Len(buffer.text)
             count == Cardinality(buffer.line_starts)
  <1>1. /\ size \in Nat
        /\ IsFiniteSet(buffer.line_starts)
        /\ buffer.line_starts \subseteq Nat
    BY StartsFinite
  <1>2. count \in Nat
    BY <1>1, FS_CardinalityType
  <1>3. ASSUME NEW s \in buffer.line_starts
        PROVE  Cardinality({t \in buffer.line_starts : t < s}) < count
    <2> DEFINE below == {t \in buffer.line_starts : t < s}
    <2>1. below \in SUBSET buffer.line_starts /\ s \notin below
      BY <1>1
    <2>2. below # buffer.line_starts
      BY <2>1
    <2> HIDE DEF below
    <2>3. Cardinality(below) <= count /\ (Cardinality(below) = count => below = buffer.line_starts)
      BY <1>1, <2>1, FS_Subset
    <2>4. Cardinality(below) \in Nat
      BY <1>1, <2>1, FS_Subset, FS_CardinalityType
    <2>5. Cardinality(below) < count
      BY <1>2, <2>2, <2>3, <2>4
    <2> QED  BY <2>5 DEF below
  <1>4. FirstStarts(buffer, count) = buffer.line_starts
    BY <1>3 DEF FirstStarts
  <1>5. SubSeq(buffer.text, 1, size) = buffer.text
    BY <1>1, SMT DEF WellFormed, CharBuffer, Text
  <1>6. buffer = [text |-> buffer.text, line_starts |-> buffer.line_starts]
    BY DEF WellFormed, CharBuffer
  <1> QED  BY <1>1, <1>2, <1>4, <1>5, <1>6 DEF InPrefix, Prefix

(* A view does not change when the buffer grows behind it. *)
LEMMA PrefixKept ==
  ASSUME NEW buffer, WellFormed(buffer), NEW text \in Text,
         NEW size, NEW count, InPrefix(buffer, size, count)
  PROVE  LET new == Extend(buffer, text)
         IN  /\ InPrefix(new, size, count)
             /\ Prefix(new, size, count) = Prefix(buffer, size, count)
  <1> DEFINE new == Extend(buffer, text)
             old == Len(buffer.text)
             added == {old + k : k \in {i \in 1..Len(text) : text[i] = LF}}
  <1>1. /\ WellFormed(new)
        /\ Len(new.text) = old + Len(text)
        /\ old \in Nat /\ Len(text) \in Nat
        /\ \A k \in 1..old : new.text[k] = buffer.text[k]
    BY ExtendWellFormed
  <1>2. /\ IsFiniteSet(buffer.line_starts) /\ buffer.line_starts \subseteq 0..old
        /\ IsFiniteSet(new.line_starts)
    BY <1>1, StartsFinite
  <1>3. new.line_starts = buffer.line_starts \cup added
    BY DEF Extend
  <1>4. \A s \in added : s \in Nat /\ s > old
    BY <1>1
  <1> HIDE DEF new, added
  <1>5. buffer.line_starts \in SUBSET new.line_starts
    BY <1>3
  <1>6. Cardinality(buffer.line_starts) <= Cardinality(new.line_starts)
    BY <1>2, <1>5, FS_Subset
  <1>7. /\ Cardinality(buffer.line_starts) \in Nat /\ Cardinality(new.line_starts) \in Nat
        /\ size \in Nat /\ size <= old
        /\ count \in Nat /\ count <= Cardinality(buffer.line_starts)
    BY <1>1, <1>2, FS_CardinalityType DEF InPrefix
  <1>8. InPrefix(new, size, count)
    BY <1>1, <1>6, <1>7 DEF InPrefix
  <1>9. SubSeq(new.text, 1, size) = SubSeq(buffer.text, 1, size)
    <2>1. new.text \in Seq(Char) /\ buffer.text \in Seq(Char)
      BY <1>1 DEF WellFormed, CharBuffer, Text
    <2>2. /\ SubSeq(new.text, 1, size) = [k \in 1..size |-> new.text[k]]
          /\ SubSeq(buffer.text, 1, size) = [k \in 1..size |-> buffer.text[k]]
      BY <2>1, <1>1, <1>7, SMT
    <2>3. \A k \in 1..size : new.text[k] = buffer.text[k]
      BY <1>1, <1>7, SMTT(30)
    <2> QED  BY <2>2, <2>3
  <1>10. ASSUME NEW s \in buffer.line_starts
         PROVE  {t \in new.line_starts : t < s} = {t \in buffer.line_starts : t < s}
    BY <1>1, <1>2, <1>3, <1>4
  <1>11. ASSUME NEW s \in added
         PROVE  ~(Cardinality({t \in new.line_starts : t < s}) < count)
    <2> DEFINE below == {t \in new.line_starts : t < s}
    <2>1. below \in SUBSET new.line_starts /\ buffer.line_starts \in SUBSET below
      BY <1>1, <1>2, <1>3, <1>4
    <2> HIDE DEF below
    <2>2. IsFiniteSet(below)
      BY <2>1, <1>2, FS_Subset
    <2>3. Cardinality(buffer.line_starts) <= Cardinality(below) /\ Cardinality(below) \in Nat
      BY <2>1, <2>2, FS_Subset, FS_CardinalityType
    <2>4. ~(Cardinality(below) < count)
      BY <2>3, <1>7
    <2> QED  BY <2>4 DEF below
  <1>12. FirstStarts(new, count) = FirstStarts(buffer, count)
    BY <1>3, <1>10, <1>11 DEF FirstStarts
  <1> QED  BY <1>8, <1>9, <1>12 DEF Prefix, new

-----------------------------------------------------------------------------
(* Snapshots that are taken *)

LEMMA TakenOK ==
  ASSUME SnapIInv, alive, built, NEW root, GoodRoot(m_buffers, root)
  PROVE  SnapOK(ReferenceOf(root)) /\ SnapOK(OwningOf(root))
  <1>1. BuffersOK(m_buffers) /\ WellFormed(m_buffers.mod)
        /\ m_buffers = [orig |-> m_buffers.orig, mod |-> m_buffers.mod]
    BY DEF SnapIInv, BuffersOK, BufferCollection
  <1>2. BuffersOf(ReferenceOf(root)) = m_buffers
    <2>1. BuffersOf(ReferenceOf(root)) =
            [orig |-> m_buffers.orig,
             mod  |-> Prefix(m_buffers.mod, Len(m_buffers.mod.text),
                             Cardinality(m_buffers.mod.line_starts))]
      BY DEF BuffersOf, ReferenceOf, Prefix
    <2> QED  BY <1>1, <2>1, PrefixOfAll
  <1>3. InPrefix(m_buffers.mod, ReferenceOf(root).size, ReferenceOf(root).count)
    BY <1>1, PrefixOfAll DEF ReferenceOf
  <1>4. SnapOK(ReferenceOf(root))
    <2>1. ReferenceOf(root).root = root /\ ReferenceOf(root).kind = "reference"
      BY DEF ReferenceOf
    <2> QED  BY <1>2, <1>3, <2>1 DEF SnapOK
  <1>5. SnapOK(OwningOf(root))
    <2>1. OwningOf(root).root = root /\ OwningOf(root).kind = "owning"
          /\ OwningOf(root).buffers = m_buffers
      BY DEF OwningOf
    <2> QED  BY <2>1 DEF SnapOK, BuffersOf
  <1> QED  BY <1>4, <1>5

(* The snapshots after one of them was replaced by one that is as it      *)
(* should be, and nothing else happened.                                  *)
LEMMA ReplaceOK ==
  ASSUME SnapIInv, NEW i \in SnapIds, NEW snap, snap = NoSnap \/ SnapOK(snap),
         snaps' = [snaps EXCEPT ![i] = snap], UNCHANGED <<vars, alive>>
  PROVE  SnapIInv'
  <1>1. m_buffers' = m_buffers /\ built' = built /\ alive' = alive
    BY DEF vars
  <1>2. IInv => IInv'
    BY DEF vars, IInv
  <1>3. snaps' = [j \in SnapIds |-> IF j = i THEN snap ELSE snaps[j]]
    BY DEF SnapIInv
  <1>4. ASSUME NEW j \in SnapIds, snaps'[j] # NoSnap
        PROVE  SnapOK(snaps[j])'
    <2>1. CASE j = i
      <3>1. snaps'[j] = snap /\ SnapOK(snap)
        BY <1>3, <1>4, <2>1
      <3> QED  BY <1>1, <3>1 DEF SnapOK, BuffersOf, FirstStarts
    <2>2. CASE j # i
      <3>1. snaps'[j] = snaps[j] /\ SnapOK(snaps[j])
        BY <1>3, <1>4, <2>2 DEF SnapIInv, Held
      <3> QED  BY <1>1, <3>1 DEF SnapOK, BuffersOf, FirstStarts
    <2> QED  BY <2>1, <2>2
  <1> QED  BY <1>1, <1>2, <1>3, <1>4 DEF SnapIInv, Held

-----------------------------------------------------------------------------
(* Steps of the tree *)

(* A step of the tree leaves every snapshot its view of the buffers. *)
LEMMA ViewKept ==
  ASSUME SnapIInv, TreeStep, NEW snap, SnapOK(snap)
  PROVE  BuffersOf(snap)' = BuffersOf(snap) /\ SnapOK(snap)'
  <1>1. BuffersOK(m_buffers) /\ WellFormed(m_buffers.mod) /\ built
    BY DEF SnapIInv, BuffersOK, SnapOK
  <1>2. built'
    BY <1>1 DEF TreeStep, Next, tree_builder_accept, tree_builder_finish, insert, remove,
               commit_head, try_undo, try_redo, head, snap_to
  <1>3. \/ m_buffers' = m_buffers
        \/ \E text \in Text : m_buffers' = AppendText(m_buffers, text)
    BY <1>1, TextsAssumption DEF TreeStep, Next, tree_builder_accept, tree_builder_finish,
               insert, remove, commit_head, try_undo, try_redo, head, snap_to
  <1>4. CASE snap.kind = "owning"
    BY <1>2, <1>4 DEF BuffersOf, SnapOK
  <1>5. CASE snap.kind = "reference"
    <2>1. /\ BuffersOf(snap) = [orig |-> m_buffers.orig,
                                mod  |-> Prefix(m_buffers.mod, snap.size, snap.count)]
          /\ BuffersOf(snap)' = [orig |-> m_buffers'.orig,
                                 mod  |-> Prefix(m_buffers'.mod, snap.size, snap.count)]
      BY <1>5 DEF BuffersOf, Prefix, FirstStarts
    <2>2. InPrefix(m_buffers.mod, snap.size, snap.count)
      BY <1>5 DEF SnapOK
    <2>3. /\ m_buffers'.orig = m_buffers.orig
          /\ InPrefix(m_buffers'.mod, snap.size, snap.count)
          /\ Prefix(m_buffers'.mod, snap.size, snap.count)
                = Prefix(m_buffers.mod, snap.size, snap.count)
      <3>1. CASE m_buffers' = m_buffers
        BY <3>1, <2>2
      <3>2. ASSUME NEW text \in Text, m_buffers' = AppendText(m_buffers, text)
            PROVE  <2>3
        <4>1. m_buffers'.orig = m_buffers.orig /\ m_buffers'.mod = Extend(m_buffers.mod, text)
          BY <1>1, <3>2 DEF AppendText, BuffersOK, BufferCollection
        <4> QED  BY <1>1, <2>2, <4>1, PrefixKept
      <3> QED  BY <1>3, <3>1, <3>2
    <2>4. BuffersOf(snap)' = BuffersOf(snap)
      BY <2>1, <2>3
    <2> QED  BY <1>2, <1>5, <2>3, <2>4 DEF SnapOK
  <1> QED  BY <1>4, <1>5 DEF SnapOK

LEMMA TreeStepOK ==
  ASSUME SnapIInv, TreeStep
  PROVE  SnapIInv'
  <1>1. IInv'
    BY StepIInv DEF SnapIInv, TreeStep
  <1>2. BuffersOK(m_buffers)'
    BY <1>1 DEF IInv
  <1>3. snaps' = snaps /\ alive' = alive
    BY DEF TreeStep
  <1>4. ASSUME NEW i \in Held
        PROVE  SnapOK(snaps[i])'
    <2>1. SnapOK(snaps[i]) /\ snaps'[i] = snaps[i]
      BY <1>3 DEF SnapIInv
    <2> QED  BY <2>1, ViewKept DEF SnapOK, BuffersOf, FirstStarts
  <1> QED  BY <1>1, <1>2, <1>3, <1>4 DEF SnapIInv, Held

LEMMA ReleaseTreeOK ==
  ASSUME SnapIInv, release_tree
  PROVE  SnapIInv'
  BY DEF SnapIInv, release_tree, Held, SnapOK, BuffersOf, FirstStarts

-----------------------------------------------------------------------------
LEMMA InitSnapIInv == SnapsInit => SnapIInv
  BY InitIInv DEF SnapsInit, SnapIInv, IInv, Held

LEMMA StepSnapIInv == SnapIInv /\ [SnapsNext]_snapVars => SnapIInv'
  <1> SUFFICES ASSUME SnapIInv, [SnapsNext]_snapVars PROVE SnapIInv'
    OBVIOUS
  <1>1. CASE TreeStep
    BY <1>1, TreeStepOK
  <1>2. CASE release_tree
    BY <1>2, ReleaseTreeOK
  <1>3. ASSUME NEW i \in SnapIds, ref_snap(i) \/ owning_snap(i)
        PROVE  SnapIInv'
    <2>1. alive /\ built /\ GoodRoot(m_buffers, m_root)
      BY <1>3 DEF ref_snap, owning_snap, TakeSnap, SnapIInv, IInv
    <2>2. SnapOK(ReferenceOf(m_root)) /\ SnapOK(OwningOf(m_root))
      BY <2>1, TakenOK
    <2>3. \E snap \in {ReferenceOf(m_root), OwningOf(m_root)} : TakeSnap(i, snap)
      BY <1>3 DEF ref_snap, owning_snap
    <2> QED  BY <2>2, <2>3, ReplaceOK DEF TakeSnap
  <1>4. ASSUME NEW i \in SnapIds, NEW h \in Handles,
               ReferenceSnapshotOfRoot(i, h) \/ OwningSnapshotOfRoot(i, h)
        PROVE  SnapIInv'
    <2>1. alive /\ built /\ GoodRoot(m_buffers, heads[h])
      BY <1>4 DEF ReferenceSnapshotOfRoot, OwningSnapshotOfRoot, TakeSnap, SnapIInv, IInv, HeadsOK
    <2>2. SnapOK(ReferenceOf(heads[h])) /\ SnapOK(OwningOf(heads[h]))
      BY <2>1, TakenOK
    <2>3. \E snap \in {ReferenceOf(heads[h]), OwningOf(heads[h])} : TakeSnap(i, snap)
      BY <1>4 DEF ReferenceSnapshotOfRoot, OwningSnapshotOfRoot
    <2> QED  BY <2>2, <2>3, ReplaceOK DEF TakeSnap
  <1>5. ASSUME NEW i \in SnapIds, ReleaseSnap(i)
        PROVE  SnapIInv'
    BY <1>5, ReplaceOK DEF ReleaseSnap
  <1>6. ASSUME NEW i \in SnapIds, NEW j \in SnapIds, CopySnap(i, j)
        PROVE  SnapIInv'
    <2>1. snaps[i] # NoSnap
      BY <1>6 DEF CopySnap, NoSnap
    <2>2. SnapOK(snaps[i])
      BY <2>1 DEF SnapIInv, Held
    <2> QED  BY <1>6, <2>2, ReplaceOK DEF CopySnap
  <1>7. CASE UNCHANGED snapVars
    BY <1>7 DEF snapVars, vars, SnapIInv, IInv, Held, SnapOK, BuffersOf, FirstStarts
  <1> QED  BY <1>1, <1>2, <1>3, <1>4, <1>5, <1>6, <1>7 DEF SnapsNext

LEMMA SnapInvariantHolds == SnapsSpec => []SnapIInv
  BY InitSnapIInv, StepSnapIInv, PTL DEF SnapsSpec

(* Every piece of a snapshot lies in what that snapshot sees of the       *)
(* buffers: the size and the line start count it froze are enough for its *)
(* root, and its pieces tile its document.                                *)
THEOREM SnapshotPiecesStayInView == SnapsSpec => []SnapshotPiecesInView
  <1>1. SnapIInv => SnapshotPiecesInView
    BY DEF SnapIInv, SnapOK, GoodRoot, TiledShape, SnapshotPiecesInView
  <1> QED  BY <1>1, SnapInvariantHolds, PTL

(* "Later edits do not change snapshot content" (piece_tree.md:378), nor   *)
(* do the other snapshots or the release of the tree.                     *)
THEOREM SnapshotTextsStayStable == SnapsSpec => SnapshotTextStable
  <1>1. SnapIInv /\ [SnapsNext]_snapVars =>
          [\A i \in Held : snaps'[i] = snaps[i]
                             => SnapText(snaps[i])' = SnapText(snaps[i])]_snapVars
    <2> SUFFICES ASSUME SnapIInv, SnapsNext,
                        NEW i \in Held, snaps'[i] = snaps[i]
                 PROVE  SnapText(snaps[i])' = SnapText(snaps[i])
      OBVIOUS
    <2>1. SnapOK(snaps[i])
      BY DEF SnapIInv
    <2>2. CASE TreeStep
      <3>1. BuffersOf(snaps[i])' = BuffersOf(snaps[i])
        BY <2>1, <2>2, ViewKept DEF TreeStep
      <3> QED  BY <3>1 DEF SnapText
    <2>3. CASE ~TreeStep
      <3>1. m_buffers' = m_buffers
        BY <2>3 DEF SnapsNext, release_tree, ref_snap, owning_snap, ReleaseSnap, CopySnap,
                    ReferenceSnapshotOfRoot, OwningSnapshotOfRoot, TakeSnap, vars
      <3>2. BuffersOf(snaps[i])' = BuffersOf(snaps[i])
        BY <3>1 DEF BuffersOf, FirstStarts
      <3> QED  BY <3>2 DEF SnapText
    <2> QED  BY <2>2, <2>3
  <1> QED  BY <1>1, SnapInvariantHolds, PTL DEF SnapsSpec, SnapshotTextStable

-----------------------------------------------------------------------------
(* Types of the snapshots *)

SnapTyped(snap) ==
    /\ snap.kind \in {"reference", "owning"}
    /\ IsRoot(snap.root)
    /\ snap.meta \in BufferMeta

(* While there is a tree, its own invariants hold; after its release only *)
(* the types are left.                                                    *)
SnapTypesInv ==
    /\ TypeOK
    /\ alive \in BOOLEAN
    /\ alive => IInv /\ TextsInv /\ TypesInv
    /\ snaps = [i \in SnapIds |-> snaps[i]]
    /\ \A i \in Held : SnapTyped(snaps[i])

LEMMA TreeTypesStep == IInv /\ TextsInv /\ TypesInv /\ [Next]_vars
                          => (IInv /\ TextsInv /\ TypesInv)'
  BY StepIInv, TextsStep, TypesStep

LEMMA InvTypedNext == (IInv /\ TextsInv /\ TypesInv)' => TypeOK'
  BY InvTyped, PTL

LEMMA TakenTyped ==
  ASSUME SnapTypesInv, alive, NEW root \in RetainedRoots
  PROVE  SnapTyped(ReferenceOf(root)) /\ SnapTyped(OwningOf(root))
  BY RetainedTyped DEF SnapTypesInv, SnapTyped, ReferenceOf, OwningOf, TypesInv

LEMMA ReplaceTyped ==
  ASSUME SnapTypesInv, NEW i \in SnapIds, NEW snap, snap = NoSnap \/ SnapTyped(snap),
         snaps' = [snaps EXCEPT ![i] = snap], UNCHANGED <<vars, alive>>
  PROVE  SnapTypesInv'
  <1>1. UNCHANGED vars /\ alive' = alive
    OBVIOUS
  <1>2. /\ TypeOK' = TypeOK /\ IInv' = IInv /\ TextsInv' = TextsInv /\ TypesInv' = TypesInv
    BY <1>1 DEF vars, TypeOK, IInv, TextsInv, TypesInv, RetainedRoots
  <1>3. snaps' = [j \in SnapIds |-> IF j = i THEN snap ELSE snaps[j]]
    BY DEF SnapTypesInv
  <1>4. ASSUME NEW j \in SnapIds, snaps'[j] # NoSnap
        PROVE  SnapTyped(snaps'[j])
    BY <1>3, <1>4 DEF SnapTypesInv, Held
  <1>5. \A j \in Held' : SnapTyped(snaps'[j])
    BY <1>4 DEF Held
  <1> QED  BY <1>1, <1>2, <1>3, <1>5 DEF SnapTypesInv, SnapTyped

LEMMA SnapTypesInit == SnapsInit => SnapTypesInv
  <1> SUFFICES ASSUME SnapsInit PROVE SnapTypesInv
    OBVIOUS
  <1>1. IInv /\ TextsInv /\ TypesInv
    BY InitIInv, InitTexts, TypesInit DEF SnapsInit
  <1>2. TypeOK
    BY <1>1, InvTyped
  <1> QED  BY <1>1, <1>2 DEF SnapsInit, SnapTypesInv, Held

LEMMA SnapTypesStep == SnapTypesInv /\ [SnapsNext]_snapVars => SnapTypesInv'
  <1> SUFFICES ASSUME SnapTypesInv, [SnapsNext]_snapVars PROVE SnapTypesInv'
    OBVIOUS
  <1>1. CASE TreeStep
    <2>1. (IInv /\ TextsInv /\ TypesInv)'
      BY <1>1, TreeTypesStep DEF SnapTypesInv, TreeStep
    <2>2. TypeOK'
      BY <2>1, InvTypedNext
    <2>3. snaps' = snaps /\ alive' = alive
      BY <1>1 DEF TreeStep
    <2> QED  BY <2>1, <2>2, <2>3 DEF SnapTypesInv, SnapTyped, Held
  <1>2. CASE release_tree
    <2>1. TypeOK'
      <3>1. IsRoot(EmptyRoot)
        BY DEF IsRoot, EmptyRoot, Starts, NoPieces
      <3>2. \A root \in RetainedRoots' : root = EmptyRoot
        BY <1>2 DEF release_tree, RetainedRoots
      <3> QED  BY <1>2, <3>1, <3>2 DEF release_tree, SnapTypesInv, TypeOK
    <2>2. snaps' = snaps /\ alive' = FALSE
      BY <1>2 DEF release_tree
    <2> QED  BY <2>1, <2>2 DEF SnapTypesInv, SnapTyped, Held
  <1>3. ASSUME NEW i \in SnapIds, ref_snap(i) \/ owning_snap(i)
        PROVE  SnapTypesInv'
    <2>1. m_root \in RetainedRoots /\ alive
      BY <1>3 DEF ref_snap, owning_snap, TakeSnap, RetainedRoots
    <2>2. SnapTyped(ReferenceOf(m_root)) /\ SnapTyped(OwningOf(m_root))
      BY <2>1, TakenTyped
    <2>3. \E snap \in {ReferenceOf(m_root), OwningOf(m_root)} : TakeSnap(i, snap)
      BY <1>3 DEF ref_snap, owning_snap
    <2> QED  BY <2>2, <2>3, ReplaceTyped DEF TakeSnap
  <1>4. ASSUME NEW i \in SnapIds, NEW h \in Handles,
               ReferenceSnapshotOfRoot(i, h) \/ OwningSnapshotOfRoot(i, h)
        PROVE  SnapTypesInv'
    <2>1. heads[h] \in RetainedRoots /\ alive
      BY <1>4 DEF ReferenceSnapshotOfRoot, OwningSnapshotOfRoot, TakeSnap, RetainedRoots
    <2>2. SnapTyped(ReferenceOf(heads[h])) /\ SnapTyped(OwningOf(heads[h]))
      BY <2>1, TakenTyped
    <2>3. \E snap \in {ReferenceOf(heads[h]), OwningOf(heads[h])} : TakeSnap(i, snap)
      BY <1>4 DEF ReferenceSnapshotOfRoot, OwningSnapshotOfRoot
    <2> QED  BY <2>2, <2>3, ReplaceTyped DEF TakeSnap
  <1>5. ASSUME NEW i \in SnapIds, ReleaseSnap(i)
        PROVE  SnapTypesInv'
    BY <1>5, ReplaceTyped DEF ReleaseSnap
  <1>6. ASSUME NEW i \in SnapIds, NEW j \in SnapIds, CopySnap(i, j)
        PROVE  SnapTypesInv'
    <2>1. snaps[i] # NoSnap
      BY <1>6 DEF CopySnap, NoSnap
    <2>2. SnapTyped(snaps[i])
      BY <2>1 DEF SnapTypesInv, Held
    <2> QED  BY <1>6, <2>2, ReplaceTyped DEF CopySnap
  <1>7. CASE UNCHANGED snapVars
    <2>1. UNCHANGED vars /\ alive' = alive /\ snaps' = snaps
      BY <1>7 DEF snapVars
    <2>2. /\ TypeOK' = TypeOK /\ IInv' = IInv /\ TextsInv' = TextsInv /\ TypesInv' = TypesInv
      BY <2>1 DEF vars, TypeOK, IInv, TextsInv, TypesInv, RetainedRoots
    <2> QED  BY <2>1, <2>2 DEF SnapTypesInv, SnapTyped, Held
  <1> QED  BY <1>1, <1>2, <1>3, <1>4, <1>5, <1>6, <1>7 DEF SnapsNext

(* A snapshot keeps the types of the tree it was taken from: its root is a *)
(* root and its cached metadata counts by natural numbers, also after the  *)
(* tree has gone.                                                          *)
THEOREM SnapshotsTyped == SnapsSpec => []SnapsTypeOK
  <1>1. SnapTypesInv => SnapsTypeOK
    BY DEF SnapTypesInv, SnapTyped, SnapsTypeOK
  <1> QED  BY <1>1, SnapTypesInit, SnapTypesStep, PTL DEF SnapsSpec

--------------------------------------------------------------------------------
(* Line queries *)

-----------------------------------------------------------------------------
(* Line feeds by their rank *)

LEMMA RankTyped ==
  ASSUME NEW text \in Text, NEW k
  PROVE  /\ IsFiniteSet(LineFeeds(text)) /\ Cardinality(LineFeeds(text)) = Feeds(text)
         /\ IsFiniteSet({f \in LineFeeds(text) : f <= k})
         /\ RefLineAt(text, k) \in Nat /\ Feeds(text) \in Nat
  <1>1. LineFeeds(text) = FeedsAt(text)
    BY DEF LineFeeds, FeedsAt
  <1>2. IsFiniteSet(LineFeeds(text)) /\ Cardinality(LineFeeds(text)) = Feeds(text)
        /\ Feeds(text) \in Nat
    BY <1>1, FeedsFiniteSet
  <1> DEFINE Below == {f \in LineFeeds(text) : f <= k}
  <1>3. Below \in SUBSET LineFeeds(text)
    OBVIOUS
  <1>4. RefLineAt(text, k) = Cardinality(Below)
    BY DEF RefLineAt
  <1> HIDE DEF Below
  <1>5. IsFiniteSet(Below) /\ Cardinality(Below) \in Nat
    BY <1>2, <1>3, FS_Subset, FS_CardinalityType
  <1> QED  BY <1>2, <1>4, <1>5 DEF Below

LEMMA RankGrows ==
  ASSUME NEW text \in Text, NEW j \in Nat, NEW k \in Nat, j <= k
  PROVE  /\ RefLineAt(text, j) <= RefLineAt(text, k)
         /\ \A f \in LineFeeds(text) :
               j < f /\ f <= k => RefLineAt(text, j) < RefLineAt(text, k)
  <1> DEFINE A == {f \in LineFeeds(text) : f <= j}
             B == {f \in LineFeeds(text) : f <= k}
  <1>1. LineFeeds(text) \subseteq Nat
    BY LenProperties DEF LineFeeds, Text
  <1>2. A \in SUBSET B
    BY <1>1
  <1>3. IsFiniteSet(B) /\ RefLineAt(text, j) = Cardinality(A) /\ RefLineAt(text, k) = Cardinality(B)
    BY RankTyped DEF RefLineAt
  <1>4. \A f \in LineFeeds(text) : j < f /\ f <= k => f \in B /\ f \notin A
    BY <1>1
  <1> HIDE DEF A, B
  <1>5. Cardinality(A) <= Cardinality(B) /\ (Cardinality(A) = Cardinality(B) => A = B)
    BY <1>2, <1>3, FS_Subset
  <1>6. Cardinality(A) \in Nat /\ Cardinality(B) \in Nat
    BY <1>3, RankTyped
  <1> QED  BY <1>3, <1>4, <1>5, <1>6

(* Behind a character the rank is one higher if this is a line feed. *)
LEMMA RankStep ==
  ASSUME NEW text \in Text, NEW k \in 1..Len(text)
  PROVE  RefLineAt(text, k)
           = IF k \in LineFeeds(text) THEN RefLineAt(text, k - 1) + 1
             ELSE RefLineAt(text, k - 1)
  <1> DEFINE A == {f \in LineFeeds(text) : f <= k - 1}
             B == {f \in LineFeeds(text) : f <= k}
  <1>1. LineFeeds(text) \subseteq Nat /\ k \in Nat
    BY LenProperties DEF LineFeeds, Text
  <1>2. B = IF k \in LineFeeds(text) THEN A \cup {k} ELSE A
    BY <1>1
  <1>3. k \notin A
    BY <1>1
  <1>4. IsFiniteSet(A) /\ RefLineAt(text, k - 1) = Cardinality(A) /\ RefLineAt(text, k) = Cardinality(B)
    BY RankTyped DEF RefLineAt
  <1> HIDE DEF A, B
  <1>5. Cardinality(A \cup {k}) = Cardinality(A) + 1
    BY <1>3, <1>4, FS_AddElement
  <1> QED  BY <1>2, <1>4, <1>5

LEMMA RankEnds ==
  ASSUME NEW text \in Text
  PROVE  RefLineAt(text, 0) = 0 /\ RefLineAt(text, Len(text)) = Feeds(text)
  <1>1. Len(text) \in Nat
    BY LenProperties DEF Text
  <1>2. {f \in LineFeeds(text) : f <= 0} = {}
    BY <1>1 DEF LineFeeds
  <1>3. {f \in LineFeeds(text) : f <= Len(text)} = LineFeeds(text)
    BY <1>1 DEF LineFeeds
  <1>4. Cardinality(LineFeeds(text)) = Feeds(text)
    BY RankTyped
  <1> QED  BY <1>2, <1>3, <1>4, FS_EmptySet DEF RefLineAt

(* There is a line feed of every rank, and no other one has it. *)
LEMMA LineFeedIs ==
  ASSUME NEW text \in Text, NEW n \in 1..Feeds(text)
  PROVE  /\ LineFeed(text, n) \in LineFeeds(text)
         /\ LineFeed(text, n) \in 1..Len(text)
         /\ RefLineAt(text, LineFeed(text, n)) = n
  <1> DEFINE Bad == {k \in Nat : k <= Len(text) /\ n <= RefLineAt(text, k)}
  <1>1. Len(text) \in Nat /\ Feeds(text) \in Nat /\ n \in Nat /\ n > 0
    BY FeedsFiniteSet, LenProperties DEF Text
  <1>2. Len(text) \in Bad
    BY <1>1, RankEnds
  <1>3. PICK k \in Bad : \A j \in Bad : <<j, k>> \notin OpToRel(<, Nat)
    <2>1. \E k \in Bad : \A j \in Bad : <<j, k>> \notin OpToRel(<, Nat)
      BY <1>2, WFMin, NatLessThanWellFounded
    <2> QED  BY <2>1
  <1>4. k \in Nat /\ k <= Len(text) /\ n <= RefLineAt(text, k)
    OBVIOUS
  <1>5. k # 0
    BY <1>1, <1>4, RankEnds
  <1>6. k \in 1..Len(text) /\ k - 1 \in Nat /\ k - 1 < k /\ k - 1 <= Len(text)
    BY <1>1, <1>4, <1>5
  <1>7. k - 1 \notin Bad
    BY <1>3, <1>4, <1>6 DEF OpToRel
  <1>8. RefLineAt(text, k - 1) \in Nat /\ RefLineAt(text, k) \in Nat
    BY RankTyped
  <1>9. RefLineAt(text, k - 1) < n
    BY <1>1, <1>6, <1>7, <1>8
  <1>10. k \in LineFeeds(text) /\ RefLineAt(text, k) = n
    BY <1>1, <1>4, <1>6, <1>8, <1>9, RankStep
  <1> HIDE DEF Bad
  <1> DEFINE Ranked(f) == Cardinality({j \in LineFeeds(text) : j <= f}) = n
  <1>11. Ranked(k)
    BY <1>10 DEF RefLineAt
  <1>12. LineFeed(text, n) = CHOOSE f \in LineFeeds(text) : Ranked(f)
    BY DEF LineFeed
  <1>13. \A f : Ranked(f) <=> RefLineAt(text, f) = n
    BY DEF RefLineAt
  <1> HIDE DEF Ranked
  <1>14. LineFeed(text, n) \in LineFeeds(text) /\ Ranked(LineFeed(text, n))
    BY <1>10, <1>11, <1>12
  <1>15. LineFeed(text, n) \in 1..Len(text)
    BY <1>14 DEF LineFeeds
  <1> QED  BY <1>13, <1>14, <1>15

Between(text, j, k) == {f \in LineFeeds(text) : j < f /\ f <= k}

LEMMA RankBetween ==
  ASSUME NEW text \in Text, NEW j \in Nat, NEW k \in Nat, j <= k
  PROVE  /\ IsFiniteSet(Between(text, j, k))
         /\ Cardinality(Between(text, j, k)) = RefLineAt(text, k) - RefLineAt(text, j)
  <1> DEFINE A == {f \in LineFeeds(text) : f <= j}
             B == {f \in LineFeeds(text) : f <= k}
             D == Between(text, j, k)
  <1>1. LineFeeds(text) \subseteq Nat
    BY LenProperties DEF LineFeeds, Text
  <1>2. D \in SUBSET B /\ B = A \cup D /\ A \cap D = {}
    BY <1>1 DEF Between
  <1>3. IsFiniteSet(A) /\ IsFiniteSet(B)
        /\ RefLineAt(text, j) = Cardinality(A) /\ RefLineAt(text, k) = Cardinality(B)
    BY RankTyped DEF RefLineAt
  <1> HIDE DEF A, B, D
  <1>4. IsFiniteSet(D)
    BY <1>2, <1>3, FS_Subset
  <1>5. Cardinality(A \cup D) = Cardinality(A) + Cardinality(D) - Cardinality(A \cap D)
    BY <1>3, <1>4, FS_Union
  <1>6. Cardinality(A \cap D) = 0 /\ Cardinality(A) \in Nat /\ Cardinality(D) \in Nat
    BY <1>2, <1>3, <1>4, FS_EmptySet, FS_CardinalityType
  <1> QED  BY <1>2, <1>3, <1>4, <1>5, <1>6 DEF D

(* A part of a text has the line feeds between its ends. *)
LEMMA PartFeeds ==
  ASSUME NEW text \in Text, NEW part \in Text, NEW at \in Nat, PartAt(text, at, part)
  PROVE  Feeds(part) = RefLineAt(text, at + Len(part)) - RefLineAt(text, at)
  <1> DEFINE len == Len(part)
             D == Between(text, at, at + len)
             Found == FeedsAt(part)
             shift == [k \in Found |-> at + k]
  <1>1. len \in Nat /\ Len(text) \in Nat /\ at + len <= Len(text)
        /\ \A k \in 1..len : text[at + k] = part[k]
    BY LenProperties DEF Text, PartAt
  <1> HIDE DEF len
  <1>2. \A k : k \in Found <=> k \in 1..len /\ part[k] = LF
    BY DEF FeedsAt, len
  <1>3. \A f : f \in D <=> f \in 1..Len(text) /\ text[f] = LF /\ at < f /\ f <= at + len
    BY DEF Between, LineFeeds
  <1>4. IsFiniteSet(Found) /\ Feeds(part) = Cardinality(Found)
    BY FeedsFiniteSet
  <1>5. IsFiniteSet(D) /\ Cardinality(D) = RefLineAt(text, at + len) - RefLineAt(text, at)
    BY <1>1, RankBetween
  <1> HIDE DEF D, Found
  <1>6. \A k \in Found : shift[k] \in D
    <2>1. ASSUME NEW k \in Found PROVE at + k \in D
      <3>1. k \in 1..len /\ text[at + k] = LF
        BY <1>1, <1>2
      <3>2. at + k \in 1..Len(text) /\ at < at + k /\ at + k <= at + len
        BY <1>1, <3>1
      <3> QED  BY <1>3, <3>1, <3>2
    <2> QED  BY <2>1
  <1>7. \A k, l \in Found : shift[k] = shift[l] => k = l
    BY <1>1, <1>2
  <1>8. ASSUME NEW f \in D PROVE \E k \in Found : shift[k] = f
    <2>1. f - at \in 1..len /\ at + (f - at) = f
      BY <1>1, <1>3
    <2>2. f - at \in Found
      BY <1>1, <1>2, <1>3, <2>1
    <2> QED  BY <2>1, <2>2
  <1>9. shift \in [Found -> D]
    BY <1>6
  <1> HIDE DEF shift
  <1>10. shift \in Bijection(Found, D)
    BY <1>7, <1>8, <1>9 DEF Bijection, Injection, Surjection, IsInjective
  <1>11. Cardinality(D) = Cardinality(Found)
    BY <1>4, <1>5, <1>10, FS_Bijection DEF ExistsBijection
  <1> QED  BY <1>4, <1>5, <1>11 DEF len

(* What the line starts of its buffer say of the first characters of a      *)
(* piece is what the text says.                                            *)
LEMMA RangeFeeds ==
  ASSUME NEW buffers, BuffersOK(buffers), NEW root, GoodRoot(buffers, root),
         NEW s \in Starts(root), NEW j \in 0..root.pieces[s].length
  PROVE  LET text   == TextOf(buffers, root)
             piece  == root.pieces[s]
             buffer == buffer_at(buffers, piece.index)
             first  == cursor_offset(buffer, piece.first)
         IN  /\ lf_count_in_range(buffer, first, first + j)
                   = RefLineAt(text, s + j) - RefLineAt(text, s)
             /\ piece.newline_count
                   = RefLineAt(text, s + piece.length) - RefLineAt(text, s)
  <1> DEFINE text   == TextOf(buffers, root)
             piece  == root.pieces[s]
             buffer == buffer_at(buffers, piece.index)
             first  == cursor_offset(buffer, piece.first)
             Count(k) == lf_count_in_range(buffer, first, first + k)
  <1>1. /\ s \in Nat /\ piece.length \in Nat /\ root.length \in Nat
        /\ s + piece.length <= root.length
        /\ piece \in Piece /\ PieceOK(buffers, piece)
    BY DEF GoodRoot, TiledShape, Shape, Tiled, Piece, End, PiecesOK
  <1>2. text \in Text /\ Len(text) = root.length
    BY TextTyped
  <1>3. /\ WellFormed(buffer) /\ Len(buffer.text) \in Nat /\ first \in Nat
        /\ first + piece.length <= Len(buffer.text)
        /\ piece = PieceOf(buffers, piece.index, first, first + piece.length)
        /\ piece.index \in 0..Len(buffers.orig)
    BY <1>1, PieceRangeOf DEF PieceOK
  <1>4. \A k \in 1..piece.length :
           s + k \in 1..root.length /\ text[s + k] = buffer.text[first + k]
    <2>1. ASSUME NEW k \in 1..piece.length
          PROVE  s + k \in 1..root.length /\ text[s + k] = buffer.text[first + k]
      <3>1. /\ s + k \in 1..root.length
            /\ text[s + k] = PieceText(buffers, piece)[k]
        BY CharOfPiece
      <3> QED  BY <3>1 DEF PieceText
    <2> QED  BY <2>1
  <1> HIDE DEF text, first
  <1>5. ASSUME NEW k \in 0..piece.length
        PROVE  Count(k) = RefLineAt(text, s + k) - RefLineAt(text, s)
    <2> DEFINE part == PieceOf(buffers, piece.index, first, first + k)
               put  == PieceText(buffers, part)
    <2>1. first + k \in Nat /\ first <= first + k /\ first + k <= Len(buffer.text)
          /\ (first + k) - first = k /\ k \in Nat
      BY <1>1, <1>3, SMTT(30)
    <2>2. part \in Piece /\ part.length = k /\ PieceOK(buffers, part)
      BY <1>3, <2>1, PieceOfGood
    <2>3. /\ part.newline_count = Count(k) /\ part.index = piece.index
          /\ part.first = cursor_from_offset(buffer, first)
      BY DEF PieceOf
    <2>4. cursor_offset(buffer, part.first) = first
      BY <1>3, <2>3, CursorRoundTrip
    <2>5. Count(k) = Feeds(put)
      BY <2>2, <2>3, PieceFeeds
    <2>6. put \in Text /\ Len(put) = k
      BY <2>2, PieceTextTyped
    <2>7. put = [l \in 1..k |-> buffer.text[first + l]]
      BY <2>2, <2>3, <2>4 DEF PieceText
    <2> HIDE DEF part, put, buffer
    <2>8. PartAt(text, s, put)
      <3>1. s + k <= Len(text)
        BY <1>1, <1>2, <2>1
      <3>2. \A l \in 1..k : l \in 1..piece.length
        BY <1>1, <2>1
      <3> QED  BY <1>4, <2>6, <2>7, <3>1, <3>2 DEF PartAt
    <2>9. Feeds(put) = RefLineAt(text, s + k) - RefLineAt(text, s)
      BY <1>1, <1>2, <2>6, <2>8, PartFeeds
    <2> QED  BY <2>5, <2>9
  <1>6. piece.newline_count = Count(piece.length)
    BY <1>3 DEF PieceOf
  <1>7. Count(piece.length) = RefLineAt(text, s + piece.length) - RefLineAt(text, s)
    BY <1>1, <1>5
  <1>8. Count(j) = RefLineAt(text, s + j) - RefLineAt(text, s)
    BY <1>5
  <1> QED  BY <1>6, <1>7, <1>8 DEF text, first

-----------------------------------------------------------------------------
(* The sum of the line feeds of the pieces before one *)

SumOver(root, set) ==
    LET sum[s \in SUBSET set] ==
          IF s = {} THEN 0
          ELSE LET t == CHOOSE t \in s : TRUE
               IN  root.pieces[t].newline_count + sum[s \ {t}]
    IN  sum[set]

(* A function that adds the pieces one by one is the sum. *)
LEMMA SumIs ==
  ASSUME NEW root, NEW set, IsFiniteSet(set), NEW total, total[{}] = 0,
         \A s \in SUBSET set : \A t \in s :
            total[s] = root.pieces[t].newline_count + total[s \ {t}]
  PROVE  SumOver(root, set) = total[set]
  <1> DEFINE one(s) == CHOOSE t \in s : TRUE
             Next1(f, s) == IF s = {} THEN 0
                            ELSE root.pieces[one(s)].newline_count + f[s \ {one(s)}]
             Shape1(f) == f = [s \in SUBSET set |-> Next1(f, s)]
             g == [s \in SUBSET set |-> total[s]]
  <1>1. \A s : s # {} => one(s) \in s
    OBVIOUS
  <1>2. ASSUME NEW s \in SUBSET set PROVE g[s] = Next1(g, s)
    <2>1. CASE s = {}
      BY <2>1
    <2>2. CASE s # {}
      <3>1. one(s) \in s /\ s \ {one(s)} \in SUBSET set
        BY <1>1, <2>2
      <3> HIDE DEF one
      <3>2. g[s] = total[s] /\ g[s \ {one(s)}] = total[s \ {one(s)}]
        BY <3>1
      <3> QED  BY <2>2, <3>1, <3>2
    <2> QED  BY <2>1, <2>2
  <1>3. g = [s \in SUBSET set |-> g[s]]
    OBVIOUS
  <1> HIDE DEF g
  <1>4. Shape1(g)
    <2> HIDE DEF Next1
    <2> QED  BY <1>2, <1>3
  <1>5. PICK sum : sum = CHOOSE f : Shape1(f)
    OBVIOUS
  <1>6. SumOver(root, set) = sum[set]
    BY <1>5 DEF SumOver
  <1>7. Shape1(sum)
    <2> HIDE DEF Shape1
    <2> QED  BY <1>4, <1>5
  <1>8. \A s \in SUBSET set : sum[s] = Next1(sum, s)
    <2> HIDE DEF Next1
    <2> QED  BY <1>7
  <1> DEFINE N == {n \in Nat : \A s \in SUBSET set : Cardinality(s) = n => sum[s] = total[s]}
  <1>9. \A s \in SUBSET set : IsFiniteSet(s) /\ Cardinality(s) \in Nat
    BY FS_Subset, FS_CardinalityType
  <1>10. 0 \in N
    <2>1. ASSUME NEW s \in SUBSET set, Cardinality(s) = 0 PROVE sum[s] = total[s]
      <3>1. s = {}
        BY <1>9, <2>1, FS_EmptySet
      <3>2. sum[s] = 0
        BY <1>8, <3>1
      <3> QED  BY <3>1, <3>2
    <2> QED  BY <2>1
  <1>11. ASSUME NEW n \in Nat, n \in N PROVE n + 1 \in N
    <2>1. ASSUME NEW s \in SUBSET set, Cardinality(s) = n + 1 PROVE sum[s] = total[s]
      <3>1. s # {}
        BY <2>1, FS_EmptySet
      <3>2. one(s) \in s /\ s \ {one(s)} \in SUBSET set
        BY <1>1, <3>1
      <3>3. sum[s] = root.pieces[one(s)].newline_count + sum[s \ {one(s)}]
        BY <1>8, <3>1
      <3> HIDE DEF one
      <3>4. Cardinality(s \ {one(s)}) = n
        BY <1>9, <2>1, <3>2, FS_RemoveElement
      <3>5. sum[s \ {one(s)}] = total[s \ {one(s)}]
        BY <1>11, <3>2, <3>4
      <3> QED  BY <3>2, <3>3, <3>5
    <2> QED  BY <2>1
  <1> HIDE DEF N
  <1>12. Nat \subseteq N
    BY <1>10, <1>11, SetInduction
  <1>13. Cardinality(set) \in N /\ set \in SUBSET set
    BY <1>9, <1>12
  <1> QED  BY <1>6, <1>13 DEF N

(* The line feeds of the text that some of the pieces hold. *)
HeldBy(buffers, root, set) ==
    {f \in LineFeeds(TextOf(buffers, root)) : \E t \in set : t < f /\ f <= End(root, t)}

LEMMA StartsAreFinite ==
  ASSUME NEW buffers, BuffersOK(buffers), NEW root, GoodRoot(buffers, root)
  PROVE  /\ IsFiniteSet(Starts(root)) /\ root.length \in Nat
         /\ \A s \in Starts(root) :
               /\ s \in Nat /\ s < root.length
               /\ End(root, s) \in Nat /\ End(root, s) <= root.length
               /\ root.pieces[s].length \in Nat /\ root.pieces[s].length > 0
               /\ End(root, s) = s + root.pieces[s].length
               /\ \A t \in Starts(root) : s < t => End(root, s) <= t
  <1>1. /\ root.length \in Nat /\ Starts(root) \subseteq Nat
        /\ \A s \in Starts(root) : root.pieces[s].length \in Nat
    BY DEF GoodRoot, TiledShape, Shape, Piece
  <1>2. \A s \in Starts(root) :
               /\ s \in Nat /\ s < root.length
               /\ End(root, s) \in Nat /\ End(root, s) <= root.length
               /\ root.pieces[s].length \in Nat /\ root.pieces[s].length > 0
               /\ End(root, s) = s + root.pieces[s].length
               /\ \A t \in Starts(root) : s < t => End(root, s) <= t
    BY <1>1 DEF GoodRoot, TiledShape, Tiled, End
  <1>3. IsFiniteSet(0..root.length) /\ Starts(root) \in SUBSET (0..root.length)
    <2>1. 0 \in Int /\ root.length \in Int
      BY <1>1
    <2>2. IsFiniteSet(0..root.length)
      BY <2>1, FS_Interval, Zenon
    <2>3. \A s \in Starts(root) : s \in 0..root.length
      BY <1>1, <1>2
    <2> QED BY <2>2, <2>3
  <1>4. IsFiniteSet(Starts(root))
    BY <1>3, FS_Subset
  <1> QED  BY <1>1, <1>2, <1>4

LEMMA HeldStep ==
  ASSUME NEW buffers, BuffersOK(buffers), NEW root, GoodRoot(buffers, root),
         NEW set \in SUBSET Starts(root), NEW t \in set
  PROVE  Cardinality(HeldBy(buffers, root, set))
           = root.pieces[t].newline_count + Cardinality(HeldBy(buffers, root, set \ {t}))
  <1> DEFINE text == TextOf(buffers, root)
             A    == HeldBy(buffers, root, set \ {t})
             B    == HeldBy(buffers, root, set)
             D    == Between(text, t, End(root, t))
             size == root.pieces[t].length
  <1>1. text \in Text
    BY TextTyped
  <1>2. /\ t \in Nat /\ End(root, t) \in Nat /\ t <= End(root, t)
        /\ End(root, t) = t + size /\ size \in 0..size
    BY StartsAreFinite
  <1>3. LineFeeds(text) \subseteq Nat /\ IsFiniteSet(LineFeeds(text))
    <2>1. LineFeeds(text) = FeedsAt(text)
      BY DEF LineFeeds, FeedsAt
    <2>2. Len(text) \in Nat
      BY <1>1, LenProperties DEF Text
    <2> QED  BY <1>1, <2>1, <2>2, FeedsFiniteSet DEF FeedsAt
  <1>4. B = A \cup D
    BY DEF HeldBy, Between
  <1>5. A \cap D = {}
    <2> SUFFICES ASSUME NEW f \in LineFeeds(text), NEW u \in set \ {t},
                        u < f, f <= End(root, u), t < f, f <= End(root, t)
                 PROVE  FALSE
      BY DEF HeldBy, Between
    <2>1. /\ u \in Nat /\ t \in Nat /\ End(root, u) \in Nat /\ End(root, t) \in Nat /\ u # t
          /\ (u < t => End(root, u) <= t) /\ (t < u => End(root, t) <= u)
      BY StartsAreFinite
    <2> QED  BY <1>3, <2>1
  <1>6. A \in SUBSET LineFeeds(text) /\ D \in SUBSET LineFeeds(text)
    BY DEF HeldBy, Between
  <1>7. root.pieces[t].newline_count = RefLineAt(text, End(root, t)) - RefLineAt(text, t)
    BY <1>2, RangeFeeds
  <1>8. Cardinality(D) = RefLineAt(text, End(root, t)) - RefLineAt(text, t)
    BY <1>1, <1>2, RankBetween
  <1> HIDE DEF A, B, D, text
  <1>9. IsFiniteSet(A) /\ IsFiniteSet(D) /\ Cardinality(A) \in Nat /\ Cardinality(D) \in Nat
    BY <1>3, <1>6, FS_Subset, FS_CardinalityType
  <1>10. Cardinality(A \cup D) = Cardinality(A) + Cardinality(D) - Cardinality(A \cap D)
    BY <1>9, FS_Union
  <1>11. Cardinality(A \cap D) = 0
    BY <1>5, FS_EmptySet
  <1>12. Cardinality(B) = root.pieces[t].newline_count + Cardinality(A)
    BY <1>4, <1>7, <1>8, <1>9, <1>10, <1>11
  <1> QED  BY <1>12 DEF A, B

(* The sum on the way down to a piece counts the line feeds before it. *)
LEMMA LineFeedsBeforeIs ==
  ASSUME NEW buffers, BuffersOK(buffers), NEW root, GoodRoot(buffers, root),
         NEW s \in Starts(root)
  PROVE  LineFeedsBefore(root, s) = RefLineAt(TextOf(buffers, root), s)
  <1> DEFINE text  == TextOf(buffers, root)
             set   == {t \in Starts(root) : t < s}
             total == [u \in SUBSET set |-> Cardinality(HeldBy(buffers, root, u))]
  <1>1. LineFeedsBefore(root, s) = SumOver(root, set)
    BY DEF LineFeedsBefore, MapThenSumSet, MapThenFoldSet, SumOver
  <1>2. IsFiniteSet(set) /\ set \in SUBSET Starts(root)
    BY StartsAreFinite, FS_Subset
  <1>3. total[{}] = 0
    <2>1. HeldBy(buffers, root, {}) = {}
      BY DEF HeldBy
    <2>2. total[{}] = Cardinality(HeldBy(buffers, root, {}))
      OBVIOUS
    <2> QED  BY <2>1, <2>2, FS_EmptySet
  <1>4. ASSUME NEW u \in SUBSET set, NEW t \in u
        PROVE  total[u] = root.pieces[t].newline_count + total[u \ {t}]
    <2>1. u \in SUBSET Starts(root) /\ u \ {t} \in SUBSET set
      OBVIOUS
    <2>2. total[u] = Cardinality(HeldBy(buffers, root, u))
          /\ total[u \ {t}] = Cardinality(HeldBy(buffers, root, u \ {t}))
      BY <2>1
    <2>3. Cardinality(HeldBy(buffers, root, u))
            = root.pieces[t].newline_count + Cardinality(HeldBy(buffers, root, u \ {t}))
      BY <2>1, HeldStep
    <2> QED  BY <2>2, <2>3
  <1>5. total[set] = Cardinality(HeldBy(buffers, root, set))
    OBVIOUS
  <1> HIDE DEF total
  <1>6. SumOver(root, set) = total[set]
    <2>1. \A u \in SUBSET set : \A t \in u :
             total[u] = root.pieces[t].newline_count + total[u \ {t}]
      BY <1>4
    <2>2. PICK f : f = total
      OBVIOUS
    <2>3. /\ IsFiniteSet(set) /\ f[{}] = 0
          /\ \A u \in SUBSET set : \A t \in u :
                f[u] = root.pieces[t].newline_count + f[u \ {t}]
      BY <1>2, <1>3, <2>1, <2>2
    <2> HIDE DEF set
    <2>4. SumOver(root, set) = f[set]
      BY <2>3, SumIs
    <2> QED  BY <2>2, <2>4
  <1>7. HeldBy(buffers, root, set) = {f \in LineFeeds(text) : f <= s}
    <2>1. text \in Text /\ Len(text) = root.length /\ root.length \in Nat
      BY TextTyped
    <2>2. s \in Nat /\ \A t \in set : t \in Nat /\ End(root, t) \in Nat /\ End(root, t) <= s
      BY StartsAreFinite
    <2>3. ASSUME NEW f \in LineFeeds(text), f <= s
          PROVE  \E t \in set : t < f /\ f <= End(root, t)
      <3>1. f \in 1..root.length
        BY <2>1 DEF LineFeeds
      <3>2. f - 1 \in 0..(root.length - 1)
        BY <2>1, <3>1
      <3>3. PICK t \in Starts(root) : t <= f - 1 /\ f - 1 < End(root, t)
        BY <3>2 DEF GoodRoot, TiledShape, Tiled, HasNode
      <3>4. t \in Nat /\ End(root, t) \in Nat
        BY StartsAreFinite
      <3>5. t < f /\ f <= End(root, t) /\ t < s
        BY <2>2, <2>3, <3>1, <3>3, <3>4
      <3> QED  BY <3>5
    <2>4. ASSUME NEW f \in LineFeeds(text), NEW t \in set, f <= End(root, t) PROVE f <= s
      <3>1. f \in Nat
        BY <2>1 DEF LineFeeds
      <3> QED  BY <2>2, <2>4, <3>1
    <2> HIDE DEF set
    <2> QED  BY <2>3, <2>4 DEF HeldBy
  <1> QED  BY <1>1, <1>5, <1>6, <1>7 DEF RefLineAt

-----------------------------------------------------------------------------
(* The descents of the line queries *)

(* Wherever the descent stops, it counts the line feeds before the offset. *)
LEMMA LineAtIs ==
  ASSUME NEW buffers, BuffersOK(buffers), NEW root, GoodRoot(buffers, root),
         NEW offset \in 0..root.length
  PROVE  line_at_offset(buffers, root, offset) = {RefLineAt(TextOf(buffers, root), offset)}
  <1> DEFINE text  == TextOf(buffers, root)
             Stops == {t \in Starts(root) : t <= offset /\ offset <= End(root, t)}
             Answer(s) == LET piece  == root.pieces[s]
                              buffer == buffer_at(buffers, piece.index)
                              first  == cursor_offset(buffer, piece.first)
                          IN  LineFeedsBefore(root, s)
                                + lf_count_in_range(buffer, first, first + (offset - s))
  <1>1. text \in Text /\ Len(text) = root.length /\ root.length \in Nat /\ offset \in Nat
    BY TextTyped
  <1>2. ASSUME NEW k \in 0..(root.length - 1)
        PROVE  \E t \in Starts(root) : t <= k /\ k < End(root, t)
    BY DEF GoodRoot, TiledShape, Tiled, HasNode
  <1>3. CASE Starts(root) = {}
    <2>1. ~(root.length > 0)
      <3>1. root.length > 0 => 0 \in 0..(root.length - 1)
        BY <1>1
      <3> QED  BY <1>2, <1>3, <3>1
    <2>2. offset = 0
      BY <1>1, <2>1
    <2>3. RefLineAt(text, 0) = 0
      BY <1>1, RankEnds
    <2> QED  BY <1>3, <2>2, <2>3 DEF line_at_offset
  <1>4. CASE Starts(root) # {}
    <2>1. Stops # {}
      <3>1. root.length > 0
        <4>1. PICK t : t \in Starts(root)
          BY <1>4
        <4> QED  BY <1>1, <4>1, StartsAreFinite
      <3>2. CASE offset < root.length
        <4>1. offset \in 0..(root.length - 1)
          BY <1>1, <3>2
        <4>2. PICK t \in Starts(root) : t <= offset /\ offset < End(root, t)
          BY <1>2, <4>1
        <4>3. offset <= End(root, t)
          BY <1>1, <4>2, StartsAreFinite
        <4> QED  BY <4>2, <4>3
      <3>3. CASE ~(offset < root.length)
        <4>1. root.length - 1 \in 0..(root.length - 1) /\ offset = root.length
          BY <1>1, <3>1, <3>3
        <4>2. PICK t \in Starts(root) : t <= root.length - 1 /\ root.length - 1 < End(root, t)
          BY <1>2, <4>1
        <4>3. t <= offset /\ offset <= End(root, t)
          BY <1>1, <4>1, <4>2, StartsAreFinite
        <4> QED  BY <4>3
      <3> QED  BY <3>2, <3>3
    <2>2. ASSUME NEW s \in Stops PROVE Answer(s) = RefLineAt(text, offset)
      <3> DEFINE buffer == buffer_at(buffers, root.pieces[s].index)
                 first  == cursor_offset(buffer, root.pieces[s].first)
                 j      == offset - s
      <3>1. s \in Starts(root) /\ s \in Nat /\ j \in 0..root.pieces[s].length /\ s + j = offset
        BY <1>1, StartsAreFinite
      <3>2. LineFeedsBefore(root, s) = RefLineAt(text, s)
        BY <3>1, LineFeedsBeforeIs
      <3> HIDE DEF j
      <3>3. lf_count_in_range(buffer, first, first + j)
              = RefLineAt(text, s + j) - RefLineAt(text, s)
        BY <3>1, RangeFeeds
      <3>4. Answer(s) = LineFeedsBefore(root, s) + lf_count_in_range(buffer, first, first + j)
        BY DEF j
      <3>5. RefLineAt(text, s) \in Nat /\ RefLineAt(text, offset) \in Nat
        BY <1>1, RankTyped
      <3> HIDE DEF Answer, buffer, first, text
      <3> QED  BY <3>1, <3>2, <3>3, <3>4, <3>5
    <2>3. line_at_offset(buffers, root, offset) = {Answer(s) : s \in Stops}
      BY <1>4 DEF line_at_offset
    <2> HIDE DEF Answer, Stops
    <2> QED  BY <2>1, <2>2, <2>3
  <1> QED  BY <1>3, <1>4

(* A line starts behind the line feed that the descent finds. *)
LEMMA LineOffsetIs ==
  ASSUME NEW buffers, BuffersOK(buffers), NEW root, GoodRoot(buffers, root),
         NEW line \in 0..Feeds(TextOf(buffers, root))
  PROVE  line_offset(buffers, root, line) = RefLineFirst(TextOf(buffers, root), line)
  <1> DEFINE text == TextOf(buffers, root)
             f    == LineFeed(text, line)
             holds(s) == /\ LineFeedsBefore(root, s) < line
                         /\ line <= LineFeedsBefore(root, s) + root.pieces[s].newline_count
  <1>1. text \in Text /\ Len(text) = root.length /\ root.length \in Nat
        /\ Feeds(text) \in Nat
    BY TextTyped, FeedsFiniteSet
  <1>2. CASE line = 0
    BY <1>2 DEF line_offset, RefLineFirst
  <1>3. CASE line # 0
    <2>1. line \in Nat /\ line \in 1..Feeds(text)
      BY <1>1, <1>3
    <2>2. f \in LineFeeds(text) /\ f \in 1..root.length /\ RefLineAt(text, f) = line
      BY <1>1, <2>1, LineFeedIs
    <2>3. text[f] = LF
      BY <2>2 DEF LineFeeds
    <2> HIDE DEF f
    <2>4. PICK s \in Starts(root) : s <= f - 1 /\ f - 1 < End(root, s)
      <3>1. f - 1 \in 0..(root.length - 1)
        BY <1>1, <2>2
      <3> QED  BY <3>1 DEF GoodRoot, TiledShape, Tiled, HasNode
    <2> DEFINE piece  == root.pieces[s]
               buffer == buffer_at(buffers, piece.index)
               first  == cursor_offset(buffer, piece.first)
               j      == f - s
    <2>5. /\ s \in Nat /\ f \in Nat /\ s < f /\ f <= End(root, s) /\ End(root, s) = s + piece.length
          /\ piece.length \in Nat /\ j \in 1..piece.length /\ j \in 0..piece.length /\ s + j = f
      BY <1>1, <2>2, <2>4, StartsAreFinite, SMTT(30)
    <2> HIDE DEF text
    <2>6. ASSUME NEW t \in Starts(root)
          PROVE  /\ LineFeedsBefore(root, t) = RefLineAt(text, t)
                 /\ LineFeedsBefore(root, t) + root.pieces[t].newline_count
                      = RefLineAt(text, End(root, t))
                 /\ RefLineAt(text, t) \in Nat /\ RefLineAt(text, End(root, t)) \in Nat
      <3>1. /\ root.pieces[t].length \in 0..root.pieces[t].length
            /\ End(root, t) = t + root.pieces[t].length
        BY StartsAreFinite
      <3>2. LineFeedsBefore(root, t) = RefLineAt(text, t)
        BY LineFeedsBeforeIs DEF text
      <3>3. root.pieces[t].newline_count = RefLineAt(text, End(root, t)) - RefLineAt(text, t)
        BY <3>1, RangeFeeds DEF text
      <3>4. RefLineAt(text, t) \in Nat /\ RefLineAt(text, End(root, t)) \in Nat
        BY <1>1, RankTyped
      <3> QED  BY <3>2, <3>3, <3>4
    <2>7. holds(s)
      <3>1. RefLineAt(text, s) < RefLineAt(text, f)
        <4>1. s \in Nat /\ f \in Nat /\ s <= f /\ s < f /\ f <= f
          BY <2>5
        <4> QED  BY <1>1, <2>2, <4>1, RankGrows
      <3>2. RefLineAt(text, f) <= RefLineAt(text, End(root, s))
        <4>1. End(root, s) \in Nat
          BY StartsAreFinite
        <4> QED  BY <1>1, <2>5, <4>1, RankGrows
      <3> QED  BY <2>1, <2>2, <2>6, <3>1, <3>2
    <2>8. ASSUME NEW t \in Starts(root), holds(t) PROVE t = s
      <3>1. /\ t \in Nat /\ End(root, t) \in Nat /\ End(root, s) \in Nat
            /\ (s < t => End(root, s) <= t) /\ (t < s => End(root, t) <= s)
        BY StartsAreFinite
      <3>2. RefLineAt(text, t) < line /\ line <= RefLineAt(text, End(root, t))
        BY <2>6, <2>8
      <3>3. ~(s < t)
        <4> SUFFICES ASSUME s < t PROVE FALSE
          OBVIOUS
        <4>1. f <= t
          BY <2>5, <3>1
        <4>2. RefLineAt(text, f) <= RefLineAt(text, t)
          BY <1>1, <2>5, <3>1, <4>1, RankGrows
        <4> QED  BY <2>1, <2>2, <2>6, <3>2, <4>2
      <3>4. ~(t < s)
        <4> SUFFICES ASSUME t < s PROVE FALSE
          OBVIOUS
        <4>1. End(root, t) <= f /\ End(root, t) < f /\ f <= f
          BY <2>5, <3>1
        <4>2. RefLineAt(text, End(root, t)) < RefLineAt(text, f)
          BY <1>1, <2>2, <2>5, <3>1, <4>1, RankGrows
        <4> QED  BY <2>1, <2>2, <2>6, <3>2, <4>2
      <3> QED  BY <2>5, <3>1, <3>3, <3>4
    <2> DEFINE Value(t) == LET one    == root.pieces[t]
                               source == buffer_at(buffers, one.index)
                               base   == cursor_offset(source, one.first)
                               target == line - LineFeedsBefore(root, t)
                           IN  t + LineStart(source, line_start_index(source, base) + target)
                                 - base
    <2>9. line_offset(buffers, root, line)
            = IF \E t \in Starts(root) : holds(t)
              THEN Value(CHOOSE t \in Starts(root) : holds(t)) ELSE root.length
      BY <1>3 DEF line_offset
    <2> HIDE DEF holds
    <2>10. (CHOOSE t \in Starts(root) : holds(t)) = s
      BY <2>7, <2>8
    <2>11. line_offset(buffers, root, line) = Value(s)
      <3> HIDE DEF Value
      <3> QED  BY <2>7, <2>9, <2>10
    <2>12. /\ WellFormed(buffer) /\ Len(buffer.text) \in Nat /\ first \in Nat
           /\ first + piece.length <= Len(buffer.text)
      <3>1. piece \in Piece /\ PieceOK(buffers, piece)
        BY DEF GoodRoot, TiledShape, Shape, PiecesOK
      <3> QED  BY <3>1, PieceRangeOf
    <2>13. buffer.text[first + j] = LF
      <3>1. TextOf(buffers, root)[s + j] = PieceText(buffers, piece)[j]
        BY <2>5, CharOfPiece
      <3>2. PieceText(buffers, piece)[j] = buffer.text[first + j]
        BY <2>5 DEF PieceText
      <3> QED  BY <2>3, <2>5, <3>1, <3>2 DEF text
    <2>14. lf_count_in_range(buffer, first, first + j)
             = RefLineAt(text, s + j) - RefLineAt(text, s)
      BY <2>5, RangeFeeds DEF text
    <2> HIDE DEF j
    <2>15. Value(s) = s + LineStart(buffer, line_start_index(buffer, first)
                                              + (line - LineFeedsBefore(root, s))) - first
      OBVIOUS
    <2> HIDE DEF Value, buffer, first, piece
    <2>16. first + j \in Nat /\ LastStart(buffer, first + j, first + j)
      <3>1. first + j \in 1..Len(buffer.text)
        BY <2>5, <2>12
      <3>2. first + j \in buffer.line_starts
        BY <2>12, <2>13, <3>1 DEF WellFormed, calculate_line_starts
      <3>3. buffer.line_starts \subseteq Nat
        BY <2>12, StartsFinite
      <3> QED  BY <3>1, <3>2, <3>3 DEF LastStart
    <2>17. LineStart(buffer, line_start_index(buffer, first + j)) = first + j
      BY <2>12, <2>16, LineStartOfIndex
    <2>18. line_start_index(buffer, first) \in Int /\ line_start_index(buffer, first + j) \in Int
      <3>1. ASSUME NEW k \in Nat PROVE line_start_index(buffer, k) \in Int
        <4>1. IsFiniteSet({n \in buffer.line_starts : n <= k})
          BY <2>12, StartsFinite, FS_Subset
        <4> QED  BY <4>1, FS_CardinalityType DEF line_start_index
      <3> QED  BY <2>12, <2>16, <3>1
    <2>19. line_start_index(buffer, first) + (line - LineFeedsBefore(root, s))
             = line_start_index(buffer, first + j)
      BY <2>1, <2>2, <2>5, <2>6, <2>14, <2>18 DEF lf_count_in_range
    <2>20. Value(s) = s + (first + j) - first
      BY <2>15, <2>17, <2>19
    <2>21. s + (first + j) - first = f
      BY <2>5, <2>12
    <2> QED  BY <1>3, <2>11, <2>20, <2>21 DEF RefLineFirst, f, text
  <1> QED  BY <1>2, <1>3

-----------------------------------------------------------------------------
(* The ranges and contents of lines *)

(* A line of a text, its ending included. *)
LEMMA LineEnds ==
  ASSUME NEW text \in Text, NEW line \in 0..Feeds(text)
  PROVE  LET first == RefLineFirst(text, line)
             end   == RefLineEnd(text, line)
         IN  /\ Len(text) \in Nat /\ Feeds(text) \in Nat /\ line \in Nat
             /\ first \in 0..Len(text) /\ end \in 0..Len(text) /\ first <= end
             /\ first > 0 => text[first] = LF
             /\ RefHasLineFeed(text, line) <=> line < Feeds(text)
             /\ line < Feeds(text) => /\ end = LineFeed(text, line + 1)
                                      /\ end = RefLineFirst(text, line + 1)
                                      /\ first < end
             /\ ~(line < Feeds(text)) => end = Len(text)
  <1> DEFINE first == RefLineFirst(text, line)
             end   == RefLineEnd(text, line)
  <1>1. Len(text) \in Nat /\ Feeds(text) \in Nat /\ line \in Nat
    BY FeedsFiniteSet, LenProperties DEF Text
  <1>2. RefHasLineFeed(text, line) <=> line < Feeds(text)
    BY DEF RefHasLineFeed, Feeds, LineFeeds
  <1>3. first \in 0..Len(text) /\ RefLineAt(text, first) = line /\ (first > 0 => text[first] = LF)
    <2>1. CASE line = 0
      <3>1. first = 0
        BY <2>1 DEF RefLineFirst
      <3> QED  BY <1>1, <2>1, <3>1, RankEnds
    <2>2. CASE line # 0
      <3>1. line \in 1..Feeds(text) /\ first = LineFeed(text, line)
        BY <1>1, <2>2 DEF RefLineFirst
      <3>2. /\ first \in LineFeeds(text) /\ first \in 1..Len(text)
            /\ RefLineAt(text, first) = line
        BY <3>1, LineFeedIs
      <3> QED  BY <1>1, <3>2 DEF LineFeeds
    <2> QED  BY <2>1, <2>2
  <1>4. CASE line < Feeds(text)
    <2>1. line + 1 \in 1..Feeds(text) /\ end = LineFeed(text, line + 1)
          /\ line + 1 # 0
      BY <1>1, <1>2, <1>4 DEF RefLineEnd
    <2>2. end \in 1..Len(text) /\ RefLineAt(text, end) = line + 1
      BY <2>1, LineFeedIs
    <2>3. ~(end <= first)
      <3>1. first \in Nat /\ end \in Nat
        BY <1>1, <1>3, <2>2
      <3>2. end <= first => RefLineAt(text, end) <= RefLineAt(text, first)
        BY <3>1, RankGrows
      <3> QED  BY <1>1, <1>3, <2>2, <3>2
    <2>4. end = RefLineFirst(text, line + 1)
      BY <2>1 DEF RefLineFirst
    <2> HIDE DEF first, end
    <2>5. first < end /\ first <= end /\ end \in 0..Len(text)
      BY <1>1, <1>3, <2>2, <2>3
    <2> QED  BY <1>1, <1>2, <1>3, <1>4, <2>1, <2>4, <2>5 DEF first, end
  <1>5. CASE ~(line < Feeds(text))
    <2>1. end = Len(text)
      BY <1>2, <1>5 DEF RefLineEnd
    <2> QED  BY <1>1, <1>2, <1>3, <1>5, <2>1
  <1> QED  BY <1>4, <1>5

LEMMA CharIs ==
  ASSUME NEW buffers, NEW root, NEW k \in 0..(root.length - 1), root.length \in Nat
  PROVE  char_at_tree(buffers, root, k) = TextOf(buffers, root)[k + 1]
  <1>1. k + 1 \in 1..root.length /\ (k + 1) - 1 = k
    OBVIOUS
  <1> QED  BY <1>1 DEF TextOf

RangesOK(buffers, root, line) ==
    LET text   == TextOf(buffers, root)
        feed   == IF RefHasLineFeed(text, line) THEN 1 ELSE 0
        return == IF RefHasCR(text, line) THEN 1 ELSE 0
        lf     == Feeds(text)
    IN  /\ get_line_range(buffers, lf, root, line) = RefRange(text, line, feed)
        /\ get_line_range_crlf(buffers, lf, root, line) = RefRange(text, line, feed + return)
        /\ get_line_range_with_newline(buffers, lf, root, line) = RefRange(text, line, 0)

LEMMA RangesAre ==
  ASSUME NEW buffers, BuffersOK(buffers), NEW root, GoodRoot(buffers, root),
         NEW line \in 0..Feeds(TextOf(buffers, root))
  PROVE  RangesOK(buffers, root, line)
  <1> DEFINE text  == TextOf(buffers, root)
             lf    == Feeds(text)
             first == RefLineFirst(text, line)
             end   == RefLineEnd(text, line)
             next  == line_offset(buffers, root, line + 1)
             cr    == RefHasCR(text, line)
  <1>1. text \in Text /\ Len(text) = root.length /\ root.length \in Nat
    BY TextTyped
  <1>2. /\ lf \in Nat /\ line \in Nat
        /\ first \in 0..root.length /\ end \in 0..root.length /\ first <= end
        /\ RefHasLineFeed(text, line) <=> line < lf
        /\ line < lf => first < end /\ end = RefLineFirst(text, line + 1)
        /\ ~(line < lf) => end = root.length
    BY <1>1, LineEnds
  <1>3. line_offset(buffers, root, line) = first
    BY LineOffsetIs
  <1>4. line < lf => next = end
    <2>1. line < lf => line + 1 \in 0..lf
      BY <1>2
    <2> QED  BY <1>2, <2>1, LineOffsetIs
  <1>5. line < lf => (cr <=> next - 1 > first /\ char_at_tree(buffers, root, next - 2) = CR)
    <2> SUFFICES ASSUME line < lf
                 PROVE  cr <=> next - 1 > first /\ char_at_tree(buffers, root, next - 2) = CR
      OBVIOUS
    <2>1. cr <=> end - 1 > first /\ text[end - 1] = CR
      BY <1>2 DEF RefHasCR
    <2>2. end - 1 > first => char_at_tree(buffers, root, end - 2) = text[end - 1]
      <3> SUFFICES ASSUME end - 1 > first
                   PROVE  char_at_tree(buffers, root, end - 2) = text[end - 1]
        OBVIOUS
      <3> HIDE DEF end, first
      <3>1. end - 2 \in 0..(root.length - 1) /\ end - 2 + 1 = end - 1
        BY <1>1, <1>2
      <3> QED  BY <1>1, <3>1, CharIs
    <2> QED  BY <1>4, <2>1, <2>2
  <1>6. ~(line < lf) => ~cr
    BY <1>2 DEF RefHasCR
  <1> DEFINE LineRange(strip, whole) ==
               [first |-> first,
                last  |-> IF line >= lf THEN root.length
                          ELSE IF whole THEN next
                          ELSE IF /\ strip
                                  /\ next - 1 > first
                                  /\ char_at_tree(buffers, root, next - 2) = CR
                          THEN next - 2
                          ELSE next - 1]
  <1>7. /\ get_line_range(buffers, lf, root, line) = LineRange(FALSE, FALSE)
        /\ get_line_range_crlf(buffers, lf, root, line) = LineRange(TRUE, FALSE)
        /\ get_line_range_with_newline(buffers, lf, root, line) = LineRange(FALSE, TRUE)
    BY <1>3 DEF get_line_range, get_line_range_crlf, get_line_range_with_newline,
                tree_line_range
  <1>8. \A dropped : RefRange(text, line, dropped) = [first |-> first, last |-> end - dropped]
    BY DEF RefRange
  <1>9. cr \in BOOLEAN
    BY DEF RefHasCR, RefHasLineFeed
  <1>10. CASE line < lf
    <2>1. ~(line >= lf)
      BY <1>2, <1>10
    <2>2. /\ LineRange(FALSE, FALSE) = [first |-> first, last |-> end - 1]
          /\ LineRange(TRUE, FALSE) = [first |-> first, last |-> IF cr THEN end - 2 ELSE end - 1]
          /\ LineRange(FALSE, TRUE) = [first |-> first, last |-> end]
      <3> HIDE DEF lf, first, end, next, cr
      <3> QED  BY <1>4, <1>5, <1>9, <1>10, <2>1
    <2>3. /\ RefRange(text, line, 1) = [first |-> first, last |-> end - 1]
          /\ RefRange(text, line, 1 + (IF cr THEN 1 ELSE 0))
               = [first |-> first, last |-> IF cr THEN end - 2 ELSE end - 1]
          /\ RefRange(text, line, 0) = [first |-> first, last |-> end]
      <3> HIDE DEF first, end, cr
      <3> QED  BY <1>2, <1>8, <1>9
    <2> HIDE DEF lf, first, end, cr, LineRange
    <2> QED  BY <1>2, <1>7, <1>10, <2>2, <2>3 DEF RangesOK, lf, cr
  <1>11. CASE ~(line < lf)
    <2>1. line >= lf
      BY <1>2, <1>11
    <2>2. \A strip, whole : LineRange(strip, whole) = [first |-> first, last |-> end]
      BY <1>2, <1>11, <2>1
    <2>3. RefRange(text, line, 0) = [first |-> first, last |-> end]
          /\ RefRange(text, line, 0 + 0) = [first |-> first, last |-> end]
      <3> HIDE DEF first, end
      <3> QED  BY <1>2, <1>8
    <2> HIDE DEF lf, first, end, cr, LineRange
    <2> QED  BY <1>2, <1>6, <1>7, <1>11, <2>2, <2>3 DEF RangesOK, lf, cr
  <1> QED  BY <1>10, <1>11

(* The characters of a range, one by one. *)
LEMMA AssembledIs ==
  ASSUME NEW buffers, BuffersOK(buffers), NEW root, GoodRoot(buffers, root),
         NEW range, range.first \in Nat, range.last \in Nat,
         range.first <= range.last, range.last <= root.length
  PROVE  assemble_tree_range(buffers, root, range)
           = SubSeq(TextOf(buffers, root), range.first + 1, range.last)
  <1> DEFINE text == TextOf(buffers, root)
             i    == range.first
             j    == range.last
             got  == assemble_tree_range(buffers, root, range)
             sub  == SubSeq(text, i + 1, j)
  <1>1. text \in Seq(Char) /\ Len(text) = root.length /\ root.length \in Nat
    BY TextTyped DEF Text
  <1>2. \A k \in 1..root.length : text[k] \in Char
    BY <1>1, ElementOfSeq
  <1>3. got = [k \in 1..(j - i) |-> char_at_tree(buffers, root, i + k - 1)]
    BY DEF assemble_tree_range
  <1> HIDE DEF got, sub, i, j, text
  <1>4. i \in Nat /\ j \in Nat /\ i <= j /\ j <= root.length /\ j - i \in Nat
    BY <1>1 DEF i, j
  <1>5. ASSUME NEW k \in 1..(j - i) PROVE got[k] = text[i + k] /\ text[i + k] \in Char
    <2>1. /\ i + k - 1 \in 0..(root.length - 1) /\ (i + k - 1) + 1 = i + k
          /\ i + k \in 1..root.length
      BY <1>1, <1>4
    <2>2. char_at_tree(buffers, root, i + k - 1) = text[i + k]
      BY <1>1, <2>1, CharIs DEF text
    <2> QED  BY <1>2, <1>3, <2>1, <2>2
  <1>6. got \in Seq(Char) /\ Len(got) = j - i
    <2>1. got \in [1..(j - i) -> Char]
      BY <1>3, <1>5
    <2> QED  BY <1>4, <2>1, SeqOf, Zenon
  <1>7. /\ sub \in Seq(Char) /\ Len(sub) = j - i
        /\ \A k \in 1..(j - i) : sub[k] = text[i + k]
    <2>1. i + 1 \in Int /\ j \in Int /\ \A k \in (i + 1)..j : text[k] \in Char
      BY <1>1, <1>2, <1>4
    <2>2. /\ sub \in Seq(Char) /\ Len(sub) = IF i + 1 <= j THEN j - (i + 1) + 1 ELSE 0
          /\ \A k \in 1..(j - (i + 1) + 1) : sub[k] = text[(i + 1) + k - 1]
      BY <2>1, SubSeqProperties DEF sub
    <2>3. \A k \in 1..(j - i) : k \in 1..(j - (i + 1) + 1) /\ (i + 1) + k - 1 = i + k
      BY <1>4
    <2>4. Len(sub) = j - i
      BY <1>4, <2>2
    <2>5. ASSUME NEW k \in 1..(j - i) PROVE sub[k] = text[i + k]
      BY <2>2, <2>3
    <2> QED  BY <2>2, <2>4, <2>5
  <1>8. got = sub
    BY <1>5, <1>6, <1>7, SameText
  <1> QED  BY <1>8 DEF got, sub, i, j, text

ContentOK(buffers, root, line) ==
    LET text    == TextOf(buffers, root)
        feed    == IF RefHasLineFeed(text, line) THEN 1 ELSE 0
        bare    == RefHasLineFeed(text, line) /\ ~RefHasCR(text, line)
        dropped == IF bare THEN 1 ELSE IF RefHasCR(text, line) THEN 2 ELSE 0
    IN  /\ get_line_content(buffers, Feeds(text), root, line) =
              SubSeq(text, RefLineFirst(text, line) + 1, RefLineEnd(text, line) - feed)
        /\ get_line_content_crlf(buffers, Feeds(text), root, line) =
              [content    |-> SubSeq(text, RefLineFirst(text, line) + 1,
                                     RefLineEnd(text, line) - dropped),
               incomplete |-> bare]

LEMMA ContentIs ==
  ASSUME NEW buffers, BuffersOK(buffers), NEW root, GoodRoot(buffers, root),
         NEW line \in 0..Feeds(TextOf(buffers, root))
  PROVE  ContentOK(buffers, root, line)
  <1> DEFINE text  == TextOf(buffers, root)
             lf    == Feeds(text)
             first == RefLineFirst(text, line)
             end   == RefLineEnd(text, line)
             next  == line_offset(buffers, root, line + 1)
             cr    == RefHasCR(text, line)
             feed  == RefHasLineFeed(text, line)
             bare  == feed /\ ~cr
             drop  == IF bare THEN 1 ELSE IF cr THEN 2 ELSE 0
             range == get_line_range_crlf(buffers, lf, root, line)
             stop  == ~(next >= 2 /\ char_at_tree(buffers, root, next - 2) = CR)
  <1>1. text \in Text /\ Len(text) = root.length /\ root.length \in Nat
    BY TextTyped
  <1>2. /\ lf \in Nat /\ line \in Nat
        /\ first \in 0..root.length /\ end \in 0..root.length /\ first <= end
        /\ first > 0 => text[first] = LF
        /\ feed <=> line < lf
        /\ line < lf => first < end /\ end = RefLineFirst(text, line + 1)
    BY <1>1, LineEnds
  <1>3. line < lf => next = end
    <2>1. line < lf => line + 1 \in 0..lf
      BY <1>2
    <2> QED  BY <1>2, <2>1, LineOffsetIs
  <1>4. cr <=> feed /\ end - 1 > first /\ text[end - 1] = CR
    BY DEF RefHasCR
  <1>5. /\ cr \in BOOLEAN /\ feed \in BOOLEAN
    BY DEF RefHasCR, RefHasLineFeed
  <1>6. range.first = first /\ range.last = end - drop
    <2>1. range = RefRange(text, line, (IF feed THEN 1 ELSE 0) + (IF cr THEN 1 ELSE 0))
      BY RangesAre DEF RangesOK
    <2>2. range.first = first
          /\ range.last = end - ((IF feed THEN 1 ELSE 0) + (IF cr THEN 1 ELSE 0))
      <3> HIDE DEF range
      <3> QED  BY <2>1 DEF RefRange
    <2>3. (IF feed THEN 1 ELSE 0) + (IF cr THEN 1 ELSE 0) = drop
      <3> HIDE DEF feed
      <3>1. cr => feed
        BY <1>4
      <3> HIDE DEF cr
      <3> QED  BY <1>5, <3>1
    <2> QED  BY <2>2, <2>3
  <1>7. feed => (stop <=> ~cr)
    <2> SUFFICES ASSUME feed PROVE stop <=> ~cr
      BY <1>5
    <2>1. next = end /\ first < end /\ first \in Nat /\ end \in Nat /\ end <= root.length
      BY <1>1, <1>2, <1>3
    <2>2. end >= 2 => char_at_tree(buffers, root, end - 2) = text[end - 1]
      <3> SUFFICES ASSUME end >= 2
                   PROVE  char_at_tree(buffers, root, end - 2) = text[end - 1]
        OBVIOUS
      <3> HIDE DEF end, first
      <3>1. end - 2 \in 0..(root.length - 1) /\ end - 2 + 1 = end - 1
        BY <1>1, <2>1
      <3> QED  BY <1>1, <3>1, CharIs
    <2>3. stop <=> ~(end >= 2 /\ text[end - 1] = CR)
      BY <2>1, <2>2
    <2> HIDE DEF stop, end, first, text
    <2>4. CASE end - 1 > first
      <3>1. end >= 2
        BY <2>1, <2>4
      <3> QED  BY <1>4, <2>3, <2>4, <3>1
    <2>5. CASE ~(end - 1 > first)
      <3>1. end - 1 = first
        BY <2>1, <2>5
      <3>2. end >= 2 => first > 0
        BY <2>1, <3>1
      <3>3. end >= 2 => text[end - 1] = LF
        BY <1>2, <3>1, <3>2
      <3> QED  BY <1>4, <2>3, <2>5, <3>3, CRAssumption
    <2> QED  BY <2>4, <2>5
  <1>8. assemble_tree_range(buffers, root, range) = SubSeq(text, first + 1, end - drop)
    <2>1. first \in Nat /\ end - drop \in Nat /\ first <= end - drop /\ end - drop <= root.length
      <3>1. cr => end - 1 > first
        BY <1>4
      <3>2. feed => first < end
        BY <1>2
      <3> HIDE DEF cr, feed, first, end
      <3> QED  BY <1>1, <1>2, <1>5, <3>1, <3>2
    <2> HIDE DEF range, drop, first, end
    <2>2. assemble_tree_range(buffers, root, range)
            = SubSeq(TextOf(buffers, root), range.first + 1, range.last)
      BY <1>6, <2>1, AssembledIs
    <2> QED  BY <1>6, <2>2
  <1>9. get_line_content_crlf(buffers, lf, root, line)
          = [content    |-> assemble_tree_range(buffers, root, range),
             incomplete |-> line < lf /\ stop]
    BY DEF get_line_content_crlf
  <1>10. (line < lf /\ stop) = bare
    <2> HIDE DEF stop, cr
    <2> QED  BY <1>2, <1>5, <1>7
  <1>11. get_line_content_crlf(buffers, lf, root, line)
           = [content |-> SubSeq(text, first + 1, end - drop), incomplete |-> bare]
    <2> HIDE DEF stop, bare, drop, range, first, end
    <2> QED  BY <1>8, <1>9, <1>10
  <1>12. get_line_content(buffers, lf, root, line)
           = SubSeq(text, first + 1, end - (IF feed THEN 1 ELSE 0))
    <2> DEFINE one   == IF feed THEN 1 ELSE 0
               plain == get_line_range(buffers, lf, root, line)
    <2>1. plain = RefRange(text, line, one)
      BY RangesAre DEF RangesOK
    <2>2. plain.first = first /\ plain.last = end - one
      <3> HIDE DEF plain, one
      <3> QED  BY <2>1 DEF RefRange
    <2>3. first \in Nat /\ end - one \in Nat /\ first <= end - one /\ end - one <= root.length
      <3>1. feed => first < end
        BY <1>2
      <3> HIDE DEF feed, first, end
      <3> QED  BY <1>1, <1>2, <1>5, <3>1
    <2> HIDE DEF plain, one, first, end
    <2>4. assemble_tree_range(buffers, root, plain)
            = SubSeq(TextOf(buffers, root), plain.first + 1, plain.last)
      BY <2>2, <2>3, AssembledIs
    <2>5. get_line_content(buffers, lf, root, line) = assemble_tree_range(buffers, root, plain)
      BY DEF get_line_content, plain
    <2> QED  BY <2>2, <2>4, <2>5 DEF one
  <1> QED  BY <1>11, <1>12 DEF ContentOK

-----------------------------------------------------------------------------
(* Every query by line gives what the plain text says, for every document  *)
(* the edits can lead to, every offset and every line: wherever the pieces *)
(* are cut, and wherever the descent stops at the seam of two pieces.      *)
THEOREM LineQueriesStayExact == Spec => []LineQueriesMatchText
  <1>1. IInv /\ TextsInv => LineQueriesMatchText
    <2> SUFFICES ASSUME IInv, TextsInv, built PROVE LineQueriesMatchText
      BY DEF LineQueriesMatchText, LineAtCountsLineFeeds, LineRangesMatchText,
             ContentMatchesText
    <2>1. /\ BuffersOK(m_buffers) /\ GoodRoot(m_buffers, m_root)
          /\ m_meta = MetaOf(m_root)
      BY DEF IInv
    <2>2. m_root.lf_count = Feeds(TextOf(m_buffers, m_root))
      <3>1. m_root \in RetainedRoots
        BY DEF RetainedRoots
      <3> QED  BY <3>1 DEF TextsInv, Read, Reads
    <2>3. m_meta.lf_count = Feeds(DocumentText) /\ length = m_root.length
      BY <2>1, <2>2 DEF MetaOf, DocumentText, length
    <2>4. \A offset \in 0..length :
             line_at_offset(m_buffers, m_root, offset) = {RefLineAt(DocumentText, offset)}
      BY <2>1, <2>3, LineAtIs DEF DocumentText
    <2>5. \A line \in Lines : RangesOK(m_buffers, m_root, line)
      BY <2>1, <2>3, RangesAre DEF DocumentText, Lines
    <2>6. \A line \in Lines : ContentOK(m_buffers, m_root, line)
      BY <2>1, <2>3, ContentIs DEF DocumentText, Lines
    <2>7. LineRangesMatchText
      BY <2>3, <2>5 DEF LineRangesMatchText, RangesOK, DocumentText
    <2>8. ContentMatchesText
      BY <2>3, <2>6 DEF ContentMatchesText, ContentOK, DocumentText
    <2> QED  BY <2>4, <2>7, <2>8 DEF LineQueriesMatchText, LineAtCountsLineFeeds
  <1> QED  BY <1>1, TextsHold, PTL

================================================================================
