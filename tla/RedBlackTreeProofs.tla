-------------------------- MODULE RedBlackTreeProofs --------------------------
(***************************************************************************)
(* For all pieces, places and bounds: the nodes are counted and given back, *)
(* the trees are balanced, they implement sequences of pieces, and descents *)
(* find what those sequences hold.                                         *)
(***************************************************************************)
EXTENDS RedBlackTree, FiniteSetTheorems, SequenceTheorems, WellFoundedInduction, TLAPS

(* Induction over the numbers. *)
LEMMA Induction ==
  ASSUME NEW S, 0 \in S, \A n \in Nat : n \in S => n + 1 \in S
  PROVE  Nat \subseteq S
  <1> DEFINE T == Nat \ S
  <1> SUFFICES ASSUME T # {} PROVE FALSE
    OBVIOUS
  <1>1. PICK x \in T : \A y \in T : ~ (<<y, x>> \in OpToRel(<, Nat))
    BY WFMin, NatLessThanWellFounded, T \subseteq Nat, Zenon
  <1>2. x \in Nat /\ x # 0
    OBVIOUS
  <1>3. x - 1 \in T
    BY <1>2
  <1>4. <<x - 1, x>> \in OpToRel(<, Nat)
    BY <1>2, SMT DEF OpToRel
  <1> QED BY <1>1, <1>3, <1>4

(* Induction over addresses, whose children are older. *)
LEMMA AddressInduction ==
  ASSUME NEW N \in Nat, NEW S,
         \A a \in 0 .. N : (\A b \in 0 .. N : b < a => b \in S) => a \in S
  PROVE  0 .. N \subseteq S
  <1> DEFINE T == {n \in Nat : \A b \in 0 .. N : b < n => b \in S}
  <1>1. 0 \in T
    OBVIOUS
  <1>2. \A n \in Nat : n \in T => n + 1 \in T
    <2> SUFFICES ASSUME NEW n \in Nat, n \in T, NEW b \in 0 .. N, b < n + 1
                 PROVE  b \in S
      OBVIOUS
    <2>1. \A x \in 0 .. N : x < b => x \in S
      OBVIOUS
    <2> QED BY <2>1
  <1> HIDE DEF T
  <1>3. Nat \subseteq T
    BY <1>1, <1>2, Induction, Zenon
  <1>4. N + 1 \in T
    BY <1>3
  <1> QED BY <1>4 DEF T

-----------------------------------------------------------------------------
(* The heap: nodes that are well made, and counted. *)

Colors == {"red", "black"}

NodeRecord ==
    [color : Colors, left : Nat, piece : Pieces, right : Nat, ref_count : Nat,
     subtree_length : Nat, subtree_lf_count : Nat]

Store == Seq(NodeRecord \cup {Free})

(* The children of a node are in use, older, and it has their metadata. *)
Linked(ns, a) ==
    /\ ns[a] \in NodeRecord
    /\ ns[a].left \in Live(ns) \cup {NULL} /\ ns[a].left < a
    /\ ns[a].right \in Live(ns) \cup {NULL} /\ ns[a].right < a
    /\ ns[a].subtree_length =
          node_length(ns, ns[a].left) + ns[a].piece.length + node_length(ns, ns[a].right)
    /\ ns[a].subtree_lf_count =
          node_lf_count(ns, ns[a].left) + ns[a].piece.newline_count
            + node_lf_count(ns, ns[a].right)

WellMade(ns) == ns \in Store /\ \A a \in Live(ns) : Linked(ns, a)

LeftParents(ns, a) == {m \in Live(ns) : ns[m].left = a}

RightParents(ns, a) == {m \in Live(ns) : ns[m].right = a}

(* own: how often each node is referred to from outside of the nodes. *)
Owned == [Nat -> Nat]

Plus(own, a) == [own EXCEPT ![a] = @ + 1]

Counted(ns, own) ==
    /\ own \in Owned
    /\ \A a \in Live(ns) :
          /\ ns[a].ref_count # 0
          /\ ns[a].ref_count =
                Cardinality(LeftParents(ns, a)) + Cardinality(RightParents(ns, a)) + own[a]
    /\ \A a \in Nat \ {0} : a \notin Live(ns) => own[a] = 0

Heap(ns, own) == WellMade(ns) /\ Counted(ns, own)

(* What an operation leaves of the nodes there were. *)
Kept(ns, after, a) ==
    /\ a \in Live(ns)
    /\ after[a].color = ns[a].color
    /\ after[a].left = ns[a].left
    /\ after[a].piece = ns[a].piece
    /\ after[a].right = ns[a].right
    /\ after[a].subtree_length = ns[a].subtree_length
    /\ after[a].subtree_lf_count = ns[a].subtree_lf_count

Same(ns, after) ==
    /\ Len(ns) <= Len(after)
    /\ \A a \in Live(after) : a <= Len(ns) => Kept(ns, after, a)

LEMMA LiveIs ==
  ASSUME NEW ns \in Store
  PROVE  /\ Len(ns) \in Nat /\ DOMAIN ns = 1 .. Len(ns)
         /\ \A a : a \in Live(ns) <=> a \in 1 .. Len(ns) /\ ns[a] # Free
         /\ \A a \in 1 .. Len(ns) : ns[a] \in NodeRecord \cup {Free}
         /\ \A a \in Live(ns) : a \in Nat /\ a # 0 /\ ns[a] \in NodeRecord
         /\ IsFiniteSet(Live(ns))
  <1>1. Len(ns) \in Nat /\ DOMAIN ns = 1 .. Len(ns)
    BY DEF Store
  <1>2. \A a : a \in Live(ns) <=> a \in 1 .. Len(ns) /\ ns[a] # Free
    BY <1>1, Zenon DEF Live
  <1>3. \A a \in 1 .. Len(ns) : ns[a] \in NodeRecord \cup {Free}
    BY ElementOfSeq, Zenon DEF Store
  <1>4. \A a \in Live(ns) : a \in Nat /\ a # 0 /\ ns[a] \in NodeRecord
    BY <1>1, <1>2, <1>3
  <1>5. IsFiniteSet(Live(ns))
    <2>1. IsFiniteSet(1 .. Len(ns))
      BY <1>1, FS_Interval
    <2> QED BY <2>1, <1>2, FS_Subset, Zenon
  <1> QED BY <1>1, <1>2, <1>3, <1>4, <1>5

(* A record of a node, and one whose references are counted anew. *)
LEMMA RecountedRecord ==
  ASSUME NEW x \in NodeRecord, NEW k \in Nat
  PROVE  LET y == [x EXCEPT !.ref_count = k]
         IN  /\ y \in NodeRecord /\ y # Free
             /\ y.ref_count = k /\ y.color = x.color /\ y.left = x.left
             /\ y.piece = x.piece /\ y.right = x.right
             /\ y.subtree_length = x.subtree_length
             /\ y.subtree_lf_count = x.subtree_lf_count
  <1> DEFINE y == [x EXCEPT !.ref_count = k]
  <1>1. y \in NodeRecord
    BY DEF NodeRecord
  <1>2. y.ref_count = k /\ y.color = x.color /\ y.left = x.left /\ y.piece = x.piece
        /\ y.right = x.right /\ y.subtree_length = x.subtree_length
        /\ y.subtree_lf_count = x.subtree_lf_count
    BY DEF NodeRecord
  <1>3. y # Free
    BY <1>1 DEF NodeRecord, Free
  <1> QED BY <1>1, <1>2, <1>3

LEMMA NodeIsNotFree == \A x \in NodeRecord : x # Free
  BY DEF NodeRecord, Free

(* Nodes that have the contents of others are linked like them. *)
LEMMA LinkedAlike ==
  ASSUME NEW ns, NEW after, WellMade(ns), after \in Store,
         NEW a, a \in Live(ns), after[a] \in NodeRecord, Kept(ns, after, a),
         \A b \in Live(ns) : b < a => b \in Live(after) /\ Kept(ns, after, b)
  PROVE  Linked(after, a)
  <1> DEFINE l == ns[a].left
             r == ns[a].right
  <1>1. ns \in Store /\ Linked(ns, a)
    BY DEF WellMade
  <1>2. /\ l \in Live(after) \cup {NULL} /\ l < a /\ r \in Live(after) \cup {NULL} /\ r < a
        /\ after[a].left = l /\ after[a].right = r /\ after[a].piece = ns[a].piece
    BY <1>1 DEF Linked, Kept
  <1>3. ASSUME NEW b, b \in {l, r}
        PROVE  /\ node_length(after, b) = node_length(ns, b)
               /\ node_lf_count(after, b) = node_lf_count(ns, b)
    <2>1. b = NULL \/ (b \in Live(ns) /\ b < a)
      BY <1>1, <1>3 DEF Linked
    <2>2. b = NULL \/ Kept(ns, after, b)
      BY <2>1
    <2> QED BY <2>2, Zenon DEF Kept, node_length, node_lf_count
  <1>4. /\ node_length(after, l) = node_length(ns, l) /\ node_lf_count(after, l) = node_lf_count(ns, l)
        /\ node_length(after, r) = node_length(ns, r) /\ node_lf_count(after, r) = node_lf_count(ns, r)
    BY <1>3
  <1>5. /\ after[a].subtree_length =
             node_length(after, l) + after[a].piece.length + node_length(after, r)
        /\ after[a].subtree_lf_count =
             node_lf_count(after, l) + after[a].piece.newline_count + node_lf_count(after, r)
    BY <1>1, <1>2, <1>4, Zenon DEF Linked, Kept
  <1> QED BY <1>2, <1>5, Zenon DEF Linked

(* What a new count of a node leaves as it is. *)
Recounted(ns, n, k, after) ==
    /\ WellMade(after) /\ Same(ns, after) /\ Len(after) = Len(ns)
    /\ Live(after) = Live(ns)
    /\ \A a \in Live(ns) : Kept(ns, after, a)
    /\ \A a : LeftParents(after, a) = LeftParents(ns, a)
    /\ \A a : RightParents(after, a) = RightParents(ns, a)
    /\ after[n].ref_count = k
    /\ \A a \in Live(ns) : a # n => after[a].ref_count = ns[a].ref_count

LEMMA Recounting ==
  ASSUME NEW ns, WellMade(ns), NEW n \in Live(ns), NEW k \in Nat,
         NEW y, y = [ns[n] EXCEPT !.ref_count = k],
         NEW after, after = [ns EXCEPT ![n] = y]
  PROVE  Recounted(ns, n, k, after)
  <1> DEFINE x == ns[n]
  <1>1. ns \in Store /\ x \in NodeRecord /\ n \in 1 .. Len(ns) /\ Len(ns) \in Nat
    BY LiveIs DEF WellMade
  <1>2. /\ y \in NodeRecord /\ y # Free
        /\ y.ref_count = k /\ y.color = x.color /\ y.left = x.left
        /\ y.piece = x.piece /\ y.right = x.right
        /\ y.subtree_length = x.subtree_length
        /\ y.subtree_lf_count = x.subtree_lf_count
    BY <1>1, RecountedRecord, Zenon
  <1>3. after \in Store /\ Len(after) = Len(ns)
    BY <1>1, <1>2, ExceptSeq DEF Store
  <1>4. after[n] = y /\ \A a \in 1 .. Len(ns) : a # n => after[a] = ns[a]
    BY <1>1 DEF Store
  <1> HIDE DEF x
  <1>5. Live(after) = Live(ns)
    <2>1. \A a : a \in Live(ns) <=> a \in 1 .. Len(ns) /\ ns[a] # Free
      BY <1>1, LiveIs, Zenon
    <2>2. \A a : a \in Live(after) <=> a \in 1 .. Len(ns) /\ after[a] # Free
      BY <1>3, LiveIs, Zenon
    <2>3. after[n] # Free /\ n \in Live(ns)
      BY <1>2, <1>4
    <2>4. \A a \in 1 .. Len(ns) : ns[a] # Free <=> after[a] # Free
      BY <1>4, <2>1, <2>3
    <2>5. \A a : a \in Live(after) <=> a \in Live(ns)
      BY <2>1, <2>2, <2>4, Zenon
    <2> QED BY <2>5, Zenon DEF Live
  <1>6. ASSUME NEW a \in Live(ns)
        PROVE  Kept(ns, after, a) /\ (a # n => after[a].ref_count = ns[a].ref_count)
               /\ after[a] \in NodeRecord
    <2>1. a \in 1 .. Len(ns) /\ ns[a] \in NodeRecord
      BY <1>1, LiveIs
    <2>2. CASE a = n
      BY <2>2, <1>2, <1>4 DEF Kept, x
    <2>3. CASE a # n
      BY <2>1, <2>3, <1>4 DEF Kept
    <2> QED BY <2>2, <2>3
  <1>7. WellMade(after)
    <2>1. ASSUME NEW a \in Live(after) PROVE Linked(after, a)
      BY <2>1, <1>3, <1>5, <1>6, LinkedAlike
    <2> QED BY <1>3, <2>1 DEF WellMade
  <1>8. Same(ns, after)
    <2>1. Len(ns) <= Len(after)
      BY <1>1, <1>3
    <2> QED BY <2>1, <1>5, <1>6, Zenon DEF Same
  <1>9. \A a : /\ LeftParents(after, a) = LeftParents(ns, a)
               /\ RightParents(after, a) = RightParents(ns, a)
    BY <1>5, <1>6 DEF LeftParents, RightParents, Kept
  <1>10. after[n].ref_count = k
    BY <1>2, <1>4
  <1> QED BY <1>3, <1>5, <1>6, <1>7, <1>8, <1>9, <1>10 DEF Recounted

(* A reference that is not the last one is dropped. *)
LEMMA DropOne ==
  ASSUME NEW ns, NEW own \in Owned, NEW n, n # NULL, n \in Nat,
         Heap(ns, Plus(own, n)), ns[n].ref_count # 1
  PROVE  LET after == [ns EXCEPT ![n].ref_count = @ - 1]
         IN  Heap(after, own) /\ Same(ns, after) /\ Live(after) = Live(ns)
  <1> DEFINE more == Plus(own, n)
  <1>1. more \in Owned /\ more[n] = own[n] + 1 /\ \A a \in Nat : a # n => more[a] = own[a]
    BY DEF Plus, Owned, NULL
  <1>2. own[n] \in Nat
    BY DEF Owned
  <1> HIDE DEF more
  <1>3. WellMade(ns) /\ Counted(ns, more)
    BY DEF Heap, more
  <1>4. n \in Live(ns)
    BY <1>1, <1>2, <1>3 DEF Counted, NULL
  <1> DEFINE k == ns[n].ref_count - 1
             y == [ns[n] EXCEPT !.ref_count = k]
             after == [ns EXCEPT ![n] = y]
  <1>5. ns[n] \in NodeRecord /\ ns[n].ref_count \in Nat
    BY <1>3, <1>4, LiveIs DEF WellMade, NodeRecord
  <1>6. ns[n].ref_count # 0
    BY <1>3, <1>4 DEF Counted
  <1>7. k \in Nat /\ k # 0
    BY <1>5, <1>6
  <1>9. after = [ns EXCEPT ![n].ref_count = @ - 1]
    OBVIOUS
  <1> HIDE DEF k
  <1>13. y = [ns[n] EXCEPT !.ref_count = k]
    OBVIOUS
  <1> HIDE DEF y
  <1>14. after = [ns EXCEPT ![n] = y]
    OBVIOUS
  <1> HIDE DEF after
  <1>8. /\ WellMade(after) /\ Same(ns, after)
        /\ Live(after) = Live(ns)
        /\ \A a : LeftParents(after, a) = LeftParents(ns, a)
        /\ \A a : RightParents(after, a) = RightParents(ns, a)
        /\ after[n].ref_count = k
        /\ \A a \in Live(ns) : a # n => after[a].ref_count = ns[a].ref_count
    <2>1. WellMade(ns) /\ n \in Live(ns) /\ k \in Nat
      BY <1>3, <1>4, <1>7
    <2>2. Recounted(ns, n, k, after)
      BY <2>1, <1>13, <1>14, Recounting, Zenon
    <2> QED BY <2>2, Zenon DEF Recounted
  <1>10. ASSUME NEW a \in Live(after)
         PROVE  /\ after[a].ref_count # 0
                /\ after[a].ref_count =
                     Cardinality(LeftParents(after, a)) + Cardinality(RightParents(after, a))
                       + own[a]
    <2> DEFINE L == Cardinality(LeftParents(ns, a))
               R == Cardinality(RightParents(ns, a))
    <2>1. a \in Live(ns) /\ a \in Nat
      BY <1>3, <1>8, LiveIs DEF WellMade
    <2>2. ns[a].ref_count # 0 /\ ns[a].ref_count = L + R + more[a]
      BY <2>1, <1>3 DEF Counted
    <2>3. LeftParents(after, a) = LeftParents(ns, a) /\ RightParents(after, a) = RightParents(ns, a)
      BY <1>8
    <2>4. L \in Nat /\ R \in Nat
      <3>1. IsFiniteSet(Live(ns))
        BY <1>3, LiveIs DEF WellMade
      <3>2. IsFiniteSet(LeftParents(ns, a)) /\ IsFiniteSet(RightParents(ns, a))
        BY <3>1, FS_Subset DEF LeftParents, RightParents
      <3> QED BY <3>2, FS_CardinalityType
    <2>5. own[a] \in Nat
      BY <2>1 DEF Owned
    <2> HIDE DEF L, R
    <2>6. CASE a = n
      <3>1. after[a].ref_count = k
        BY <2>6, <1>8
      <3>2. k = L + R + own[a]
        BY <2>6, <2>2, <2>4, <2>5, <1>1 DEF k
      <3> QED BY <3>1, <3>2, <2>3, <1>7 DEF L, R
    <2>7. CASE a # n
      <3>1. after[a].ref_count = ns[a].ref_count
        BY <2>1, <2>7, <1>8
      <3>2. more[a] = own[a]
        BY <2>1, <2>7, <1>1
      <3> QED BY <3>1, <3>2, <2>2, <2>3 DEF L, R
    <2> QED BY <2>6, <2>7
  <1>11. ASSUME NEW a \in Nat \ {0}, a \notin Live(after) PROVE own[a] = 0
    BY <1>1, <1>3, <1>4, <1>8, <1>11 DEF Counted
  <1>12. Counted(after, own)
    BY <1>10, <1>11 DEF Counted
  <1> QED BY <1>8, <1>9, <1>12 DEF Heap

LEMMA ParentsFinite ==
  ASSUME NEW ns \in Store, NEW a
  PROVE  /\ IsFiniteSet(LeftParents(ns, a)) /\ Cardinality(LeftParents(ns, a)) \in Nat
         /\ IsFiniteSet(RightParents(ns, a)) /\ Cardinality(RightParents(ns, a)) \in Nat
  <1>1. IsFiniteSet(Live(ns))
    BY LiveIs
  <1>2. IsFiniteSet(LeftParents(ns, a)) /\ IsFiniteSet(RightParents(ns, a))
    BY <1>1, FS_Subset DEF LeftParents, RightParents
  <1> QED BY <1>2, FS_CardinalityType

LEMMA PlusIs ==
  ASSUME NEW own \in Owned, NEW n \in Nat
  PROVE  /\ Plus(own, n) \in Owned /\ Plus(own, n)[n] = own[n] + 1 /\ own[n] \in Nat
         /\ \A a \in Nat : a # n => Plus(own, n)[a] = own[a]
         /\ \A a \in Nat : own[a] \in Nat
  BY DEF Plus, Owned

LEMMA PlusOwns ==
  ASSUME NEW own \in Owned, NEW n \in Nat
  PROVE  /\ Plus(own, n) \in Owned /\ Plus(own, n)[n] # 0
         /\ \A b \in Nat : own[b] # 0 => Plus(own, n)[b] # 0
  <1>1. /\ Plus(own, n) \in Owned /\ Plus(own, n)[n] = own[n] + 1 /\ own[n] \in Nat
        /\ \A a \in Nat : a # n => Plus(own, n)[a] = own[a]
    BY PlusIs
  <1>2. Plus(own, n)[n] # 0
    BY <1>1
  <1> QED BY <1>1, <1>2

(* What is owned is in use. *)
LEMMA OwnedIsLive ==
  ASSUME NEW own \in Owned, NEW ns, Heap(ns, own), NEW a \in Nat, a # NULL, own[a] # 0
  PROVE  a \in Live(ns)
  BY DEF Heap, Counted, NULL

LEMMA MetadataAlike ==
  ASSUME NEW ns, NEW after, NEW b, after[b] = ns[b]
  PROVE  /\ node_length(after, b) = node_length(ns, b)
         /\ node_lf_count(after, b) = node_lf_count(ns, b)
  BY DEF node_length, node_lf_count

Freed(ns, own, n, after, l, r) ==
    /\ Heap(after, Plus(Plus(own, r), l)) /\ Same(ns, after)
    /\ Live(after) = Live(ns) \ {n} /\ n \in Live(ns) /\ l \in Nat /\ r \in Nat

(* The last reference to a node is dropped; it had two itself. *)
LEMMA FreeNode ==
  ASSUME NEW ns, NEW own \in Owned, NEW n, n # NULL, n \in Nat,
         Heap(ns, Plus(own, n)), ns[n].ref_count = 1,
         NEW after, after = [ns EXCEPT ![n] = Free],
         NEW l, l = ns[n].left, NEW r, r = ns[n].right
  PROVE  Freed(ns, own, n, after, l, r)
  <1> DEFINE more == Plus(own, n)
  <1>1. more \in Owned /\ more[n] = own[n] + 1 /\ own[n] \in Nat
        /\ \A a \in Nat : a # n => more[a] = own[a]
    BY PlusIs
  <1> HIDE DEF more
  <1>2. WellMade(ns) /\ Counted(ns, more) /\ ns \in Store
    BY DEF Heap, more, WellMade
  <1>3. n \in Live(ns)
    BY <1>1, <1>2 DEF Counted, NULL
  <1>4. ns[n] \in NodeRecord /\ n \in 1 .. Len(ns) /\ Len(ns) \in Nat
    BY <1>2, <1>3, LiveIs
  <1>5. l \in Nat /\ r \in Nat
    BY <1>4 DEF NodeRecord
  <1>6. after \in Store /\ Len(after) = Len(ns)
    BY <1>2, <1>4, ExceptSeq DEF Store
  <1>7. after[n] = Free /\ \A a \in 1 .. Len(ns) : a # n => after[a] = ns[a]
    BY <1>2, <1>4 DEF Store
  <1>8. \A a : a \in Live(after) <=> a \in Live(ns) /\ a # n
    <2>1. \A a : a \in Live(ns) <=> a \in 1 .. Len(ns) /\ ns[a] # Free
      BY <1>2, LiveIs, Zenon
    <2>2. \A a : a \in Live(after) <=> a \in 1 .. Len(ns) /\ after[a] # Free
      BY <1>6, LiveIs, Zenon
    <2> QED BY <2>1, <2>2, <1>7
  <1>9. \A a \in Live(ns) : a \in Nat /\ a # 0 /\ a \in 1 .. Len(ns) /\ ns[a] \in NodeRecord
    BY <1>2, LiveIs
  <1> DEFINE L(a) == LeftParents(ns, a)
             R(a) == RightParents(ns, a)
  <1>10. \A a : /\ LeftParents(after, a) = L(a) \ {n}
                /\ RightParents(after, a) = R(a) \ {n}
    BY <1>7, <1>8, <1>9 DEF LeftParents, RightParents
  <1>11. \A a : (n \in L(a) <=> a = l) /\ (n \in R(a) <=> a = r)
    BY <1>3 DEF LeftParents, RightParents
  <1>12. \A a : /\ IsFiniteSet(L(a)) /\ Cardinality(L(a)) \in Nat
                /\ IsFiniteSet(R(a)) /\ Cardinality(R(a)) \in Nat
    BY <1>2, ParentsFinite
  <1>13. \A a : /\ Cardinality(L(a) \ {n}) = IF a = l THEN Cardinality(L(a)) - 1 ELSE Cardinality(L(a))
                /\ Cardinality(R(a) \ {n}) = IF a = r THEN Cardinality(R(a)) - 1 ELSE Cardinality(R(a))
    BY <1>11, <1>12, FS_RemoveElement
  <1> HIDE DEF L, R
  <1>14. Cardinality(L(n)) = 0 /\ Cardinality(R(n)) = 0 /\ own[n] = 0
    BY <1>1, <1>2, <1>3, <1>12 DEF Counted, L, R
  <1>15. \A m \in Live(ns) : ns[m].left # n /\ ns[m].right # n
    <2>1. L(n) = {} /\ R(n) = {}
      BY <1>12, <1>14, FS_EmptySet
    <2> QED BY <2>1 DEF L, R, LeftParents, RightParents
  <1>16. \A b \in Live(after) : Kept(ns, after, b) /\ after[b] = ns[b] /\ b \in Live(ns)
    BY <1>7, <1>8, <1>9 DEF Kept
  <1>17. WellMade(after)
    <2>1. ASSUME NEW a \in Live(after) PROVE Linked(after, a)
      <3>1. Linked(ns, a) /\ after[a] = ns[a] /\ a \in Live(ns)
        BY <1>2, <1>16 DEF WellMade
      <3>2. ns[a].left \in Live(after) \cup {NULL} /\ ns[a].right \in Live(after) \cup {NULL}
        BY <3>1, <1>8, <1>15 DEF Linked
      <3>3. \A b \in Live(after) \cup {NULL} :
               /\ node_length(after, b) = node_length(ns, b)
               /\ node_lf_count(after, b) = node_lf_count(ns, b)
        <4> SUFFICES ASSUME NEW b \in Live(after) \cup {NULL}
                     PROVE  /\ node_length(after, b) = node_length(ns, b)
                            /\ node_lf_count(after, b) = node_lf_count(ns, b)
          OBVIOUS
        <4>1. CASE b = NULL
          BY <4>1 DEF node_length, node_lf_count
        <4>2. CASE b # NULL
          <5>1. after[b] = ns[b]
            BY <4>2, <1>16
          <5> QED BY <5>1, MetadataAlike, Zenon
        <4> QED BY <4>1, <4>2
      <3> QED BY <3>1, <3>2, <3>3, Zenon DEF Linked
    <2> QED BY <1>6, <2>1 DEF WellMade
  <1>18. Same(ns, after)
    <2>1. Len(ns) <= Len(after)
      BY <1>4, <1>6
    <2> QED BY <2>1, <1>16, Zenon DEF Same
  <1> DEFINE less == Plus(Plus(own, r), l)
  <1>19. /\ less \in Owned
         /\ \A a \in Nat : less[a] = own[a] + (IF a = r THEN 1 ELSE 0) + (IF a = l THEN 1 ELSE 0)
         /\ \A a \in Nat : own[a] \in Nat
    BY <1>5 DEF Plus, Owned
  <1> HIDE DEF less
  <1>20. ASSUME NEW a \in Live(after)
         PROVE  /\ after[a].ref_count # 0
                /\ after[a].ref_count =
                     Cardinality(LeftParents(after, a)) + Cardinality(RightParents(after, a))
                       + less[a]
    <2>1. a \in Live(ns) /\ a \in Nat /\ a # n /\ after[a] = ns[a]
      BY <1>8, <1>9, <1>16
    <2>2. ns[a].ref_count # 0 /\ ns[a].ref_count = Cardinality(L(a)) + Cardinality(R(a)) + own[a]
      BY <2>1, <1>1, <1>2 DEF Counted, L, R
    <2> DEFINE cl == Cardinality(L(a))
               cr == Cardinality(R(a))
               dl == Cardinality(LeftParents(after, a))
               dr == Cardinality(RightParents(after, a))
    <2>3. dl = (IF a = l THEN cl - 1 ELSE cl) /\ dr = (IF a = r THEN cr - 1 ELSE cr)
      BY <1>10, <1>13
    <2>4. cl \in Nat /\ cr \in Nat
      BY <1>12
    <2>5. less[a] = own[a] + (IF a = r THEN 1 ELSE 0) + (IF a = l THEN 1 ELSE 0) /\ own[a] \in Nat
      BY <2>1, <1>19
    <2> HIDE DEF cl, cr, dl, dr
    <2>6. cl + cr + own[a] = dl + dr + less[a]
      BY <2>3, <2>4, <2>5
    <2> QED BY <2>1, <2>2, <2>6 DEF cl, cr, dl, dr
  <1>21. ASSUME NEW a \in Nat \ {0}, a \notin Live(after) PROVE less[a] = 0
    <2>1. own[a] = 0
      <3>1. CASE a = n
        BY <3>1, <1>14
      <3>2. CASE a # n
        BY <3>2, <1>1, <1>2, <1>8, <1>21 DEF Counted
      <3> QED BY <3>1, <3>2
    <2>2. a # l /\ a # r
      <3>1. l \in Live(ns) \cup {NULL} /\ r \in Live(ns) \cup {NULL} /\ l < n /\ r < n
        BY <1>2, <1>3 DEF WellMade, Linked
      <3>2. l # n /\ r # n
        BY <1>5, <3>1
      <3> QED BY <3>1, <3>2, <1>8, <1>21 DEF NULL
    <2> QED BY <2>1, <2>2, <1>19
  <1>22. Counted(after, less)
    BY <1>19, <1>20, <1>21 DEF Counted
  <1>23. Live(after) = Live(ns) \ {n}
    BY <1>8
  <1> QED BY <1>3, <1>5, <1>6, <1>17, <1>18, <1>22, <1>23 DEF Heap, less, Freed

(* A reference is taken. *)
LEMMA TakeRef ==
  ASSUME NEW ns \in Store, NEW n \in Live(ns) \cup {NULL},
         NEW after, after = take_node_ref(ns, n)
  PROVE  /\ after \in Store /\ Len(after) = Len(ns) /\ Live(after) = Live(ns)
         /\ \A a \in Live(ns) :
               /\ Kept(ns, after, a) /\ after[a] \in NodeRecord
               /\ after[a].ref_count = ns[a].ref_count + (IF a = n THEN 1 ELSE 0)
  <1>1. \A a \in Live(ns) : a \in Nat /\ a # NULL /\ a \in 1 .. Len(ns) /\ ns[a] \in NodeRecord
                            /\ ns[a].ref_count \in Nat
    BY LiveIs DEF NULL, NodeRecord
  <1>2. CASE n = NULL
    <2>1. after = ns
      BY <1>2 DEF take_node_ref
    <2> QED BY <1>1, <1>2, <2>1 DEF Kept
  <1>3. CASE n # NULL
    <2>1. n \in Live(ns)
      BY <1>3
    <2> DEFINE x == ns[n]
               k == ns[n].ref_count + 1
               y == [x EXCEPT !.ref_count = k]
    <2>2. after = [ns EXCEPT ![n] = y]
      BY <1>3 DEF take_node_ref
    <2>3. x \in NodeRecord /\ k \in Nat /\ Len(ns) \in Nat /\ n \in 1 .. Len(ns)
      BY <1>1, <2>1
    <2>4. /\ y \in NodeRecord /\ y # Free
          /\ y.ref_count = k /\ y.color = x.color /\ y.left = x.left
          /\ y.piece = x.piece /\ y.right = x.right
          /\ y.subtree_length = x.subtree_length
          /\ y.subtree_lf_count = x.subtree_lf_count
      BY <2>3, RecountedRecord
    <2> HIDE DEF y
    <2>5. after \in Store /\ Len(after) = Len(ns)
      BY <2>2, <2>3, <2>4, ExceptSeq DEF Store
    <2>6. after[n] = y /\ \A a \in 1 .. Len(ns) : a # n => after[a] = ns[a]
      BY <2>2, <2>3 DEF Store
    <2>7. Live(after) = Live(ns)
      <3>1. \A a : a \in Live(ns) <=> a \in 1 .. Len(ns) /\ ns[a] # Free
        BY LiveIs, Zenon
      <3>2. \A a : a \in Live(after) <=> a \in 1 .. Len(ns) /\ after[a] # Free
        BY <2>5, LiveIs, Zenon
      <3>3. \A a \in 1 .. Len(ns) : ns[a] # Free <=> after[a] # Free
        BY <2>1, <2>4, <2>6, <3>1
      <3>4. \A a : a \in Live(after) <=> a \in Live(ns)
        BY <3>1, <3>2, <3>3, Zenon
      <3> QED BY <3>4, Zenon DEF Live
    <2>8. ASSUME NEW a \in Live(ns)
          PROVE  /\ Kept(ns, after, a) /\ after[a] \in NodeRecord
                 /\ after[a].ref_count = ns[a].ref_count + (IF a = n THEN 1 ELSE 0)
      <3>1. CASE a = n
        BY <3>1, <2>4, <2>6, <2>1 DEF Kept
      <3>2. CASE a # n
        <4>1. after[a] = ns[a]
          BY <3>2, <2>6, <1>1
        <4> QED BY <4>1, <3>2, <1>1 DEF Kept
      <3> QED BY <3>1, <3>2
    <2> QED BY <2>5, <2>7, <2>8, Zenon
  <1> QED BY <1>2, <1>3

(* A new node at the end, with references to its children. *)
LEMMA MakeNode ==
  ASSUME NEW ns, NEW own \in Owned, Heap(ns, own), NEW color \in Colors, NEW piece \in Pieces,
         NEW left \in Live(ns) \cup {NULL}, NEW right \in Live(ns) \cup {NULL},
         NEW o, o = make_node(ns, color, left, piece, right),
         NEW after, after = o.nodes, NEW n, n = o.node
  PROVE  /\ Heap(after, Plus(own, n)) /\ Same(ns, after)
         /\ n = Len(ns) + 1 /\ n \in Nat /\ n # NULL /\ Len(after) = n
         /\ Live(after) = Live(ns) \cup {n} /\ n \notin Live(ns)
         /\ \A a \in Live(ns) : Kept(ns, after, a)
         /\ after[n].color = color /\ after[n].left = left
         /\ after[n].piece = piece /\ after[n].right = right
  <1>1. WellMade(ns) /\ Counted(ns, own) /\ ns \in Store /\ Len(ns) \in Nat
    BY LiveIs DEF Heap, WellMade
  <1>2. \A a \in Live(ns) : a \in Nat /\ a # 0 /\ a \in 1 .. Len(ns) /\ ns[a] \in NodeRecord
    BY <1>1, LiveIs
  <1> DEFINE len == node_length(ns, left) + piece.length + node_length(ns, right)
             lfs == node_lf_count(ns, left) + piece.newline_count + node_lf_count(ns, right)
             new == [color |-> color, left |-> left, piece |-> piece, right |-> right,
                     ref_count |-> 1, subtree_length |-> len, subtree_lf_count |-> lfs]
             big == Append(ns, new)
             mid == take_node_ref(big, left)
  <1>3. o = [nodes |-> take_node_ref(take_node_ref(Append(ns, new), new.left), new.right),
             node  |-> Len(ns) + 1]
    BY Zenon DEF make_node, Placed
  <1>4. after = take_node_ref(mid, right) /\ n = Len(ns) + 1
    BY <1>3
  <1>5. len \in Nat /\ lfs \in Nat
    <2>1. \A b \in Live(ns) \cup {NULL} : node_length(ns, b) \in Nat /\ node_lf_count(ns, b) \in Nat
      BY <1>2 DEF node_length, node_lf_count, NodeRecord
    <2>2. piece.length \in Nat /\ piece.newline_count \in Nat
      BY TreeAssumption
    <2> QED BY <2>1, <2>2
  <1> HIDE DEF len, lfs
  <1>6. left \in Nat /\ right \in Nat /\ left < n /\ right < n /\ n \in Nat /\ n # NULL
    BY <1>1, <1>2, <1>4 DEF NULL
  <1>7. /\ new \in NodeRecord /\ new # Free
        /\ new.color = color /\ new.left = left /\ new.piece = piece /\ new.right = right
        /\ new.ref_count = 1 /\ new.subtree_length = len /\ new.subtree_lf_count = lfs
    BY <1>5, <1>6, NodeIsNotFree DEF NodeRecord
  <1> HIDE DEF new
  <1>8. /\ big \in Store /\ Len(big) = n /\ big[n] = new
        /\ \A a \in 1 .. Len(ns) : big[a] = ns[a]
    BY <1>1, <1>4, <1>7, AppendProperties DEF Store
  <1> HIDE DEF big
  <1>9. Live(big) = Live(ns) \cup {n} /\ n \notin Live(ns)
    <2>1. \A a : a \in Live(ns) <=> a \in 1 .. Len(ns) /\ ns[a] # Free
      BY <1>1, LiveIs, Zenon
    <2>2. \A a : a \in Live(big) <=> a \in 1 .. n /\ big[a] # Free
      BY <1>8, LiveIs, Zenon
    <2>3. \A a : a \in 1 .. n <=> a \in 1 .. Len(ns) \/ a = n
      BY <1>1, <1>4
    <2>4. n \notin 1 .. Len(ns)
      BY <1>1, <1>4
    <2> QED BY <2>1, <2>2, <2>3, <2>4, <1>7, <1>8
  <1>10. /\ mid \in Store /\ Len(mid) = n /\ Live(mid) = Live(big)
         /\ \A a \in Live(big) :
               /\ Kept(big, mid, a) /\ mid[a] \in NodeRecord
               /\ mid[a].ref_count = big[a].ref_count + (IF a = left THEN 1 ELSE 0)
    <2>1. left \in Live(big) \cup {NULL}
      BY <1>9
    <2> QED BY <2>1, <1>8, TakeRef
  <1> HIDE DEF mid
  <1>11. /\ after \in Store /\ Len(after) = n /\ Live(after) = Live(big)
         /\ \A a \in Live(big) :
               /\ Kept(mid, after, a) /\ after[a] \in NodeRecord
               /\ after[a].ref_count = mid[a].ref_count + (IF a = right THEN 1 ELSE 0)
    <2>1. right \in Live(mid) \cup {NULL}
      BY <1>9, <1>10
    <2> QED BY <2>1, <1>4, <1>10, TakeRef
  <1>12. ASSUME NEW a \in Live(ns)
         PROVE  /\ Kept(ns, after, a) /\ after[a] \in NodeRecord
                /\ after[a].ref_count = ns[a].ref_count + (IF a = left THEN 1 ELSE 0)
                                          + (IF a = right THEN 1 ELSE 0)
    <2>1. a \in Live(big) /\ big[a] = ns[a]
      BY <1>2, <1>8, <1>9
    <2>2. Kept(big, mid, a) /\ Kept(mid, after, a)
      BY <2>1, <1>10, <1>11
    <2>3. Kept(ns, after, a)
      BY <2>1, <2>2 DEF Kept
    <2>4. after[a].ref_count = ns[a].ref_count + (IF a = left THEN 1 ELSE 0)
                                 + (IF a = right THEN 1 ELSE 0)
      BY <2>1, <1>10, <1>11
    <2> QED BY <2>1, <2>3, <2>4, <1>11
  <1>13. /\ after[n] \in NodeRecord /\ after[n].ref_count = 1
         /\ after[n].color = color /\ after[n].left = left
         /\ after[n].piece = piece /\ after[n].right = right
         /\ after[n].subtree_length = len /\ after[n].subtree_lf_count = lfs
    <2>1. n \in Live(big) /\ n # left /\ n # right
      BY <1>6, <1>9
    <2>2. after[n].ref_count = 1
      BY <2>1, <1>7, <1>8, <1>10, <1>11
    <2>3. Kept(big, mid, n) /\ Kept(mid, after, n) /\ after[n] \in NodeRecord /\ big[n] = new
      BY <2>1, <1>8, <1>10, <1>11
    <2> QED BY <2>2, <2>3, <1>7 DEF Kept
  <1> HIDE DEF new
  <1>14. Live(after) = Live(ns) \cup {n}
    BY <1>9, <1>11
  <1>15. Same(ns, after)
    <2>1. Len(ns) <= Len(after)
      BY <1>1, <1>4, <1>11
    <2>2. ~(n <= Len(ns))
      BY <1>1, <1>4
    <2> QED BY <2>1, <2>2, <1>12, <1>14 DEF Same
  <1>16. WellMade(after)
    <2>1. ASSUME NEW a \in Live(ns) PROVE Linked(after, a)
      BY <1>1, <1>11, <1>12, <1>14, LinkedAlike
    <2>2. Linked(after, n)
      <3>1. ASSUME NEW b \in Live(ns) \cup {NULL}
            PROVE  /\ node_length(after, b) = node_length(ns, b)
                   /\ node_lf_count(after, b) = node_lf_count(ns, b)
        <4>1. b = NULL \/ Kept(ns, after, b)
          BY <1>12
        <4> QED BY <4>1, Zenon DEF Kept, node_length, node_lf_count
      <3>2. /\ after[n].subtree_length =
                 node_length(after, left) + piece.length + node_length(after, right)
            /\ after[n].subtree_lf_count =
                 node_lf_count(after, left) + piece.newline_count + node_lf_count(after, right)
        BY <3>1, <1>13 DEF len, lfs
      <3> QED BY <3>2, <1>6, <1>13, <1>14 DEF Linked
    <2> QED BY <2>1, <2>2, <1>11, <1>14 DEF WellMade
  <1> DEFINE L(a) == LeftParents(ns, a)
             R(a) == RightParents(ns, a)
             more == Plus(own, n)
  <1>17. \A a : /\ LeftParents(after, a) = IF a = left THEN L(a) \cup {n} ELSE L(a)
                /\ RightParents(after, a) = IF a = right THEN R(a) \cup {n} ELSE R(a)
    BY <1>9, <1>12, <1>13, <1>14 DEF LeftParents, RightParents, Kept
  <1>18. \A a : /\ IsFiniteSet(L(a)) /\ Cardinality(L(a)) \in Nat
                /\ IsFiniteSet(R(a)) /\ Cardinality(R(a)) \in Nat
                /\ n \notin L(a) /\ n \notin R(a)
    BY <1>1, <1>9, ParentsFinite DEF LeftParents, RightParents
  <1>19. \A a : /\ Cardinality(LeftParents(after, a)) = Cardinality(L(a)) + (IF a = left THEN 1 ELSE 0)
                /\ Cardinality(RightParents(after, a)) = Cardinality(R(a)) + (IF a = right THEN 1 ELSE 0)
    <2> SUFFICES ASSUME NEW a
                 PROVE  /\ Cardinality(LeftParents(after, a)) = Cardinality(L(a)) + (IF a = left THEN 1 ELSE 0)
                        /\ Cardinality(RightParents(after, a)) = Cardinality(R(a)) + (IF a = right THEN 1 ELSE 0)
      OBVIOUS
    <2>1. /\ Cardinality(L(a) \cup {n}) = Cardinality(L(a)) + 1
          /\ Cardinality(R(a) \cup {n}) = Cardinality(R(a)) + 1
      BY <1>18, FS_AddElement
    <2> HIDE DEF L, R
    <2> QED BY <2>1, <1>17, <1>18
  <1>20. /\ more \in Owned /\ more[n] = own[n] + 1 /\ own[n] = 0
         /\ \A a \in Nat : a # n => more[a] = own[a]
    BY <1>1, <1>6, <1>9, PlusIs DEF Counted, NULL
  <1> HIDE DEF L, R, more
  <1>21. ASSUME NEW a \in Live(after)
         PROVE  /\ after[a].ref_count # 0
                /\ after[a].ref_count =
                     Cardinality(LeftParents(after, a)) + Cardinality(RightParents(after, a))
                       + more[a]
    <2>1. CASE a \in Live(ns)
      <3> DEFINE cl == Cardinality(L(a))
                 cr == Cardinality(R(a))
                 dl == IF a = left THEN 1 ELSE 0
                 dr == IF a = right THEN 1 ELSE 0
                 k == ns[a].ref_count
      <3>1. k # 0 /\ k = cl + cr + own[a] /\ k \in Nat /\ own[a] \in Nat
        BY <2>1, <1>1, <1>2 DEF Counted, L, R, NodeRecord, Owned
      <3>2. cl \in Nat /\ cr \in Nat /\ dl \in {0, 1} /\ dr \in {0, 1}
        BY <1>18
      <3>3. /\ Cardinality(LeftParents(after, a)) = cl + dl
            /\ Cardinality(RightParents(after, a)) = cr + dr
        BY <1>19
      <3>4. after[a].ref_count = k + dl + dr
        BY <2>1, <1>12
      <3>5. more[a] = own[a]
        BY <2>1, <1>2, <1>9, <1>20
      <3> HIDE DEF cl, cr, dl, dr, k
      <3>6. k + dl + dr # 0 /\ k + dl + dr = cl + dl + (cr + dr) + own[a]
        BY <3>1, <3>2
      <3> QED BY <3>3, <3>4, <3>5, <3>6
    <2>2. CASE a = n
      <3>1. L(n) = {} /\ R(n) = {}
        <4>1. \A m \in Live(ns) : ns[m].left < m /\ ns[m].right < m
          BY <1>1 DEF WellMade, Linked
        <4>2. \A m \in Live(ns) : ns[m].left \in Nat /\ ns[m].right \in Nat /\ m < n
          BY <1>1, <1>2, <1>4 DEF NodeRecord
        <4>3. \A m \in Live(ns) : ns[m].left # n /\ ns[m].right # n
          BY <4>1, <4>2, <1>2, <1>6
        <4> QED BY <4>3 DEF L, R, LeftParents, RightParents
      <3>2. Cardinality(L(n)) = 0 /\ Cardinality(R(n)) = 0
        BY <3>1, FS_EmptySet
      <3>3. n # left /\ n # right
        BY <1>6
      <3> QED BY <2>2, <3>2, <3>3, <1>13, <1>19, <1>20
    <2> QED BY <2>1, <2>2, <1>14
  <1>22. ASSUME NEW a \in Nat \ {0}, a \notin Live(after) PROVE more[a] = 0
    BY <1>1, <1>14, <1>20, <1>22 DEF Counted
  <1>23. Heap(after, more)
    BY <1>16, <1>20, <1>21, <1>22 DEF Heap, Counted
  <1> QED BY <1>4, <1>6, <1>9, <1>11, <1>12, <1>13, <1>14, <1>15, <1>23 DEF more

LEMMA SameIsTransitive ==
  ASSUME NEW a \in Store, NEW b \in Store, NEW c \in Store, Same(a, b), Same(b, c)
  PROVE  Same(a, c)
  <1>1. Len(a) \in Nat /\ Len(b) \in Nat /\ Len(c) \in Nat
    BY LiveIs
  <1>2. Len(a) <= Len(c)
    BY <1>1 DEF Same
  <1>3. ASSUME NEW n \in Live(c), n <= Len(a) PROVE Kept(a, c, n)
    <2>1. n \in Nat
      BY LiveIs
    <2>2. Kept(b, c, n)
      BY <1>1, <1>3, <2>1 DEF Same
    <2>3. n \in Live(b)
      BY <2>2 DEF Kept
    <2>4. Kept(a, b, n)
      BY <1>3, <2>3 DEF Same
    <2> QED BY <2>2, <2>4 DEF Kept
  <1> QED BY <1>2, <1>3 DEF Same

LEMMA SameIsReflexive ==
  ASSUME NEW ns \in Store
  PROVE  Same(ns, ns)
  BY LiveIs DEF Same, Kept

(* What is said of the null address means nothing. *)
LEMMA NullOwned ==
  ASSUME NEW ns, NEW own \in Owned
  PROVE  Heap(ns, Plus(own, NULL)) <=> Heap(ns, own)
  <1>1. NULL \in Nat /\ \A a \in Live(ns) : ns \in Store => a \in Nat /\ a # NULL
    BY LiveIs DEF NULL
  <1>2. Plus(own, NULL) \in Owned /\ \A a \in Nat : a # NULL => Plus(own, NULL)[a] = own[a]
    BY <1>1, PlusIs
  <1> QED BY <1>1, <1>2 DEF Heap, WellMade, Counted, NULL

-----------------------------------------------------------------------------
(* Dropping references, one after the other: os[i] is what is owned while   *)
(* the first i references are yet to be dropped.                           *)
Owing(own, calls, os) ==
    /\ os \in [Nat -> Owned] /\ os[0] = own
    /\ calls.dropping \in Seq(Nat)
    /\ \A i \in 1 .. Len(calls.dropping) : os[i] = Plus(os[i - 1], calls.dropping[i])
    /\ Heap(calls.nodes, os[Len(calls.dropping)])

Weight(calls) == 2 * Cardinality(Live(calls.nodes)) + Len(calls.dropping)

LEMMA DropNextOwing ==
  ASSUME NEW own \in Owned, NEW calls, NEW os, Owing(own, calls, os), calls.dropping # << >>
  PROVE  /\ \E now : Owing(own, DropNext(calls), now)
         /\ Same(calls.nodes, DropNext(calls).nodes)
         /\ Weight(DropNext(calls)) = Weight(calls) - 1 /\ Weight(calls) \in Nat
  <1> DEFINE ns == calls.nodes
             d == calls.dropping
             m == Len(d)
             n == Last(d)
             rest == Front(d)
             more == os[m - 1]
             next == DropNext(calls)
  <1>1. d \in Seq(Nat) /\ m \in Nat /\ m # 0 /\ m - 1 \in Nat
    BY EmptySeq DEF Owing
  <1>2. n = d[m] /\ n \in Nat
    BY <1>1, ElementOfSeq DEF Last
  <1>3. /\ rest \in Seq(Nat) /\ Len(rest) = m - 1
        /\ \A i \in 1 .. m - 1 : rest[i] = d[i]
    <2>1. rest = SubSeq(d, 1, m - 1)
      BY Zenon DEF Front
    <2>2. \A i \in 1 .. m - 1 : d[i] \in Nat
      BY <1>1, ElementOfSeq
    <2> HIDE DEF d, m, rest
    <2>3. /\ SubSeq(d, 1, m - 1) \in Seq(Nat)
          /\ Len(SubSeq(d, 1, m - 1)) = IF 1 <= m - 1 THEN m - 1 - 1 + 1 ELSE 0
          /\ \A i \in 1 .. m - 1 - 1 + 1 : SubSeq(d, 1, m - 1)[i] = d[1 + i - 1]
      BY <1>1, <2>2, SubSeqProperties
    <2>4. (IF 1 <= m - 1 THEN m - 1 - 1 + 1 ELSE 0) = m - 1 /\ m - 1 - 1 + 1 = m - 1
      BY <1>1
    <2>5. \A i \in 1 .. m - 1 : 1 + i - 1 = i
      BY <1>1
    <2> QED BY <2>1, <2>3, <2>4, <2>5
  <1>4. more \in Owned /\ Heap(ns, Plus(more, n))
    BY <1>1, <1>2 DEF Owing
  <1>5. ns \in Store /\ IsFiniteSet(Live(ns)) /\ Cardinality(Live(ns)) \in Nat
    BY <1>4, LiveIs, FS_CardinalityType DEF Heap, WellMade
  <1>6. Weight(calls) = 2 * Cardinality(Live(ns)) + m /\ Weight(calls) \in Nat
    BY <1>1, <1>5 DEF Weight
  <1>7. /\ os \in [Nat -> Owned] /\ os[0] = own
        /\ \A i \in 1 .. m : os[i] = Plus(os[i - 1], d[i])
    BY DEF Owing
  <1>8. next = IF n = NULL THEN [nodes |-> ns, dropping |-> rest]
               ELSE IF ns[n].ref_count # 1
               THEN [nodes |-> [ns EXCEPT ![n].ref_count = @ - 1], dropping |-> rest]
               ELSE [nodes |-> [ns EXCEPT ![n] = Free],
                     dropping |-> rest \o <<ns[n].right, ns[n].left>>]
    BY Zenon DEF DropNext
  <1> HIDE DEF d, m, n, rest, more, ns, next
  <1>9. ASSUME next.dropping = rest, Heap(next.nodes, more)
        PROVE  Owing(own, next, os)
    <2>1. \A i \in 1 .. m - 1 : i \in 1 .. m
      BY <1>1
    <2>2. \A i \in 1 .. Len(rest) : os[i] = Plus(os[i - 1], rest[i])
      BY <2>1, <1>3, <1>7
    <2> QED BY <2>2, <1>3, <1>7, <1>9 DEF Owing, more
  <1>10. CASE n = NULL
    <2>1. next.nodes = ns /\ next.dropping = rest
      BY <1>8, <1>10
    <2>2. Heap(ns, more)
      BY <1>4, <1>10, NullOwned
    <2>3. Same(ns, next.nodes)
      BY <2>1, <1>5, SameIsReflexive
    <2>4. Weight(next) = Weight(calls) - 1
      BY <2>1, <1>1, <1>3, <1>5, <1>6 DEF Weight
    <2> QED BY <2>1, <2>2, <2>3, <2>4, <1>6, <1>9 DEF next, ns
  <1>11. CASE n # NULL /\ ns[n].ref_count # 1
    <2> DEFINE after == [ns EXCEPT ![n].ref_count = @ - 1]
    <2>1. next.nodes = after /\ next.dropping = rest
      BY <1>8, <1>11
    <2>2. Heap(after, more) /\ Same(ns, after) /\ Live(after) = Live(ns)
      BY <1>2, <1>4, <1>11, DropOne
    <2> HIDE DEF after
    <2>3. Weight(next) = Weight(calls) - 1
      BY <2>1, <2>2, <1>1, <1>3, <1>5, <1>6 DEF Weight
    <2> QED BY <2>1, <2>2, <2>3, <1>6, <1>9 DEF next, ns
  <1>12. CASE n # NULL /\ ns[n].ref_count = 1
    <2> DEFINE after == [ns EXCEPT ![n] = Free]
               l == ns[n].left
               r == ns[n].right
    <2>1. next.nodes = after /\ next.dropping = rest \o <<r, l>>
      BY <1>8, <1>12
    <2>2. /\ Heap(after, Plus(Plus(more, r), l)) /\ Same(ns, after)
          /\ Live(after) = Live(ns) \ {n} /\ n \in Live(ns) /\ l \in Nat /\ r \in Nat
      <3>1. more \in Owned /\ n # NULL /\ n \in Nat /\ Heap(ns, Plus(more, n)) /\ ns[n].ref_count = 1
        BY <1>2, <1>4, <1>12
      <3>2. after = [ns EXCEPT ![n] = Free] /\ l = ns[n].left /\ r = ns[n].right
        OBVIOUS
      <3> HIDE DEF after, l, r
      <3>3. Freed(ns, more, n, after, l, r)
        BY <3>1, <3>2, FreeNode, Zenon
      <3> QED BY <3>3 DEF Freed
    <2> HIDE DEF after, l, r
    <2> DEFINE pair == <<r, l>>
               todo == rest \o pair
               o1 == Plus(more, r)
               o2 == Plus(o1, l)
               now == [i \in Nat |-> IF i = m THEN o1 ELSE IF i = m + 1 THEN o2 ELSE os[i]]
    <2>3. pair \in Seq(Nat) /\ Len(pair) = 2 /\ pair[1] = r /\ pair[2] = l
      BY <2>2
    <2> HIDE DEF pair
    <2>4. /\ todo \in Seq(Nat) /\ Len(todo) = m + 1
          /\ \A i \in 1 .. m - 1 : todo[i] = d[i]
          /\ todo[m] = r /\ todo[m + 1] = l
      <3>1. /\ todo \in Seq(Nat) /\ Len(todo) = Len(rest) + Len(pair)
            /\ \A i \in 1 .. Len(rest) + Len(pair) :
                  todo[i] = IF i <= Len(rest) THEN rest[i] ELSE pair[i - Len(rest)]
        BY <1>3, <2>3, ConcatProperties, Zenon
      <3>2. Len(rest) = m - 1 /\ Len(pair) = 2
        BY <1>3, <2>3
      <3> HIDE DEF todo
      <3>3. /\ Len(todo) = m + 1 /\ m - 1 + 2 = m + 1
            /\ \A i \in 1 .. m - 1 : i \in 1 .. m - 1 + 2 /\ i <= m - 1
            /\ m \in 1 .. m - 1 + 2 /\ ~(m <= m - 1) /\ m - (m - 1) = 1
            /\ m + 1 \in 1 .. m - 1 + 2 /\ ~(m + 1 <= m - 1) /\ m + 1 - (m - 1) = 2
        BY <3>1, <3>2, <1>1
      <3>4. \A i \in 1 .. m - 1 : todo[i] = rest[i]
        BY <3>1, <3>2, <3>3
      <3>5. todo[m] = pair[1] /\ todo[m + 1] = pair[2]
        <4> DEFINE p == m + 1
        <4>1. /\ m \in 1 .. Len(rest) + Len(pair) /\ ~(m <= Len(rest)) /\ m - Len(rest) = 1
              /\ p \in 1 .. Len(rest) + Len(pair) /\ ~(p <= Len(rest)) /\ p - Len(rest) = 2
          BY <3>2, <3>3
        <4> HIDE DEF p
        <4>2. todo[m] = pair[m - Len(rest)] /\ todo[p] = pair[p - Len(rest)]
          BY <3>1, <4>1, Zenon
        <4> QED BY <4>1, <4>2 DEF p
      <3> QED BY <3>1, <3>3, <3>4, <3>5, <1>3, <2>3
    <2>5. o1 \in Owned /\ o2 \in Owned
      BY <1>4, <2>2, PlusIs
    <2> HIDE DEF o1, o2, todo
    <2>6. now \in [Nat -> Owned] /\ now[0] = own
      BY <1>1, <1>7, <2>5
    <2>7. \A i \in 1 .. m + 1 : now[i] = Plus(now[i - 1], todo[i])
      <3> SUFFICES ASSUME NEW i \in 1 .. m + 1 PROVE now[i] = Plus(now[i - 1], todo[i])
        OBVIOUS
      <3>1. CASE i = m
        <4>1. now[m] = o1 /\ now[m - 1] = more
          BY <1>1 DEF more
        <4> QED BY <3>1, <4>1, <2>4 DEF o1
      <3>2. CASE i = m + 1
        <4>1. now[m + 1] = o2 /\ now[m] = o1 /\ m + 1 - 1 = m
          BY <1>1
        <4> QED BY <3>2, <4>1, <2>4, <1>1 DEF o2
      <3>3. CASE i # m /\ i # m + 1
        <4>1. i \in 1 .. m - 1 /\ i \in 1 .. m /\ i \in Nat /\ i - 1 \in Nat /\ i - 1 # m /\ i - 1 # m + 1
          BY <3>3, <1>1
        <4>2. now[i] = os[i] /\ now[i - 1] = os[i - 1]
          BY <3>3, <4>1
        <4> QED BY <4>1, <4>2, <2>4, <1>7
      <3> QED BY <3>1, <3>2, <3>3
    <2>8. now[m + 1] = o2
      BY <1>1
    <2> HIDE DEF now
    <2>9. Owing(own, next, now)
      BY <2>1, <2>2, <2>4, <2>6, <2>7, <2>8 DEF Owing, todo, pair, o1, o2
    <2>10. Cardinality(Live(after)) = Cardinality(Live(ns)) - 1
      BY <2>2, <1>5, FS_RemoveElement
    <2>11. Weight(next) = 2 * Cardinality(Live(after)) + (m + 1)
      BY <2>1, <2>4 DEF Weight, todo, pair
    <2>12. Weight(next) = Weight(calls) - 1
      <3> DEFINE c == Cardinality(Live(ns))
                 w == Weight(calls)
                 v == Weight(next)
      <3>1. c \in Nat /\ w = 2 * c + m /\ v = 2 * (c - 1) + (m + 1)
        BY <2>10, <2>11, <1>5, <1>6
      <3> HIDE DEF c, w, v
      <3>2. v = w - 1
        BY <3>1, <1>1
      <3> QED BY <3>2 DEF w, v
    <2> QED BY <2>1, <2>2, <2>9, <2>12, <1>6 DEF next, ns
  <1> QED BY <1>10, <1>11, <1>12

(* The first n of the calls that a drop leads to. *)
DropsUp(f, first, n) ==
    f = [j \in 0 .. n |-> IF j = 0 THEN first ELSE DropNext(f[j - 1])]

LEMMA DropsExist ==
  ASSUME NEW first, NEW n \in Nat
  PROVE  \E f : DropsUp(f, first, n)
  <1> DEFINE S == {m \in Nat : \E f : DropsUp(f, first, m)}
             next(j, x) == DropNext(x)
  <1>1. 0 \in S
    <2> DEFINE g == [j \in 0 .. 0 |-> first]
    <2>1. g = [j \in 0 .. 0 |-> IF j = 0 THEN first ELSE next(j, g[j - 1])]
      OBVIOUS
    <2> HIDE DEF g
    <2>2. DropsUp(g, first, 0)
      BY <2>1 DEF DropsUp
    <2> QED BY <2>2
  <1>2. ASSUME NEW m \in Nat, m \in S PROVE m + 1 \in S
    <2>1. PICK f : DropsUp(f, first, m)
      BY <1>2
    <2> DEFINE y == next(m + 1, f[m])
               g == [j \in 0 .. m + 1 |-> IF j = m + 1 THEN y ELSE f[j]]
    <2>2. ASSUME NEW j \in 0 .. m + 1
          PROVE  g[j] = IF j = 0 THEN first ELSE next(j, g[j - 1])
      <3>1. CASE j = m + 1
        <4>1. j # 0 /\ j - 1 = m /\ m \in 0 .. m + 1 /\ m # m + 1
          BY <3>1
        <4> HIDE DEF y
        <4>2. g[m] = f[m] /\ g[j] = y
          BY <3>1, <4>1
        <4>3. g[j - 1] = f[m]
          BY <4>1, <4>2
        <4> HIDE DEF g, next
        <4> QED BY <3>1, <4>1, <4>2, <4>3 DEF y
      <3>2. CASE j # m + 1
        <4> HIDE DEF y
        <4>1. j \in 0 .. m /\ (j # 0 => j - 1 \in 0 .. m + 1 /\ j - 1 # m + 1)
          BY <3>2
        <4>2. g[j] = f[j] /\ (j # 0 => g[j - 1] = f[j - 1])
          BY <3>2, <4>1
        <4>3. f[j] = IF j = 0 THEN first ELSE next(j, f[j - 1])
          BY <2>1, <4>1 DEF DropsUp
        <4> HIDE DEF g, next
        <4> QED BY <4>2, <4>3
      <3> QED BY <3>1, <3>2
    <2> HIDE DEF next, y
    <2>3. g = [j \in 0 .. m + 1 |-> g[j]]
      OBVIOUS
    <2> HIDE DEF g
    <2>4. g = [j \in 0 .. m + 1 |-> IF j = 0 THEN first ELSE next(j, g[j - 1])]
      BY <2>2, <2>3
    <2>5. DropsUp(g, first, m + 1)
      BY <2>4 DEF DropsUp, next
    <2> QED BY <2>5
  <1> HIDE DEF S
  <1>3. n \in S
    BY <1>1, <1>2, Induction
  <1> QED BY <1>3 DEF S

(* The weight of the calls goes down by one, so they end. *)
LEMMA DropRef ==
  ASSUME NEW ns, NEW own \in Owned, NEW n \in Nat, Heap(ns, Plus(own, n))
  PROVE  Heap(dec_node_ref(ns, n), own) /\ Same(ns, dec_node_ref(ns, n))
  <1> DEFINE enough == 2 * Len(ns) + 1
             first == [nodes |-> ns, dropping |-> <<n>>]
             f == CHOOSE f : DropsUp(f, first, enough)
             last == CHOOSE k \in 0 .. enough : f[k].dropping = << >>
             w == Weight(first)
  <1>1. dec_node_ref(ns, n) = f[last].nodes
    BY Zenon DEF dec_node_ref, DropsUp
  <1>2. ns \in Store /\ Len(ns) \in Nat /\ enough \in Nat
    <2>1. ns \in Store
      BY DEF Heap, WellMade
    <2> QED BY <2>1, LiveIs
  <1> HIDE DEF first, enough, w
  <1>3. DropsUp(f, first, enough)
    BY <1>2, DropsExist, Zenon
  <1> HIDE DEF f
  <1>4. f[0] = first /\ \A k \in Nat : k + 1 \in 0 .. enough => f[k + 1] = DropNext(f[k])
    BY <1>2, <1>3 DEF DropsUp
  <1>5. (\E os : Owing(own, first, os)) /\ w \in Nat /\ w <= enough /\ first.nodes = ns
    <2> DEFINE os == [i \in Nat |-> IF i = 0 THEN own ELSE Plus(own, n)]
    <2>1. first.nodes = ns /\ first.dropping = <<n>>
      BY DEF first
    <2>2. first.dropping \in Seq(Nat) /\ Len(first.dropping) = 1 /\ first.dropping[1] = n
      BY <2>1
    <2>3. Plus(own, n) \in Owned
      BY PlusIs
    <2>4. os \in [Nat -> Owned] /\ os[0] = own /\ os[1] = Plus(own, n)
      BY <2>3
    <2> HIDE DEF os
    <2>5. \A i \in 1 .. Len(first.dropping) : os[i] = Plus(os[i - 1], first.dropping[i])
      BY <2>2, <2>4
    <2>6. Owing(own, first, os)
      BY <2>1, <2>2, <2>4, <2>5 DEF Owing
    <2>7. w = 2 * Cardinality(Live(ns)) + 1
      BY <2>1, <2>2 DEF Weight, w
    <2>8. Cardinality(Live(ns)) \in Nat /\ Cardinality(Live(ns)) <= Len(ns)
      <3>1. IsFiniteSet(1 .. Len(ns)) /\ Cardinality(1 .. Len(ns)) = Len(ns)
        <4>3. 1 \in Int /\ Len(ns) \in Int
          BY <1>2
        <4>1. /\ IsFiniteSet(1 .. Len(ns))
              /\ Cardinality(1 .. Len(ns)) = IF 1 > Len(ns) THEN 0 ELSE Len(ns) - 1 + 1
          BY <4>3, FS_Interval, Zenon
        <4> DEFINE c == Cardinality(1 .. Len(ns))
        <4> HIDE DEF c
        <4>2. c = Len(ns)
          BY <4>1, <1>2 DEF c
        <4> QED BY <4>1, <4>2 DEF c
      <3>2. Live(ns) \subseteq 1 .. Len(ns)
        BY <1>2, LiveIs, Zenon
      <3> QED BY <3>1, <3>2, FS_Subset, FS_CardinalityType
    <2> QED BY <2>1, <2>6, <2>7, <2>8, <1>2 DEF enough
  <1> DEFINE S == {k \in Nat : k \in 0 .. enough =>
                       /\ \E os : Owing(own, f[k], os)
                       /\ Same(ns, f[k].nodes)
                       /\ (\A j \in 0 .. k : f[j].dropping # << >>) => Weight(f[k]) = w - k}
  <1>6. 0 \in S
    BY <1>2, <1>4, <1>5, SameIsReflexive DEF w
  <1>7. ASSUME NEW k \in Nat, k \in S PROVE k + 1 \in S
    <2> SUFFICES ASSUME k + 1 \in 0 .. enough
                 PROVE  /\ \E os : Owing(own, f[k + 1], os)
                        /\ Same(ns, f[k + 1].nodes)
                        /\ (\A j \in 0 .. k + 1 : f[j].dropping # << >>) => Weight(f[k + 1]) = w - (k + 1)
      OBVIOUS
    <2> DEFINE c == f[k]
    <2>1. k \in 0 .. enough /\ \A j \in 0 .. k : j \in 0 .. k + 1
      BY <1>2
    <2>2. /\ \E os : Owing(own, c, os)
          /\ Same(ns, c.nodes)
          /\ (\A j \in 0 .. k : f[j].dropping # << >>) => Weight(c) = w - k
      BY <1>7, <2>1
    <2>3. f[k + 1] = DropNext(c) /\ k \in 0 .. k + 1
      BY <1>4
    <2> HIDE DEF S
    <2>4. CASE c.dropping = << >>
      <3>1. DropNext(c) = c
        BY <2>4 DEF DropNext
      <3> QED BY <3>1, <2>2, <2>3, <2>4
    <2>5. CASE c.dropping # << >>
      <3>1. PICK os : Owing(own, c, os)
        BY <2>2
      <3> HIDE DEF c
      <3>2. /\ \E now : Owing(own, DropNext(c), now)
            /\ Same(c.nodes, DropNext(c).nodes)
            /\ Weight(DropNext(c)) = Weight(c) - 1 /\ Weight(c) \in Nat
        BY <3>1, <2>5, DropNextOwing, Zenon
      <3>3. PICK now : Owing(own, DropNext(c), now)
        BY <3>2
      <3>4. c.nodes \in Store /\ DropNext(c).nodes \in Store
        BY <3>1, <3>3 DEF Owing, Heap, WellMade
      <3>5. Same(ns, DropNext(c).nodes)
        BY <3>2, <3>4, <2>2, <1>2, SameIsTransitive, Zenon
      <3>6. ASSUME \A j \in 0 .. k + 1 : f[j].dropping # << >>
            PROVE  Weight(f[k + 1]) = w - (k + 1)
        <4>1. Weight(c) = w - k
          BY <3>6, <2>1, <2>2
        <4> QED BY <4>1, <3>2, <2>3, <1>5
      <3> QED BY <3>2, <3>5, <3>6, <2>3
    <2> QED BY <2>4, <2>5
  <1>8. \A k \in 0 .. enough : k \in S
    <2>1. Nat \subseteq S
      <3> HIDE DEF S
      <3> QED BY <1>6, <1>7, Induction
    <2> HIDE DEF S
    <2> QED BY <2>1, <1>2
  <1>9. last \in 0 .. enough /\ f[last].dropping = << >>
    <2> SUFFICES ASSUME \A k \in 0 .. enough : f[k].dropping # << >> PROVE FALSE
      BY Zenon
    <2>1. enough \in 0 .. enough
      BY <1>2
    <2>2. Weight(f[enough]) = w - enough /\ (\E os : Owing(own, f[enough], os))
      BY <2>1, <1>2, <1>8
    <2>3. PICK os : Owing(own, f[enough], os)
      BY <2>2
    <2>4. f[enough].dropping # << >>
      BY <2>1
    <2>5. Len(f[enough].dropping) \in Nat \ {0}
      BY <2>3, <2>4, EmptySeq DEF Owing
    <2>6. Cardinality(Live(f[enough].nodes)) \in Nat
      BY <2>3, LiveIs, FS_CardinalityType DEF Owing, Heap, WellMade
    <2>7. Weight(f[enough]) = 2 * Cardinality(Live(f[enough].nodes)) + Len(f[enough].dropping)
      BY DEF Weight
    <2> QED BY <2>2, <2>5, <2>6, <2>7, <1>2, <1>5
  <1> HIDE DEF last
  <1>10. /\ \E os : Owing(own, f[last], os)
         /\ Same(ns, f[last].nodes)
    BY <1>2, <1>8, <1>9
  <1>11. PICK os : Owing(own, f[last], os)
    BY <1>10
  <1>12. Heap(f[last].nodes, own)
    <2>1. Len(f[last].dropping) = 0
      BY <1>9
    <2> QED BY <2>1, <1>11 DEF Owing
  <1> QED BY <1>1, <1>10, <1>12

-----------------------------------------------------------------------------
(* Trees as values: what is below a node, however it is stored, with its    *)
(* black height, whether it is a left-leaning red-black tree, and the value *)
(* it stands for.                                                         *)

JoinedValue(left, piece, right) ==
    [pieces   |-> Joined(left.pieces, left.length, piece, right.pieces),
     length   |-> left.length + piece.length + right.length,
     lf_count |-> left.lf_count + piece.newline_count + right.lf_count]

Nothing == [pieces |-> << >>, length |-> 0, lf_count |-> 0]

Leaf == [kind |-> "leaf", color |-> "black", height |-> 0, shape |-> "leaning",
         value |-> Nothing]

Leaning(left, color, right) ==
    /\ left.shape = "leaning" /\ right.shape = "leaning"
    /\ left.height = right.height
    /\ right.color = "black"
    /\ color = "red" => left.color = "black"

Mk(color, left, piece, right) ==
    [kind |-> "node", color |-> color, left |-> left, piece |-> piece, right |-> right,
     height |-> left.height + (IF color = "black" THEN 1 ELSE 0),
     shape |-> IF Leaning(left, color, right) THEN "leaning" ELSE "broken",
     value |-> JoinedValue(left.value, piece, right.value)]

Red(t) == t.color = "red"

Black(t) == t.color = "black"

Ok(t) == t.shape = "leaning"

LEMMA MkIs ==
  ASSUME NEW color, NEW left, NEW piece, NEW right, NEW t, t = Mk(color, left, piece, right)
  PROVE  /\ t.kind = "node" /\ t.color = color /\ t.left = left /\ t.piece = piece
         /\ t.right = right
         /\ t.height = left.height + (IF color = "black" THEN 1 ELSE 0)
         /\ Ok(t) <=> Leaning(left, color, right)
         /\ t.value = JoinedValue(left.value, piece, right.value)
         /\ (Red(t) <=> color = "red") /\ (Black(t) <=> color = "black")
  BY DEF Mk, Ok, Red, Black

LEMMA LeafIs ==
  /\ Leaf.kind = "leaf" /\ Leaf.color = "black" /\ Leaf.height = 0 /\ Leaf.value = Nothing
  /\ Ok(Leaf) /\ Black(Leaf) /\ ~Red(Leaf)
  BY DEF Leaf, Ok, Black, Red

(* The functions of nodes that are defined by those of their children: what *)
(* each makes of an address and of the values l and r of its children.     *)

TreeStep(ns, a, l, r) ==
    IF a = NULL THEN Leaf ELSE Mk(ns[a].color, l, ns[a].piece, r)

InsertStep(ns, piece, a, l, r) ==
    [at \in Int |->
       LET here == node_length(ns, ns[a].left)
       IN  IF a = NULL THEN make_node(ns, "red", NULL, piece, NULL)
           ELSE IF at <= here
           THEN RebuiltLeft(a, l[at], FALSE)
           ELSE RebuiltRight(a, r[at - here - ns[a].piece.length], FALSE)]

PiecesStep(ns, a, l, r) ==
    IF a = NULL THEN << >>
    ELSE Joined(l, node_length(ns, ns[a].left), ns[a].piece, r)

HeightStep(ns, a, l, r) ==
    IF a = NULL THEN 0 ELSE l + (IF ns[a].color = "black" THEN 1 ELSE 0)

SubtreeStep(ns, a, l, r) ==
    IF a = NULL THEN {} ELSE {a} \cup l \cup r

FindStep(ns, a, l, r) ==
    [to \in Int |-> [from \in Int |->
       LET here == node_length(ns, ns[a].left)
           size == ns[a].piece.length
       IN  IF a = NULL THEN Found(NULL, from, 0)
           ELSE IF to < here THEN l[to][from]
           ELSE IF to < here + size THEN Found(a, from + here, to - here)
           ELSE r[to - here - size][from + here + size]]]

LineStep(ns, a, l, r) ==
    [line \in Int |-> [from \in Int |->
       LET before == node_lf_count(ns, ns[a].left)
           here   == node_length(ns, ns[a].left)
           feeds  == ns[a].piece.newline_count
       IN  IF a = NULL THEN Found(NULL, from, 0)
           ELSE IF line <= before THEN l[line][from]
           ELSE IF line <= before + feeds THEN Found(a, from + here, line - before)
           ELSE r[line - before - feeds][from + here + ns[a].piece.length]]]

FeedStep(ns, a, l, r) ==
    [to \in Int |-> [counted \in Int |->
       LET here   == node_length(ns, ns[a].left)
           before == counted + node_lf_count(ns, ns[a].left)
           size   == ns[a].piece.length
       IN  IF a = NULL THEN [node |-> NULL, feeds |-> counted, offset |-> to]
           ELSE IF to < here THEN l[to][counted]
           ELSE IF to - here <= size
           THEN [node |-> a, feeds |-> before, offset |-> to - here]
           ELSE r[to - here - size][before + ns[a].piece.newline_count]]]

(* The functions of all addresses up to the n-th. *)
TreesUp(f, ns, n) ==
    f = [m \in 0 .. n |-> TreeStep(ns, m, f[ns[m].left], f[ns[m].right])]

InsertsUp(f, ns, piece, n) ==
    f = [m \in 0 .. n |-> InsertStep(ns, piece, m, f[ns[m].left], f[ns[m].right])]

PiecesUp(f, ns, n) ==
    f = [m \in 0 .. n |-> PiecesStep(ns, m, f[ns[m].left], f[ns[m].right])]

HeightsUp(f, ns, n) ==
    f = [m \in 0 .. n |-> HeightStep(ns, m, f[ns[m].left], f[ns[m].right])]

SubtreesUp(f, ns, n) ==
    f = [m \in 0 .. n |-> SubtreeStep(ns, m, f[ns[m].left], f[ns[m].right])]

FindsUp(f, ns, n) ==
    f = [m \in 0 .. n |-> FindStep(ns, m, f[ns[m].left], f[ns[m].right])]

LinesUp(f, ns, n) ==
    f = [m \in 0 .. n |-> LineStep(ns, m, f[ns[m].left], f[ns[m].right])]

FeedsUp(f, ns, n) ==
    f = [m \in 0 .. n |-> FeedStep(ns, m, f[ns[m].left], f[ns[m].right])]

Steps(ns, piece, a, l, r) ==
    [trees    |-> TreeStep(ns, a, l.trees, r.trees),
     inserts  |-> InsertStep(ns, piece, a, l.inserts, r.inserts),
     pieces   |-> PiecesStep(ns, a, l.pieces, r.pieces),
     heights  |-> HeightStep(ns, a, l.heights, r.heights),
     subtrees |-> SubtreeStep(ns, a, l.subtrees, r.subtrees),
     finds    |-> FindStep(ns, a, l.finds, r.finds),
     lines    |-> LineStep(ns, a, l.lines, r.lines),
     feeds    |-> FeedStep(ns, a, l.feeds, r.feeds)]

StepsUp(f, ns, piece, n) ==
    f = [m \in 0 .. n |-> Steps(ns, piece, m, f[ns[m].left], f[ns[m].right])]

TreesIn(ns) == CHOOSE f : TreesUp(f, ns, Len(ns))

Tree(ns, a) == TreesIn(ns)[a]

(* Children are older. *)
Older(ns) == \A a \in 1 .. Len(ns) : ns[a].left \in 0 .. a - 1 /\ ns[a].right \in 0 .. a - 1

LEMMA ChildrenAreOlder ==
  ASSUME NEW ns, WellMade(ns)
  PROVE  Older(ns) /\ Len(ns) \in Nat /\ ns \in Store
  <1>1. ns \in Store
    BY DEF WellMade
  <1>2. Len(ns) \in Nat
    BY <1>1, LiveIs
  <1>3. ASSUME NEW a \in 1 .. Len(ns) PROVE ns[a].left \in 0 .. a - 1 /\ ns[a].right \in 0 .. a - 1
    <2>1. CASE ns[a] = Free
      BY <2>1, <1>2 DEF Free, NULL
    <2>2. CASE ns[a] # Free
      <3>1. a \in Live(ns)
        BY <2>2, <1>1, LiveIs
      <3>2. ns[a] \in NodeRecord /\ ns[a].left < a /\ ns[a].right < a
        BY <3>1 DEF WellMade, Linked
      <3>3. ns[a].left \in Nat /\ ns[a].right \in Nat
        BY <3>2 DEF NodeRecord
      <3> QED BY <3>2, <3>3, <1>2
    <2> QED BY <2>1, <2>2
  <1> QED BY <1>1, <1>2, <1>3 DEF Older

LEMMA StepsExist ==
  ASSUME NEW ns, Older(ns), Len(ns) \in Nat, NEW piece
  PROVE  \E f : StepsUp(f, ns, piece, Len(ns))
  <1> DEFINE S == {m \in Nat : m <= Len(ns) => \E f : StepsUp(f, ns, piece, m)}
             next(a, l, r) == Steps(ns, piece, a, l, r)
  <1>0. ASSUME NEW x, NEW y, NEW u, NEW v PROVE next(NULL, x, y) = next(NULL, u, v)
    BY Zenon DEF Steps, TreeStep, InsertStep, PiecesStep, HeightStep, SubtreeStep, FindStep, LineStep, FeedStep
  <1>1. 0 \in S
    <2> DEFINE y == next(NULL, NULL, NULL)
               g == [a \in 0 .. 0 |-> y]
    <2>1. \A a \in 0 .. 0 : next(a, g[ns[a].left], g[ns[a].right]) = y
      <3>1. \A a \in 0 .. 0 : a = NULL
        BY DEF NULL
      <3> HIDE DEF g, next
      <3> QED BY <3>1, <1>0 DEF y
    <2> HIDE DEF y
    <2>2. g = [a \in 0 .. 0 |-> next(a, g[ns[a].left], g[ns[a].right])]
      <3> HIDE DEF next
      <3>1. g = [a \in 0 .. 0 |-> y]
        OBVIOUS
      <3> HIDE DEF g
      <3> QED BY <2>1, <3>1
    <2> HIDE DEF g
    <2>3. StepsUp(g, ns, piece, 0)
      BY <2>2 DEF StepsUp
    <2> QED BY <2>3
  <1>2. ASSUME NEW m \in Nat, m \in S PROVE m + 1 \in S
    <2> SUFFICES ASSUME m + 1 <= Len(ns) PROVE \E f : StepsUp(f, ns, piece, m + 1)
      OBVIOUS
    <2>1. PICK f : StepsUp(f, ns, piece, m)
      BY <1>2
    <2>6. \A a \in 0 .. m : f[a] = next(a, f[ns[a].left], f[ns[a].right])
      BY <2>1 DEF StepsUp
    <2> HIDE DEF next
    <2> DEFINE y == next(m + 1, f[ns[m + 1].left], f[ns[m + 1].right])
               g == [a \in 0 .. m + 1 |-> IF a = m + 1 THEN y ELSE f[a]]
    <2>2. ASSUME NEW a \in 0 .. m + 1
          PROVE  g[a] = next(a, g[ns[a].left], g[ns[a].right])
      <3> HIDE DEF y
      <3>1. a # NULL => ns[a].left \in 0 .. m /\ ns[a].right \in 0 .. m
        BY DEF Older, NULL
      <3>2. \A b \in 0 .. m : g[b] = f[b]
        OBVIOUS
      <3>3. a # NULL => g[ns[a].left] = f[ns[a].left] /\ g[ns[a].right] = f[ns[a].right]
        BY <3>1, <3>2
      <3>4. CASE a = m + 1
        <4>1. g[a] = y /\ a # NULL
          BY <3>4 DEF NULL
        <4> HIDE DEF g
        <4> QED BY <3>3, <3>4, <4>1 DEF y
      <3>5. CASE a # m + 1
        <4>1. a \in 0 .. m /\ g[a] = f[a]
          BY <3>5
        <4>2. f[a] = next(a, f[ns[a].left], f[ns[a].right])
          BY <2>6, <4>1
        <4> HIDE DEF g
        <4>3. CASE a = NULL
          BY <4>1, <4>2, <4>3, <1>0
        <4>4. CASE a # NULL
          BY <4>1, <4>2, <4>4, <3>3
        <4> QED BY <4>3, <4>4
      <3> QED BY <3>4, <3>5
    <2> HIDE DEF y
    <2>3. g = [a \in 0 .. m + 1 |-> g[a]]
      OBVIOUS
    <2> HIDE DEF g
    <2>4. g = [a \in 0 .. m + 1 |-> next(a, g[ns[a].left], g[ns[a].right])]
      BY <2>2, <2>3
    <2>5. StepsUp(g, ns, piece, m + 1)
      BY <2>4 DEF StepsUp, next
    <2> QED BY <2>5
  <1>3. Nat \subseteq S
    <2> HIDE DEF S
    <2> QED BY <1>1, <1>2, Induction
  <1> HIDE DEF next
  <1>4. Len(ns) \in S
    BY <1>3
  <1> QED BY <1>4

(* All of them exist. *)
LEMMA FunctionsExist ==
  ASSUME NEW ns, Older(ns), Len(ns) \in Nat, NEW piece
  PROVE  /\ \E f : TreesUp(f, ns, Len(ns))
         /\ \E f : InsertsUp(f, ns, piece, Len(ns))
         /\ \E f : PiecesUp(f, ns, Len(ns))
         /\ \E f : HeightsUp(f, ns, Len(ns))
         /\ \E f : SubtreesUp(f, ns, Len(ns))
         /\ \E f : FindsUp(f, ns, Len(ns))
         /\ \E f : LinesUp(f, ns, Len(ns))
         /\ \E f : FeedsUp(f, ns, Len(ns))
  <1> DEFINE n == Len(ns)
  <1>1. PICK g : StepsUp(g, ns, piece, n)
    BY StepsExist
  <1>2. \A m \in 0 .. n : g[m] = Steps(ns, piece, m, g[ns[m].left], g[ns[m].right])
    BY <1>1 DEF StepsUp
  <1>0. \A m \in 0 .. n :
           LET l == g[ns[m].left]
               r == g[ns[m].right]
           IN  /\ g[m].trees = TreeStep(ns, m, l.trees, r.trees)
               /\ g[m].inserts = InsertStep(ns, piece, m, l.inserts, r.inserts)
               /\ g[m].pieces = PiecesStep(ns, m, l.pieces, r.pieces)
               /\ g[m].heights = HeightStep(ns, m, l.heights, r.heights)
               /\ g[m].subtrees = SubtreeStep(ns, m, l.subtrees, r.subtrees)
               /\ g[m].finds = FindStep(ns, m, l.finds, r.finds)
               /\ g[m].lines = LineStep(ns, m, l.lines, r.lines)
               /\ g[m].feeds = FeedStep(ns, m, l.feeds, r.feeds)
    <2> TAKE m \in 0 .. n
    <2>1. g[m] = Steps(ns, piece, m, g[ns[m].left], g[ns[m].right])
      BY <1>2
    <2> DEFINE l == g[ns[m].left]
               r == g[ns[m].right]
    <2>2. g[m] = Steps(ns, piece, m, l, r)
      BY <2>1
    <2> HIDE DEF l, r
    <2>3. /\ g[m].trees = TreeStep(ns, m, l.trees, r.trees)
          /\ g[m].inserts = InsertStep(ns, piece, m, l.inserts, r.inserts)
          /\ g[m].pieces = PiecesStep(ns, m, l.pieces, r.pieces)
          /\ g[m].heights = HeightStep(ns, m, l.heights, r.heights)
          /\ g[m].subtrees = SubtreeStep(ns, m, l.subtrees, r.subtrees)
          /\ g[m].finds = FindStep(ns, m, l.finds, r.finds)
          /\ g[m].lines = LineStep(ns, m, l.lines, r.lines)
          /\ g[m].feeds = FeedStep(ns, m, l.feeds, r.feeds)
      BY <2>2 DEF Steps
    <2> QED BY <2>3 DEF l, r
  <1>3. \A m \in 1 .. n : ns[m].left \in 0 .. n /\ ns[m].right \in 0 .. n
    BY DEF Older
  <1>4. \E f : TreesUp(f, ns, n)
    <2> DEFINE f == [m \in 0 .. n |-> g[m].trees]
    <2>1. \A x, y, u, v : TreeStep(ns, NULL, x, y) = TreeStep(ns, NULL, u, v)
      BY Zenon DEF TreeStep
    <2>2. \A m \in 0 .. n : f[m] = TreeStep(ns, m, f[ns[m].left], f[ns[m].right])
      BY <1>3, <1>0, <2>1 DEF NULL
    <2>3. f = [m \in 0 .. n |-> f[m]]
      OBVIOUS
    <2> HIDE DEF f
    <2> QED BY <2>2, <2>3 DEF TreesUp
  <1>5. \E f : InsertsUp(f, ns, piece, n)
    <2> DEFINE f == [m \in 0 .. n |-> g[m].inserts]
    <2>1. \A x, y, u, v : InsertStep(ns, piece, NULL, x, y) = InsertStep(ns, piece, NULL, u, v)
      BY Zenon DEF InsertStep
    <2>2. \A m \in 0 .. n : f[m] = InsertStep(ns, piece, m, f[ns[m].left], f[ns[m].right])
      BY <1>3, <1>0, <2>1 DEF NULL
    <2>3. f = [m \in 0 .. n |-> f[m]]
      OBVIOUS
    <2> HIDE DEF f
    <2> QED BY <2>2, <2>3 DEF InsertsUp
  <1>6. \E f : PiecesUp(f, ns, n)
    <2> DEFINE f == [m \in 0 .. n |-> g[m].pieces]
    <2>1. \A x, y, u, v : PiecesStep(ns, NULL, x, y) = PiecesStep(ns, NULL, u, v)
      BY Zenon DEF PiecesStep
    <2>2. \A m \in 0 .. n : f[m] = PiecesStep(ns, m, f[ns[m].left], f[ns[m].right])
      BY <1>3, <1>0, <2>1 DEF NULL
    <2>3. f = [m \in 0 .. n |-> f[m]]
      OBVIOUS
    <2> HIDE DEF f
    <2> QED BY <2>2, <2>3 DEF PiecesUp
  <1>7. \E f : HeightsUp(f, ns, n)
    <2> DEFINE f == [m \in 0 .. n |-> g[m].heights]
    <2>1. \A x, y, u, v : HeightStep(ns, NULL, x, y) = HeightStep(ns, NULL, u, v)
      BY Zenon DEF HeightStep
    <2>2. \A m \in 0 .. n : f[m] = HeightStep(ns, m, f[ns[m].left], f[ns[m].right])
      BY <1>3, <1>0, <2>1 DEF NULL
    <2>3. f = [m \in 0 .. n |-> f[m]]
      OBVIOUS
    <2> HIDE DEF f
    <2> QED BY <2>2, <2>3 DEF HeightsUp
  <1>8. \E f : SubtreesUp(f, ns, n)
    <2> DEFINE f == [m \in 0 .. n |-> g[m].subtrees]
    <2>1. \A x, y, u, v : SubtreeStep(ns, NULL, x, y) = SubtreeStep(ns, NULL, u, v)
      BY Zenon DEF SubtreeStep
    <2>2. \A m \in 0 .. n : f[m] = SubtreeStep(ns, m, f[ns[m].left], f[ns[m].right])
      BY <1>3, <1>0, <2>1 DEF NULL
    <2>3. f = [m \in 0 .. n |-> f[m]]
      OBVIOUS
    <2> HIDE DEF f
    <2> QED BY <2>2, <2>3 DEF SubtreesUp
  <1>9. \E f : FindsUp(f, ns, n)
    <2> DEFINE f == [m \in 0 .. n |-> g[m].finds]
    <2>1. \A x, y, u, v : FindStep(ns, NULL, x, y) = FindStep(ns, NULL, u, v)
      BY Zenon DEF FindStep
    <2>2. \A m \in 0 .. n : f[m] = FindStep(ns, m, f[ns[m].left], f[ns[m].right])
      BY <1>3, <1>0, <2>1 DEF NULL
    <2>3. f = [m \in 0 .. n |-> f[m]]
      OBVIOUS
    <2> HIDE DEF f
    <2> QED BY <2>2, <2>3 DEF FindsUp
  <1>10. \E f : LinesUp(f, ns, n)
    <2> DEFINE f == [m \in 0 .. n |-> g[m].lines]
    <2>1. \A x, y, u, v : LineStep(ns, NULL, x, y) = LineStep(ns, NULL, u, v)
      BY Zenon DEF LineStep
    <2>2. \A m \in 0 .. n : f[m] = LineStep(ns, m, f[ns[m].left], f[ns[m].right])
      BY <1>3, <1>0, <2>1 DEF NULL
    <2>3. f = [m \in 0 .. n |-> f[m]]
      OBVIOUS
    <2> HIDE DEF f
    <2> QED BY <2>2, <2>3 DEF LinesUp
  <1>11. \E f : FeedsUp(f, ns, n)
    <2> DEFINE f == [m \in 0 .. n |-> g[m].feeds]
    <2>1. \A x, y, u, v : FeedStep(ns, NULL, x, y) = FeedStep(ns, NULL, u, v)
      BY Zenon DEF FeedStep
    <2>2. \A m \in 0 .. n : f[m] = FeedStep(ns, m, f[ns[m].left], f[ns[m].right])
      BY <1>3, <1>0, <2>1 DEF NULL
    <2>3. f = [m \in 0 .. n |-> f[m]]
      OBVIOUS
    <2> HIDE DEF f
    <2> QED BY <2>2, <2>3 DEF FeedsUp
  <1> QED BY <1>4, <1>5, <1>6, <1>7, <1>8, <1>9, <1>10, <1>11

LEMMA TreesExist ==
  ASSUME NEW ns, Older(ns), Len(ns) \in Nat
  PROVE  TreesUp(TreesIn(ns), ns, Len(ns))
  BY FunctionsExist, Zenon DEF TreesIn

LEMMA TreeAt ==
  ASSUME NEW ns, WellMade(ns)
  PROVE  /\ Tree(ns, NULL) = Leaf
         /\ \A a \in Live(ns) :
               Tree(ns, a) = Mk(ns[a].color, Tree(ns, ns[a].left), ns[a].piece, Tree(ns, ns[a].right))
  <1>1. Older(ns) /\ Len(ns) \in Nat /\ ns \in Store
    BY ChildrenAreOlder
  <1> DEFINE f == TreesIn(ns)
  <1>2. TreesUp(f, ns, Len(ns))
    BY <1>1, TreesExist
  <1>3. \A a \in Live(ns) : a \in 0 .. Len(ns) /\ a # NULL
    BY <1>1, LiveIs DEF NULL
  <1>4. f[NULL] = Leaf
    BY <1>1, <1>2 DEF TreesUp, TreeStep, NULL
  <1>5. \A a \in Live(ns) : f[a] = Mk(ns[a].color, f[ns[a].left], ns[a].piece, f[ns[a].right])
    BY <1>2, <1>3 DEF TreesUp, TreeStep
  <1> QED BY <1>4, <1>5, Zenon DEF Tree

(* What stays of the nodes stands for the same trees. *)
LEMMA SameTrees ==
  ASSUME NEW ns, WellMade(ns), NEW after, WellMade(after), Same(ns, after),
         NEW a \in Live(after) \cup {NULL}, a <= Len(ns)
  PROVE  Tree(after, a) = Tree(ns, a)
  <1> DEFINE S == {b \in 0 .. Len(ns) :
                      b \in Live(after) \cup {NULL} => Tree(after, b) = Tree(ns, b)}
  <1>1. ns \in Store /\ after \in Store /\ Len(ns) \in Nat
    BY LiveIs DEF WellMade
  <1>2. ASSUME NEW b \in 0 .. Len(ns), \A c \in 0 .. Len(ns) : c < b => c \in S
        PROVE  b \in S
    <2>1. CASE b = NULL
      BY <2>1, TreeAt
    <2>2. CASE b \in Live(after)
      <3>1. Kept(ns, after, b) /\ b \in Live(ns)
        BY <2>2 DEF Same, Kept
      <3>2. /\ after[b].left \in Live(after) \cup {NULL} /\ after[b].left < b
            /\ after[b].right \in Live(after) \cup {NULL} /\ after[b].right < b
        BY <2>2 DEF WellMade, Linked
      <3>3. \A c \in Live(after) \cup {NULL} : c < b => Tree(after, c) = Tree(ns, c)
        <4> SUFFICES ASSUME NEW c \in Live(after) \cup {NULL}, c < b
                     PROVE  Tree(after, c) = Tree(ns, c)
          OBVIOUS
        <4>1. c \in 0 .. Len(ns)
          BY <1>1, LiveIs DEF NULL
        <4> QED BY <4>1, <1>2
      <3>4. Tree(after, after[b].left) = Tree(ns, after[b].left)
            /\ Tree(after, after[b].right) = Tree(ns, after[b].right)
        BY <3>2, <3>3
      <3>5. Tree(ns, b) = Mk(ns[b].color, Tree(ns, ns[b].left), ns[b].piece, Tree(ns, ns[b].right))
        BY <3>1, TreeAt
      <3>6. Tree(after, b) =
              Mk(after[b].color, Tree(after, after[b].left), after[b].piece, Tree(after, after[b].right))
        BY <2>2, TreeAt
      <3>7. Tree(after, b) = Tree(ns, b)
        BY <3>1, <3>4, <3>5, <3>6, Zenon DEF Kept
      <3> QED BY <3>7
    <2> QED BY <2>1, <2>2
  <1>3. 0 .. Len(ns) \subseteq S
    <2> HIDE DEF S
    <2> QED BY <1>1, <1>2, AddressInduction
  <1>4. a \in 0 .. Len(ns)
    BY <1>1, LiveIs DEF NULL
  <1> QED BY <1>3, <1>4

-----------------------------------------------------------------------------
(* What an operation yields: an owned node, and no other reference more or *)
(* less than before.                                                      *)

(* A node that is in use is owned or has a parent that is newer. *)
LEMMA OwnedOrChild ==
  ASSUME NEW ns, NEW own, Heap(ns, own), NEW a \in Live(ns), own[a] = 0
  PROVE  \E m \in Live(ns) : (ns[m].left = a \/ ns[m].right = a) /\ a < m
  <1>1. ns \in Store /\ WellMade(ns) /\ Counted(ns, own)
    BY DEF Heap, WellMade
  <1>2. LeftParents(ns, a) # {} \/ RightParents(ns, a) # {}
    <2> SUFFICES ASSUME LeftParents(ns, a) = {}, RightParents(ns, a) = {} PROVE FALSE
      OBVIOUS
    <2>1. Cardinality(LeftParents(ns, a)) = 0 /\ Cardinality(RightParents(ns, a)) = 0
      BY FS_EmptySet
    <2> QED BY <2>1, <1>1 DEF Counted
  <1>3. PICK m \in Live(ns) : ns[m].left = a \/ ns[m].right = a
    BY <1>2 DEF LeftParents, RightParents
  <1>4. a < m
    BY <1>1, <1>3 DEF WellMade, Linked
  <1> QED BY <1>3, <1>4

(* What was in use stays in use, if what was owned is owned. *)
LEMMA Survives ==
  ASSUME NEW ns, NEW own, NEW after, NEW more, Heap(ns, own), Heap(after, more),
         Same(ns, after), \A a \in Nat : own[a] # 0 => more[a] # 0
  PROVE  \A a \in Live(ns) : a \in Live(after) /\ Kept(ns, after, a) /\ Tree(after, a) = Tree(ns, a)
  <1>1. /\ ns \in Store /\ WellMade(ns) /\ after \in Store /\ WellMade(after)
        /\ Counted(after, more) /\ Len(ns) \in Nat
    BY LiveIs DEF Heap, WellMade
  <1>2. \A a \in Live(ns) : a \in Nat /\ a # 0 /\ a <= Len(ns)
    BY <1>1, LiveIs
  <1> DEFINE N == Len(ns)
             S == {b \in 0 .. N : N - b \in Live(ns) => N - b \in Live(after)}
  <1>3. ASSUME NEW b \in 0 .. N, \A c \in 0 .. N : c < b => c \in S
        PROVE  b \in S
    <2> SUFFICES ASSUME N - b \in Live(ns) PROVE N - b \in Live(after)
      OBVIOUS
    <2> DEFINE a == N - b
    <2>1. a \in Live(ns) /\ a \in Nat /\ a # 0 /\ a <= N /\ b = N - a
      BY <1>1, <1>2
    <2> HIDE DEF a
    <2>2. CASE own[a] # 0
      <3>1. more[a] # 0
        BY <2>1, <2>2
      <3>2. a \in Live(after)
        BY <2>1, <3>1, <1>1 DEF Counted
      <3> QED BY <3>2 DEF a
    <2>3. CASE own[a] = 0
      <3>1. PICK m \in Live(ns) : (ns[m].left = a \/ ns[m].right = a) /\ a < m
        BY <2>1, <2>3, OwnedOrChild
      <3>2. m \in Nat /\ m <= N
        BY <1>2
      <3>3. N - m \in 0 .. N /\ N - m < b /\ N - (N - m) = m
        BY <2>1, <3>1, <3>2, <1>1
      <3>4. N - m \in S
        BY <3>3, <1>3
      <3>5. m \in Live(after)
        BY <3>3, <3>4
      <3>6. Kept(ns, after, m)
        BY <3>2, <3>5 DEF Same
      <3>7. a \in Live(after) \cup {NULL}
        BY <3>1, <3>5, <3>6, <1>1, Zenon DEF WellMade, Linked, Kept
      <3>8. a \in Live(after)
        BY <3>7, <2>1 DEF NULL
      <3> QED BY <3>8 DEF a
    <2> QED BY <2>2, <2>3
  <1>4. 0 .. N \subseteq S
    <2> HIDE DEF S
    <2> QED BY <1>1, <1>3, AddressInduction
  <1> SUFFICES ASSUME NEW a \in Live(ns)
               PROVE  a \in Live(after) /\ Kept(ns, after, a) /\ Tree(after, a) = Tree(ns, a)
    OBVIOUS
  <1>5. N - a \in 0 .. N /\ N - (N - a) = a
    BY <1>1, <1>2
  <1>6. N - a \in S
    BY <1>4, <1>5
  <1>7. a \in Live(after)
    BY <1>5, <1>6
  <1>8. Kept(ns, after, a)
    BY <1>2, <1>7 DEF Same
  <1>9. Tree(after, a) = Tree(ns, a)
    <2>1. a \in Live(after) \cup {NULL} /\ a <= Len(ns)
      BY <1>2, <1>7
    <2> QED BY <2>1, <1>1, SameTrees
  <1> QED BY <1>7, <1>8, <1>9

(* o is an owned node of the tree t, next to what own counts. *)
Yields(ns, own, o, t) ==
    /\ o = [nodes |-> o.nodes, node |-> o.node]
    /\ Heap(o.nodes, Plus(own, o.node))
    /\ ns \in Store /\ Same(ns, o.nodes)
    /\ o.node \in Nat
    /\ Tree(o.nodes, o.node) = t

(* A node that is in use, or none. *)
InUse(ns, a) == a \in Live(ns) \cup {NULL}

LEMMA HeapIs ==
  ASSUME NEW ns, NEW own, Heap(ns, own)
  PROVE  /\ WellMade(ns) /\ ns \in Store /\ own \in Owned /\ Len(ns) \in Nat
         /\ \A a : InUse(ns, a) => a \in Nat /\ a <= Len(ns)
         /\ \A a \in Nat : own[a] # 0 => InUse(ns, a)
         /\ InUse(ns, NULL) /\ NULL \in Nat
  <1>1. ns \in Store
    BY DEF Heap, WellMade
  <1>2. \A a \in Live(ns) : a \in Nat /\ a \in 1 .. Len(ns)
    BY <1>1, LiveIs
  <1>3. Len(ns) \in Nat
    BY <1>1, LiveIs
  <1> QED BY <1>1, <1>2, <1>3 DEF Heap, WellMade, Counted, InUse, NULL

LEMMA YieldsIs ==
  ASSUME NEW ns, NEW own \in Owned, NEW o, NEW t, Yields(ns, own, o, t)
  PROVE  /\ Heap(o.nodes, Plus(own, o.node)) /\ Plus(own, o.node) \in Owned
         /\ ns \in Store /\ Same(ns, o.nodes)
         /\ o.node \in Nat /\ InUse(o.nodes, o.node)
         /\ Tree(o.nodes, o.node) = t
         /\ o = [nodes |-> o.nodes, node |-> o.node]
  <1>1. Heap(o.nodes, Plus(own, o.node)) /\ o.node \in Nat
    BY DEF Yields
  <1>2. Plus(own, o.node) \in Owned /\ Plus(own, o.node)[o.node] # 0
    BY <1>1, PlusOwns
  <1>3. InUse(o.nodes, o.node)
    BY <1>1, <1>2, HeapIs
  <1> QED BY <1>1, <1>2, <1>3, Zenon DEF Yields

(* A node of the nodes there were is still there, with its tree. *)
Keeps(ns, after, a) ==
    /\ InUse(after, a) /\ Tree(after, a) = Tree(ns, a)
    /\ a # NULL => Kept(ns, after, a)

LEMMA YieldsKeeps ==
  ASSUME NEW ns, NEW own, Heap(ns, own), NEW o, NEW t, Yields(ns, own, o, t),
         NEW a, InUse(ns, a)
  PROVE  Keeps(ns, o.nodes, a)
  <1>1. own \in Owned /\ WellMade(ns)
    BY HeapIs
  <1>2. Heap(o.nodes, Plus(own, o.node)) /\ Same(ns, o.nodes) /\ o.node \in Nat
    BY DEF Yields
  <1>3. \A b \in Nat : own[b] # 0 => Plus(own, o.node)[b] # 0
    BY <1>1, <1>2, PlusOwns
  <1>4. CASE a = NULL
    <2>1. WellMade(o.nodes)
      BY <1>2, HeapIs
    <2> QED BY <1>1, <1>4, <2>1, TreeAt DEF InUse, Keeps
  <1>5. CASE a # NULL
    <2>1. a \in Live(ns)
      BY <1>5 DEF InUse
    <2>2. a \in Live(o.nodes) /\ Kept(ns, o.nodes, a) /\ Tree(o.nodes, a) = Tree(ns, a)
      BY <2>1, <1>2, <1>3, Survives
    <2> QED BY <2>2 DEF InUse, Keeps
  <1> QED BY <1>4, <1>5

LEMMA PlusCommutes ==
  ASSUME NEW own \in Owned, NEW a \in Nat, NEW b \in Nat
  PROVE  Plus(Plus(own, a), b) = Plus(Plus(own, b), a)
  BY DEF Plus, Owned

(* A new node. *)
LEMMA MakeYields ==
  ASSUME NEW ns, NEW own, Heap(ns, own), NEW color \in Colors, NEW piece \in Pieces,
         NEW left, InUse(ns, left), NEW right, InUse(ns, right)
  PROVE  Yields(ns, own, make_node(ns, color, left, piece, right),
                Mk(color, Tree(ns, left), piece, Tree(ns, right)))
  <1> DEFINE o == make_node(ns, color, left, piece, right)
             after == o.nodes
             n == o.node
  <1>1. o = [nodes |-> o.nodes, node |-> o.node]
    BY DEF make_node, Placed
  <1> HIDE DEF o
  <1>2. own \in Owned /\ left \in Live(ns) \cup {NULL} /\ right \in Live(ns) \cup {NULL}
    BY HeapIs DEF InUse
  <1>3. /\ Heap(after, Plus(own, n)) /\ Same(ns, after)
        /\ n = Len(ns) + 1 /\ n \in Nat /\ n # NULL
        /\ Live(after) = Live(ns) \cup {n}
        /\ after[n].color = color /\ after[n].left = left
        /\ after[n].piece = piece /\ after[n].right = right
    BY <1>2, MakeNode DEF o
  <1> HIDE DEF after, n
  <1>4. WellMade(ns) /\ WellMade(after) /\ ns \in Store /\ \A a : InUse(ns, a) => a <= Len(ns)
    BY <1>3, HeapIs
  <1>5. Tree(after, left) = Tree(ns, left) /\ Tree(after, right) = Tree(ns, right)
    <2>1. left \in Live(after) \cup {NULL} /\ right \in Live(after) \cup {NULL}
      BY <1>2, <1>3
    <2>2. left <= Len(ns) /\ right <= Len(ns)
      BY <1>4
    <2> QED BY <1>3, <1>4, <2>1, <2>2, SameTrees
  <1>6. Tree(after, n) = Mk(color, Tree(after, left), piece, Tree(after, right))
    <2>1. n \in Live(after)
      BY <1>3
    <2> QED BY <2>1, <1>3, <1>4, TreeAt
  <1> QED BY <1>1, <1>3, <1>4, <1>5, <1>6 DEF Yields, after, n, o

(* One more owned node is dropped. *)
LEMMA DropYields ==
  ASSUME NEW ns, NEW own \in Owned, NEW a \in Nat, NEW o, NEW t, Yields(ns, Plus(own, a), o, t)
  PROVE  Yields(ns, own, Drop(o, a), t)
  <1> DEFINE n == o.node
             after == o.nodes
             last == dec_node_ref(after, a)
             more == Plus(own, n)
             d == Drop(o, a)
  <1>1. /\ Heap(after, Plus(Plus(own, a), n)) /\ ns \in Store /\ Same(ns, after) /\ n \in Nat
        /\ Tree(after, n) = t /\ o = [nodes |-> after, node |-> n]
    BY Zenon DEF Yields
  <1>2. d = [nodes |-> last, node |-> n]
    BY <1>1 DEF Drop
  <1> HIDE DEF n, after, last, d
  <1>3. Heap(after, Plus(more, a)) /\ more \in Owned
    BY <1>1, PlusCommutes, PlusIs
  <1>9. more[n] # 0
    BY <1>1, PlusOwns
  <1> HIDE DEF more
  <1>4. Heap(last, more) /\ Same(after, last)
    BY <1>3, DropRef DEF last
  <1>5. Same(ns, last)
    <2>1. after \in Store /\ last \in Store
      BY <1>1, <1>4, HeapIs
    <2> QED BY <2>1, <1>1, <1>4, SameIsTransitive
  <1>6. InUse(last, n) /\ InUse(after, n) /\ n <= Len(after)
    <2>1. InUse(last, n)
      BY <1>1, <1>4, <1>9, HeapIs
    <2>2. Plus(more, a)[n] # 0
      BY <1>1, <1>3, <1>9, PlusOwns
    <2>3. InUse(after, n)
      BY <1>1, <1>3, <2>2, HeapIs
    <2> QED BY <2>1, <2>3, <1>3, HeapIs
  <1>7. Tree(last, n) = t
    <2>1. WellMade(after) /\ WellMade(last) /\ n \in Live(last) \cup {NULL}
      BY <1>3, <1>4, <1>6, HeapIs DEF InUse
    <2> QED BY <2>1, <1>1, <1>4, <1>6, SameTrees
  <1>8. d = [nodes |-> d.nodes, node |-> d.node] /\ d.nodes = last /\ d.node = n
    BY <1>2
  <1> QED BY <1>1, <1>4, <1>5, <1>7, <1>8 DEF Yields, d, more

LEMMA YieldsFrom ==
  ASSUME NEW ns \in Store, NEW mid, Same(ns, mid), NEW own \in Owned, NEW o, NEW t,
         Yields(mid, own, o, t)
  PROVE  Yields(ns, own, o, t)
  <1>1. mid \in Store /\ Same(mid, o.nodes) /\ Heap(o.nodes, Plus(own, o.node))
    BY DEF Yields
  <1>2. o.nodes \in Store
    BY <1>1, HeapIs
  <1>3. Same(ns, o.nodes)
    BY <1>1, <1>2, SameIsTransitive
  <1> QED BY <1>3, Zenon DEF Yields

(* A node as the tree it is the root of. *)
IsRootOf(ns, a, t) ==
    /\ a # NULL /\ a \in Live(ns) /\ t.kind = "node"
    /\ t.color \in Colors /\ ns[a].color = t.color
    /\ t.piece \in Pieces /\ ns[a].piece = t.piece
    /\ InUse(ns, ns[a].left) /\ Tree(ns, ns[a].left) = t.left
    /\ InUse(ns, ns[a].right) /\ Tree(ns, ns[a].right) = t.right
    /\ t = Mk(t.color, t.left, t.piece, t.right)

LEMMA RootIs ==
  ASSUME NEW ns, WellMade(ns), NEW a, InUse(ns, a), NEW t, t = Tree(ns, a)
  PROVE  /\ t.kind = "leaf" => a = NULL /\ t = Leaf
         /\ a = NULL => t = Leaf
         /\ t.kind = "node" => IsRootOf(ns, a, t)
         /\ t.kind # "leaf" => IsRootOf(ns, a, t)
         /\ a # NULL => IsRootOf(ns, a, t)
         /\ node_is_red(ns, a) <=> Red(t)
  <1>1. CASE a = NULL
    <2>1. t = Leaf
      BY <1>1, TreeAt
    <2> QED BY <1>1, <2>1, LeafIs DEF node_is_red
  <1>2. CASE a # NULL
    <2>1. a \in Live(ns) /\ Linked(ns, a)
      BY <1>2 DEF InUse, WellMade
    <2>2. t = Mk(ns[a].color, Tree(ns, ns[a].left), ns[a].piece, Tree(ns, ns[a].right))
      BY <2>1, TreeAt
    <2>3. /\ t.kind = "node" /\ t.color = ns[a].color /\ t.piece = ns[a].piece
          /\ t.left = Tree(ns, ns[a].left) /\ t.right = Tree(ns, ns[a].right)
      BY <2>2 DEF Mk
    <2>4. ns[a].color \in Colors /\ ns[a].piece \in Pieces
      BY <2>1 DEF Linked, NodeRecord
    <2>5. InUse(ns, ns[a].left) /\ InUse(ns, ns[a].right)
      BY <2>1 DEF Linked, InUse
    <2>6. t = Mk(t.color, t.left, t.piece, t.right)
      BY <2>2, <2>3
    <2>7. IsRootOf(ns, a, t)
      BY <1>2, <2>1, <2>3, <2>4, <2>5, <2>6, Zenon DEF IsRootOf
    <2>8. node_is_red(ns, a) <=> Red(t)
      BY <1>2, <2>3 DEF node_is_red, Red
    <2> QED BY <1>2, <2>3, <2>7, <2>8
  <1> QED BY <1>1, <1>2

-----------------------------------------------------------------------------
(* The rotations of trees *)

Repainted(t, color) == Mk(color, t.left, t.piece, t.right)

RotL(t) == Mk(t.color, Mk("red", t.left, t.piece, t.right.left), t.right.piece, t.right.right)

RotR(t) == Mk(t.color, t.left.left, t.left.piece, Mk("red", t.left.right, t.piece, t.right))

Flip(t) ==
    Mk(Flipped(t.color), Repainted(t.left, Flipped(t.left.color)), t.piece,
       Repainted(t.right, Flipped(t.right.color)))

LEMMA ColorsAre == "red" \in Colors /\ "black" \in Colors /\ \A c \in Colors : Flipped(c) \in Colors
  BY DEF Colors, Flipped

(* A node made of what a first operation yields, whose own node it replaces. *)
LEMMA RepaintYields ==
  ASSUME NEW ns, NEW own \in Owned, NEW o, NEW t, Yields(ns, own, o, t), t.kind = "node",
         NEW color \in Colors
  PROVE  Yields(ns, own, repaint_owned(o, color), Repainted(t, color))
  <1> DEFINE hs == o.nodes
             n == o.node
             more == Plus(own, n)
             new == Recolored(hs, n, color)
  <1>1. /\ Heap(hs, more) /\ more \in Owned /\ ns \in Store /\ Same(ns, hs)
        /\ n \in Nat /\ InUse(hs, n) /\ Tree(hs, n) = t
    BY YieldsIs, Zenon
  <1> HIDE DEF hs, n, more
  <1>2. IsRootOf(hs, n, t)
    BY <1>1, HeapIs, RootIs
  <1>3. new = make_node(hs, color, hs[n].left, t.piece, hs[n].right)
    BY <1>2, Zenon DEF Recolored, IsRootOf
  <1>4. Yields(hs, more, new, Repainted(t, color))
    <2>1. t.piece \in Pieces /\ InUse(hs, hs[n].left) /\ InUse(hs, hs[n].right)
          /\ Tree(hs, hs[n].left) = t.left /\ Tree(hs, hs[n].right) = t.right
      BY <1>2, Zenon DEF IsRootOf
    <2>2. Yields(hs, more, make_node(hs, color, hs[n].left, t.piece, hs[n].right),
                 Mk(color, Tree(hs, hs[n].left), t.piece, Tree(hs, hs[n].right)))
      BY <2>1, <1>1, MakeYields, Zenon
    <2> HIDE DEF new
    <2> QED BY <2>1, <2>2, <1>3, Zenon DEF Repainted
  <1> HIDE DEF new
  <1>5. Yields(ns, more, new, Repainted(t, color))
    BY <1>1, <1>4, YieldsFrom, Zenon
  <1>6. Yields(ns, own, Drop(new, n), Repainted(t, color))
    BY <1>1, <1>5, DropYields, Zenon DEF more
  <1>7. repaint_owned(o, color) = Drop(new, n)
    BY Zenon DEF repaint_owned, new, hs, n
  <1> QED BY <1>6, <1>7, Zenon

(* A node made of what a first operation yields: it takes the place of what *)
(* that gave and of another owned node.                                   *)
LEMMA ReplaceYields ==
  ASSUME NEW ns \in Store, NEW own \in Owned, NEW hs, Same(ns, hs), NEW n \in Nat,
         Heap(hs, Plus(own, n)), NEW o, NEW inner, Yields(hs, Plus(own, n), o, inner),
         NEW color \in Colors, NEW piece \in Pieces,
         NEW left, InUse(o.nodes, left), NEW right, InUse(o.nodes, right)
  PROVE  Yields(ns, own, Drop(Drop(make_node(o.nodes, color, left, piece, right), o.node), n),
                Mk(color, Tree(o.nodes, left), piece, Tree(o.nodes, right)))
  <1> DEFINE ms == o.nodes
             first == Plus(own, n)
             second == Plus(first, o.node)
             new == make_node(ms, color, left, piece, right)
             t == Mk(color, Tree(ms, left), piece, Tree(ms, right))
  <1>1. first \in Owned
    BY PlusIs
  <1> HIDE DEF first
  <1>2. Heap(ms, second) /\ second \in Owned /\ Same(hs, ms) /\ o.node \in Nat
    BY <1>1, YieldsIs, Zenon DEF first
  <1> HIDE DEF second
  <1>3. Yields(ms, second, new, t)
    BY <1>2, MakeYields, Zenon
  <1> HIDE DEF new, t
  <1>4. Same(ns, ms)
    <2>1. hs \in Store /\ ms \in Store
      BY <1>2, HeapIs
    <2> QED BY <2>1, <1>2, SameIsTransitive, Zenon
  <1>5. Yields(ns, second, new, t)
    BY <1>2, <1>3, <1>4, YieldsFrom, Zenon
  <1>6. Yields(ns, first, Drop(new, o.node), t)
    BY <1>1, <1>2, <1>5, DropYields, Zenon DEF second
  <1>7. Yields(ns, own, Drop(Drop(new, o.node), n), t)
    BY <1>6, DropYields, Zenon DEF first
  <1> QED BY <1>7, Zenon DEF new, t

(* What is known of an owned node and the tree it is the root of. *)
Holds(ns, own, o, t, hs, n, first) ==
    /\ hs = o.nodes /\ n = o.node /\ first = Plus(own, n)
    /\ Heap(hs, first) /\ first \in Owned /\ ns \in Store /\ hs \in Store /\ Same(ns, hs)
    /\ n \in Nat /\ InUse(hs, n) /\ WellMade(hs)
    /\ IsRootOf(hs, n, t)

LEMMA YieldsHolds ==
  ASSUME NEW ns, NEW own \in Owned, NEW o, NEW t, Yields(ns, own, o, t), t.kind = "node"
  PROVE  Holds(ns, own, o, t, o.nodes, o.node, Plus(own, o.node))
  <1>1. /\ Heap(o.nodes, Plus(own, o.node)) /\ Plus(own, o.node) \in Owned
        /\ ns \in Store /\ Same(ns, o.nodes)
        /\ o.node \in Nat /\ InUse(o.nodes, o.node) /\ Tree(o.nodes, o.node) = t
    BY YieldsIs, Zenon
  <1>2. WellMade(o.nodes) /\ o.nodes \in Store
    BY <1>1, HeapIs
  <1>3. IsRootOf(o.nodes, o.node, t)
    BY <1>1, <1>2, RootIs
  <1> QED BY <1>1, <1>2, <1>3, Zenon DEF Holds

(* A node that an operation leaves has its contents and its children. *)
LEMMA RootKept ==
  ASSUME NEW hs, NEW own, Heap(hs, own), NEW o, NEW s, Yields(hs, own, o, s),
         NEW n, InUse(hs, n), NEW t, IsRootOf(hs, n, t)
  PROVE  /\ IsRootOf(o.nodes, n, t)
         /\ o.nodes[n].left = hs[n].left /\ o.nodes[n].right = hs[n].right
  <1> DEFINE ms == o.nodes
  <1>1. n # NULL /\ n \in Live(hs)
    BY DEF IsRootOf
  <1>2. Keeps(hs, ms, n)
    BY YieldsKeeps, Zenon
  <1>3. /\ n \in Live(ms) /\ ms[n].color = hs[n].color /\ ms[n].piece = hs[n].piece
        /\ ms[n].left = hs[n].left /\ ms[n].right = hs[n].right
    BY <1>1, <1>2 DEF Keeps, Kept, InUse
  <1>4. Keeps(hs, ms, hs[n].left) /\ Keeps(hs, ms, hs[n].right)
    BY YieldsKeeps, Zenon DEF IsRootOf
  <1>5. IsRootOf(ms, n, t)
    BY <1>3, <1>4, Zenon DEF IsRootOf, Keeps
  <1> QED BY <1>3, <1>5

LEMMA RotLYields ==
  ASSUME NEW ns, NEW own \in Owned, NEW o, NEW t, Yields(ns, own, o, t), t.kind = "node",
         t.right.kind = "node"
  PROVE  Yields(ns, own, rotate_left_owned(o), RotL(t))
  <1> DEFINE hs == o.nodes
             n == o.node
             r == hs[n].right
             first == Plus(own, n)
             inner == Mk("red", t.left, t.piece, t.right.left)
             l == make_node(hs, "red", hs[n].left, hs[n].piece, hs[r].left)
             ms == l.nodes
             new == make_node(ms, ms[n].color, l.node, ms[r].piece, ms[r].right)
  <1>0. rotate_left_owned(o) = Drop(Drop(new, l.node), n)
    BY Zenon DEF rotate_left_owned, RotatedLeft, Node
  <1>1. Holds(ns, own, o, t, hs, n, first)
    BY YieldsHolds, Zenon
  <1> HIDE DEF hs, n, first
  <1>2. IsRootOf(hs, n, t) /\ InUse(hs, n) /\ Heap(hs, first) /\ first \in Owned /\ WellMade(hs)
    BY <1>1, Zenon DEF Holds
  <1>3. InUse(hs, r) /\ Tree(hs, r) = t.right /\ InUse(hs, hs[n].left)
    BY <1>2, Zenon DEF IsRootOf
  <1>4. IsRootOf(hs, r, t.right)
    BY <1>2, <1>3, RootIs
  <1>5. Yields(hs, first, l, inner)
    <2>1. Yields(hs, first, l, Mk("red", Tree(hs, hs[n].left), hs[n].piece, Tree(hs, hs[r].left)))
      BY <1>2, <1>3, <1>4, ColorsAre, MakeYields, Zenon DEF IsRootOf
    <2> HIDE DEF l
    <2> QED BY <2>1, <1>2, <1>4, Zenon DEF IsRootOf
  <1> HIDE DEF l, inner, r
  <1>6. IsRootOf(ms, n, t) /\ IsRootOf(ms, r, t.right)
    BY <1>2, <1>3, <1>4, <1>5, RootKept
  <1>7. InUse(ms, l.node) /\ Tree(ms, l.node) = inner
    BY <1>2, <1>5, YieldsIs, Zenon
  <1>8. Yields(ns, own, Drop(Drop(new, l.node), n),
               Mk(ms[n].color, Tree(ms, l.node), ms[r].piece, Tree(ms, ms[r].right)))
    BY <1>1, <1>5, <1>6, <1>7, ReplaceYields, Zenon DEF Holds, IsRootOf
  <1>9. RotL(t) = Mk(ms[n].color, Tree(ms, l.node), ms[r].piece, Tree(ms, ms[r].right))
    BY <1>6, <1>7, Zenon DEF RotL, IsRootOf, inner
  <1> HIDE DEF new
  <1>10. Yields(ns, own, Drop(Drop(new, l.node), n), RotL(t))
    BY <1>8, <1>9, Zenon
  <1> QED BY <1>0, <1>10, Zenon DEF hs, n, r, l, new

LEMMA RotRYields ==
  ASSUME NEW ns, NEW own \in Owned, NEW o, NEW t, Yields(ns, own, o, t), t.kind = "node",
         t.left.kind = "node"
  PROVE  Yields(ns, own, rotate_right_owned(o), RotR(t))
  <1> DEFINE hs == o.nodes
             n == o.node
             l == hs[n].left
             first == Plus(own, n)
             inner == Mk("red", t.left.right, t.piece, t.right)
             r == make_node(hs, "red", hs[l].right, hs[n].piece, hs[n].right)
             ms == r.nodes
             new == make_node(ms, ms[n].color, ms[l].left, ms[l].piece, r.node)
  <1>0. rotate_right_owned(o) = Drop(Drop(new, r.node), n)
    BY Zenon DEF rotate_right_owned, RotatedRight, Node
  <1>1. Holds(ns, own, o, t, hs, n, first)
    BY YieldsHolds, Zenon
  <1> HIDE DEF hs, n, first
  <1>2. IsRootOf(hs, n, t) /\ InUse(hs, n) /\ Heap(hs, first) /\ first \in Owned /\ WellMade(hs)
    BY <1>1, Zenon DEF Holds
  <1>3. InUse(hs, l) /\ Tree(hs, l) = t.left /\ InUse(hs, hs[n].right)
    BY <1>2, Zenon DEF IsRootOf
  <1>4. IsRootOf(hs, l, t.left)
    BY <1>2, <1>3, RootIs
  <1>5. Yields(hs, first, r, inner)
    <2>1. Yields(hs, first, r, Mk("red", Tree(hs, hs[l].right), hs[n].piece, Tree(hs, hs[n].right)))
      BY <1>2, <1>3, <1>4, ColorsAre, MakeYields, Zenon DEF IsRootOf
    <2> HIDE DEF r
    <2> QED BY <2>1, <1>2, <1>4, Zenon DEF IsRootOf
  <1> HIDE DEF l, inner, r
  <1>6. IsRootOf(ms, n, t) /\ IsRootOf(ms, l, t.left)
    BY <1>2, <1>3, <1>4, <1>5, RootKept
  <1>7. InUse(ms, r.node) /\ Tree(ms, r.node) = inner
    BY <1>2, <1>5, YieldsIs, Zenon
  <1>8. Yields(ns, own, Drop(Drop(new, r.node), n),
               Mk(ms[n].color, Tree(ms, ms[l].left), ms[l].piece, Tree(ms, r.node)))
    BY <1>1, <1>5, <1>6, <1>7, ReplaceYields, Zenon DEF Holds, IsRootOf
  <1>9. RotR(t) = Mk(ms[n].color, Tree(ms, ms[l].left), ms[l].piece, Tree(ms, r.node))
    BY <1>6, <1>7, Zenon DEF RotR, IsRootOf, inner
  <1> HIDE DEF new
  <1>10. Yields(ns, own, Drop(Drop(new, r.node), n), RotR(t))
    BY <1>8, <1>9, Zenon
  <1> QED BY <1>0, <1>10, Zenon DEF hs, n, r, l, new

LEMMA RecoloredYields ==
  ASSUME NEW hs, NEW own, Heap(hs, own), NEW a, NEW t, IsRootOf(hs, a, t), NEW color \in Colors
  PROVE  Yields(hs, own, Recolored(hs, a, color), Repainted(t, color))
  <1>1. Yields(hs, own, make_node(hs, color, hs[a].left, hs[a].piece, hs[a].right),
               Mk(color, Tree(hs, hs[a].left), hs[a].piece, Tree(hs, hs[a].right)))
    BY MakeYields, Zenon DEF IsRootOf
  <1> QED BY <1>1, Zenon DEF Recolored, Repainted, IsRootOf

LEMMA FlipYields ==
  ASSUME NEW ns, NEW own \in Owned, NEW o, NEW t, Yields(ns, own, o, t), t.kind = "node",
         t.left.kind = "node", t.right.kind = "node"
  PROVE  Yields(ns, own, flip_colors_owned(o), Flip(t))
  <1> DEFINE hs == o.nodes
             n == o.node
             first == Plus(own, n)
             a == hs[n].left
             lt == Repainted(t.left, Flipped(t.left.color))
             left == Recolored(hs, a, Flipped(hs[a].color))
             ms == left.nodes
             second == Plus(first, left.node)
             b == ms[n].right
             rt == Repainted(t.right, Flipped(t.right.color))
             right == Recolored(ms, b, Flipped(ms[b].color))
             rs == right.nodes
             third == Plus(second, right.node)
             new == make_node(rs, Flipped(rs[n].color), left.node, rs[n].piece, right.node)
  <1>0. flip_colors_owned(o) = Drop(Drop(Drop(new, left.node), right.node), n)
    BY Zenon DEF flip_colors_owned, FlippedRight, FlippedParent, Node
  <1>1. Holds(ns, own, o, t, hs, n, first)
    BY YieldsHolds, Zenon
  <1> HIDE DEF hs, n, first
  <1>2. IsRootOf(hs, n, t) /\ InUse(hs, n) /\ Heap(hs, first) /\ first \in Owned /\ WellMade(hs)
    BY <1>1, Zenon DEF Holds
  <1>3. InUse(hs, a) /\ Tree(hs, a) = t.left /\ InUse(hs, hs[n].right) /\ Tree(hs, hs[n].right) = t.right
    BY <1>2, Zenon DEF IsRootOf
  <1>4. IsRootOf(hs, a, t.left) /\ IsRootOf(hs, hs[n].right, t.right)
    BY <1>2, <1>3, RootIs
  <1>5. Yields(hs, first, left, lt)
    <2>1. Flipped(hs[a].color) = Flipped(t.left.color) /\ Flipped(hs[a].color) \in Colors
      BY <1>4, ColorsAre, Zenon DEF IsRootOf
    <2>2. Yields(hs, first, left, Repainted(t.left, Flipped(hs[a].color)))
      BY <2>1, <1>2, <1>4, RecoloredYields, Zenon
    <2> HIDE DEF left
    <2> QED BY <2>1, <2>2, Zenon
  <1> HIDE DEF a, left, lt
  <1>6. /\ Heap(ms, second) /\ second \in Owned /\ Same(hs, ms)
        /\ left.node \in Nat /\ InUse(ms, left.node) /\ Tree(ms, left.node) = lt
    BY <1>2, <1>5, YieldsIs, Zenon
  <1>7. IsRootOf(ms, n, t) /\ IsRootOf(ms, b, t.right)
    <2>1. IsRootOf(ms, n, t) /\ b = hs[n].right
      BY <1>2, <1>5, RootKept
    <2>2. IsRootOf(ms, hs[n].right, t.right)
      BY <1>2, <1>3, <1>4, <1>5, RootKept
    <2> QED BY <2>1, <2>2
  <1>8. Yields(ms, second, right, rt)
    <2>1. Flipped(ms[b].color) = Flipped(t.right.color) /\ Flipped(ms[b].color) \in Colors
      BY <1>7, ColorsAre, Zenon DEF IsRootOf
    <2>2. Yields(ms, second, right, Repainted(t.right, Flipped(ms[b].color)))
      BY <2>1, <1>6, <1>7, RecoloredYields, Zenon
    <2> HIDE DEF right
    <2> QED BY <2>1, <2>2, Zenon
  <1> HIDE DEF b, right, rt, second
  <1>9. /\ Heap(rs, third) /\ third \in Owned /\ Same(ms, rs)
        /\ right.node \in Nat /\ InUse(rs, right.node) /\ Tree(rs, right.node) = rt
    BY <1>6, <1>8, YieldsIs, Zenon
  <1>10. Keeps(ms, rs, left.node)
    BY <1>6, <1>8, YieldsKeeps, Zenon
  <1>11. IsRootOf(rs, n, t)
    <2>1. InUse(ms, n)
      BY <1>7 DEF IsRootOf, InUse
    <2> QED BY <2>1, <1>6, <1>7, <1>8, RootKept
  <1>12. Yields(rs, third, new, Flip(t))
    <2>1. Flipped(rs[n].color) = Flipped(t.color) /\ Flipped(rs[n].color) \in Colors
      BY <1>11, ColorsAre, Zenon DEF IsRootOf
    <2>2. rs[n].piece = t.piece /\ rs[n].piece \in Pieces
      BY <1>11, Zenon DEF IsRootOf
    <2>3. InUse(rs, left.node) /\ Tree(rs, left.node) = lt
      BY <1>6, <1>10, Zenon DEF Keeps
    <2>4. Yields(rs, third, new,
                 Mk(Flipped(rs[n].color), Tree(rs, left.node), rs[n].piece, Tree(rs, right.node)))
      BY <2>1, <2>2, <2>3, <1>9, MakeYields, Zenon
    <2> HIDE DEF new
    <2> QED BY <2>1, <2>2, <2>3, <2>4, <1>9, Zenon DEF Flip, lt, rt
  <1> HIDE DEF new
  <1>13. Same(ns, rs) /\ ns \in Store
    <2>1. hs \in Store /\ ms \in Store /\ rs \in Store /\ ns \in Store /\ Same(ns, hs)
      BY <1>1, <1>6, <1>9, HeapIs DEF Holds
    <2>2. Same(ns, ms)
      BY <2>1, <1>6, SameIsTransitive, Zenon
    <2> QED BY <2>1, <2>2, <1>9, SameIsTransitive, Zenon
  <1>14. Yields(ns, third, new, Flip(t))
    BY <1>9, <1>12, <1>13, YieldsFrom, Zenon
  <1> DEFINE other == Plus(first, right.node)
  <1>15. third = Plus(other, left.node) /\ other \in Owned
    BY <1>2, <1>6, <1>9, PlusCommutes, PlusIs DEF third, second
  <1> HIDE DEF third, other
  <1>16. Yields(ns, other, Drop(new, left.node), Flip(t))
    BY <1>6, <1>14, <1>15, DropYields, Zenon
  <1>17. Yields(ns, first, Drop(Drop(new, left.node), right.node), Flip(t))
    BY <1>2, <1>9, <1>16, DropYields, Zenon DEF other
  <1>18. Yields(ns, own, Drop(Drop(Drop(new, left.node), right.node), n), Flip(t))
    BY <1>1, <1>17, DropYields, Zenon DEF first, Holds
  <1> QED BY <1>0, <1>18, Zenon DEF hs, n, a, b, left, right, new

-----------------------------------------------------------------------------
(* What is done to trees on the way down and on the way up. *)

FixL(t) == IF Red(t.right) /\ ~Red(t.left) THEN RotL(t) ELSE t

FixR(t) == IF Red(t.left) /\ Red(t.left.left) THEN RotR(t) ELSE t

FixF(t) == IF Red(t.left) /\ Red(t.right) THEN Flip(t) ELSE t

FixUp(t) == FixF(FixR(FixL(t)))

BorrowR(t) ==
    IF t.right.kind = "node" /\ Red(t.right.left)
    THEN Flip(RotL(Mk(t.color, t.left, t.piece, RotR(t.right)))) ELSE t

BorrowL(t) ==
    IF t.left.kind = "node" /\ Red(t.left.left) THEN Flip(RotR(t)) ELSE t

Two(t) == t.kind = "node" /\ ~Red(t) /\ ~Red(t.left)

MoveL(t) == IF Two(t.left) THEN BorrowR(Flip(t)) ELSE t

MoveR(t) == IF Two(t.right) THEN BorrowL(Flip(t)) ELSE t

Lean(t) == IF Red(t.left) THEN RotR(t) ELSE t

(* The children of a node as trees, by their colors. *)
LEMMA ChildrenAre ==
  ASSUME NEW hs, WellMade(hs), NEW n, NEW t, IsRootOf(hs, n, t)
  PROVE  /\ node_is_red(hs, hs[n].left) <=> Red(t.left)
         /\ node_is_red(hs, hs[n].right) <=> Red(t.right)
         /\ hs[n].left = NULL <=> t.left.kind = "leaf"
         /\ hs[n].right = NULL <=> t.right.kind = "leaf"
         /\ hs[n].left # NULL => t.left.kind = "node" /\ IsRootOf(hs, hs[n].left, t.left)
         /\ hs[n].right # NULL => t.right.kind = "node" /\ IsRootOf(hs, hs[n].right, t.right)
         /\ t.left.kind \in {"leaf", "node"} /\ t.right.kind \in {"leaf", "node"}
         /\ InUse(hs, hs[n].left) /\ InUse(hs, hs[n].right)
         /\ Red(t.left) => t.left.kind = "node"
         /\ Red(t.right) => t.right.kind = "node"
  <1>1. /\ InUse(hs, hs[n].left) /\ Tree(hs, hs[n].left) = t.left
        /\ InUse(hs, hs[n].right) /\ Tree(hs, hs[n].right) = t.right
    BY DEF IsRootOf
  <1>2. ASSUME NEW a, NEW s, InUse(hs, a), Tree(hs, a) = s
        PROVE  /\ node_is_red(hs, a) <=> Red(s)
               /\ a = NULL <=> s.kind = "leaf"
               /\ a # NULL => s.kind = "node" /\ IsRootOf(hs, a, s)
               /\ s.kind \in {"leaf", "node"}
               /\ Red(s) => s.kind = "node"
    <2>1. CASE a = NULL
      <3>1. s = Leaf
        BY <1>2, <2>1, RootIs
      <3> QED BY <3>1, <2>1, LeafIs DEF node_is_red
    <2>2. CASE a # NULL
      <3>1. IsRootOf(hs, a, s) /\ (node_is_red(hs, a) <=> Red(s))
        BY <1>2, <2>2, RootIs
      <3> QED BY <3>1, <2>2 DEF IsRootOf
    <2> QED BY <2>1, <2>2
  <1> QED BY <1>1, <1>2

LEMMA MkKind == \A c, l, p, r : Mk(c, l, p, r).kind = "node"
  BY DEF Mk

LEMMA RotatedKinds ==
  ASSUME NEW t
  PROVE  /\ RotL(t).kind = "node" /\ RotR(t).kind = "node" /\ Flip(t).kind = "node"
         /\ Flip(t).left.kind = "node" /\ Flip(t).right.kind = "node"
         /\ RotL(t).left.kind = "node" /\ RotR(t).right.kind = "node"
         /\ RotL(t).right = t.right.right /\ RotR(t).left = t.left.left
  <1>1. RotL(t).kind = "node" /\ RotR(t).kind = "node" /\ Flip(t).kind = "node"
    BY MkKind, Zenon DEF RotL, RotR, Flip
  <1>2. \A c, l, p, r : Mk(c, l, p, r).left = l /\ Mk(c, l, p, r).right = r
    BY DEF Mk
  <1>3. Flip(t).left.kind = "node" /\ Flip(t).right.kind = "node"
    BY <1>2, MkKind DEF Flip, Repainted
  <1>4. RotL(t).left.kind = "node" /\ RotR(t).right.kind = "node"
    BY <1>2, MkKind DEF RotL, RotR
  <1>5. RotL(t).right = t.right.right /\ RotR(t).left = t.left.left
    BY <1>2 DEF RotL, RotR
  <1> QED BY <1>1, <1>3, <1>4, <1>5

LEMMA FixLYields ==
  ASSUME NEW ns, NEW own \in Owned, NEW o, NEW t, Yields(ns, own, o, t), t.kind = "node"
  PROVE  Yields(ns, own, RotateLeftIf(o), FixL(t)) /\ FixL(t).kind = "node"
  <1>1. Holds(ns, own, o, t, o.nodes, o.node, Plus(own, o.node))
    BY YieldsHolds, Zenon
  <1>2. /\ node_is_red(o.nodes, Node(o).left) <=> Red(t.left)
        /\ node_is_red(o.nodes, Node(o).right) <=> Red(t.right)
        /\ Red(t.right) => t.right.kind = "node"
    BY <1>1, ChildrenAre DEF Holds, Node
  <1>3. CASE Red(t.right) /\ ~Red(t.left)
    <2>1. Yields(ns, own, rotate_left_owned(o), RotL(t))
      BY <1>2, <1>3, RotLYields, Zenon
    <2>2. RotateLeftIf(o) = rotate_left_owned(o) /\ FixL(t) = RotL(t)
      BY <1>2, <1>3, Zenon DEF RotateLeftIf, FixL
    <2> QED BY <2>1, <2>2, RotatedKinds
  <1>4. CASE ~(Red(t.right) /\ ~Red(t.left))
    <2>1. RotateLeftIf(o) = o /\ FixL(t) = t
      BY <1>2, <1>4, Zenon DEF RotateLeftIf, FixL
    <2> QED BY <2>1
  <1> QED BY <1>3, <1>4

LEMMA FixRYields ==
  ASSUME NEW ns, NEW own \in Owned, NEW o, NEW t, Yields(ns, own, o, t), t.kind = "node"
  PROVE  Yields(ns, own, RotateRightIf(o), FixR(t)) /\ FixR(t).kind = "node"
  <1> DEFINE hs == o.nodes
             l == Node(o).left
  <1>1. Holds(ns, own, o, t, hs, o.node, Plus(own, o.node))
    BY YieldsHolds, Zenon
  <1>2. /\ node_is_red(hs, l) <=> Red(t.left)
        /\ Red(t.left) => t.left.kind = "node"
        /\ l # NULL => IsRootOf(hs, l, t.left)
        /\ t.left.kind = "node" => l # NULL
    BY <1>1, ChildrenAre DEF Holds, Node
  <1>3. Red(t.left) => (node_is_red(hs, hs[l].left) <=> Red(t.left.left))
    BY <1>1, <1>2, ChildrenAre DEF Holds
  <1>4. CASE Red(t.left) /\ Red(t.left.left)
    <2>1. Yields(ns, own, rotate_right_owned(o), RotR(t))
      BY <1>2, <1>4, RotRYields, Zenon
    <2>2. RotateRightIf(o) = rotate_right_owned(o) /\ FixR(t) = RotR(t)
      BY <1>2, <1>3, <1>4, Zenon DEF RotateRightIf, FixR
    <2> QED BY <2>1, <2>2, RotatedKinds
  <1>5. CASE ~(Red(t.left) /\ Red(t.left.left))
    <2>1. RotateRightIf(o) = o /\ FixR(t) = t
      BY <1>2, <1>3, <1>5, Zenon DEF RotateRightIf, FixR
    <2> QED BY <2>1
  <1> QED BY <1>4, <1>5

LEMMA FixFYields ==
  ASSUME NEW ns, NEW own \in Owned, NEW o, NEW t, Yields(ns, own, o, t), t.kind = "node"
  PROVE  Yields(ns, own, FlipIf(o), FixF(t)) /\ FixF(t).kind = "node"
  <1>1. Holds(ns, own, o, t, o.nodes, o.node, Plus(own, o.node))
    BY YieldsHolds, Zenon
  <1>2. /\ node_is_red(o.nodes, Node(o).left) <=> Red(t.left)
        /\ node_is_red(o.nodes, Node(o).right) <=> Red(t.right)
        /\ Red(t.left) => t.left.kind = "node"
        /\ Red(t.right) => t.right.kind = "node"
    BY <1>1, ChildrenAre DEF Holds, Node
  <1>3. CASE Red(t.left) /\ Red(t.right)
    <2>1. Yields(ns, own, flip_colors_owned(o), Flip(t))
      BY <1>2, <1>3, FlipYields, Zenon
    <2>2. FlipIf(o) = flip_colors_owned(o) /\ FixF(t) = Flip(t)
      BY <1>2, <1>3, Zenon DEF FlipIf, FixF
    <2> QED BY <2>1, <2>2, RotatedKinds
  <1>4. CASE ~(Red(t.left) /\ Red(t.right))
    <2>1. FlipIf(o) = o /\ FixF(t) = t
      BY <1>2, <1>4, Zenon DEF FlipIf, FixF
    <2> QED BY <2>1
  <1> QED BY <1>3, <1>4

LEMMA FixUpYields ==
  ASSUME NEW ns, NEW own \in Owned, NEW o, NEW t, Yields(ns, own, o, t), t.kind = "node"
  PROVE  Yields(ns, own, fix_up_owned(o), FixUp(t)) /\ FixUp(t).kind = "node"
  <1>1. Yields(ns, own, RotateLeftIf(o), FixL(t)) /\ FixL(t).kind = "node"
    BY FixLYields, Zenon
  <1>2. /\ Yields(ns, own, RotateRightIf(RotateLeftIf(o)), FixR(FixL(t)))
        /\ FixR(FixL(t)).kind = "node"
    BY <1>1, FixRYields, Zenon
  <1>3. /\ Yields(ns, own, FlipIf(RotateRightIf(RotateLeftIf(o))), FixF(FixR(FixL(t))))
        /\ FixF(FixR(FixL(t))).kind = "node"
    BY <1>2, FixFYields, Zenon
  <1> QED BY <1>3, Zenon DEF fix_up_owned, FixUp

(* The right child with its left one rotated up, and then to the top. *)
LEMMA BorrowRYields ==
  ASSUME NEW ns, NEW own \in Owned, NEW o, NEW t, Yields(ns, own, o, t), t.kind = "node",
         t.left.kind = "node"
  PROVE  Yields(ns, own, BorrowedFromRight(o), BorrowR(t)) /\ BorrowR(t).kind = "node"
  <1> DEFINE hs == o.nodes
             n == o.node
             r == hs[n].right
             first == Plus(own, n)
             c == Copy(hs, r)
             x == rotate_right_owned(c)
             y == WithRight(n, x)
  <1>1. Holds(ns, own, o, t, hs, n, first)
    BY YieldsHolds, Zenon
  <1> HIDE DEF hs, n, first
  <1>2. IsRootOf(hs, n, t) /\ InUse(hs, n) /\ Heap(hs, first) /\ first \in Owned /\ WellMade(hs)
    BY <1>1, Zenon DEF Holds
  <1>3. /\ r # NULL <=> t.right.kind = "node"
        /\ r # NULL => IsRootOf(hs, r, t.right)
    BY <1>2, ChildrenAre
  <1>4. r # NULL => (node_is_red(hs, hs[r].left) <=> Red(t.right.left))
    BY <1>2, <1>3, ChildrenAre
  <1>5. BorrowedFromRight(o) = IF r # NULL /\ node_is_red(hs, hs[r].left)
                               THEN flip_colors_owned(rotate_left_owned(y)) ELSE o
    BY Zenon DEF BorrowedFromRight, Node, hs, n
  <1>6. CASE t.right.kind = "node" /\ Red(t.right.left)
    <2>1. IsRootOf(hs, r, t.right) /\ t.right.left.kind = "node"
      BY <1>2, <1>3, <1>6, ChildrenAre
    <2>2. Yields(hs, first, c, t.right)
      <3>1. Yields(hs, first, make_node(hs, hs[r].color, hs[r].left, hs[r].piece, hs[r].right),
                   Mk(hs[r].color, Tree(hs, hs[r].left), hs[r].piece, Tree(hs, hs[r].right)))
        BY <1>2, <2>1, MakeYields, Zenon DEF IsRootOf
      <3>2. c = make_node(hs, hs[r].color, hs[r].left, hs[r].piece, hs[r].right)
        BY Zenon DEF Copy, WithChildren
      <3>3. t.right = Mk(hs[r].color, Tree(hs, hs[r].left), hs[r].piece, Tree(hs, hs[r].right))
        BY <2>1, Zenon DEF IsRootOf
      <3> HIDE DEF c
      <3> QED BY <3>1, <3>2, <3>3, Zenon
    <2> HIDE DEF c, r
    <2>3. Yields(hs, first, x, RotR(t.right))
      BY <1>2, <1>6, <2>1, <2>2, RotRYields, Zenon
    <2> HIDE DEF x
    <2>4. IsRootOf(x.nodes, n, t)
      BY <1>2, <2>3, RootKept
    <2>5. InUse(x.nodes, x.node) /\ Tree(x.nodes, x.node) = RotR(t.right)
      BY <1>2, <2>3, YieldsIs, Zenon
    <2> DEFINE s == Mk(t.color, t.left, t.piece, RotR(t.right))
               new == make_node(x.nodes, x.nodes[n].color, x.nodes[n].left, x.nodes[n].piece, x.node)
    <2>6. y = Drop(Drop(new, x.node), n)
      BY Zenon DEF WithRight, WithChildren
    <2>7. Yields(ns, own, y, s)
      <3>1. Yields(ns, own, Drop(Drop(new, x.node), n),
                   Mk(x.nodes[n].color, Tree(x.nodes, x.nodes[n].left), x.nodes[n].piece,
                      Tree(x.nodes, x.node)))
        BY <1>1, <2>3, <2>4, <2>5, ReplaceYields, Zenon DEF Holds, IsRootOf
      <3>2. s = Mk(x.nodes[n].color, Tree(x.nodes, x.nodes[n].left), x.nodes[n].piece,
                   Tree(x.nodes, x.node))
        BY <2>4, <2>5, Zenon DEF IsRootOf
      <3> HIDE DEF y, s, new
      <3> QED BY <2>6, <3>1, <3>2, Zenon
    <2>8. s.kind = "node" /\ s.right = RotR(t.right) /\ s.left = t.left
      BY DEF Mk
    <2>9. s.right.kind = "node" /\ RotL(s).left.kind = "node" /\ RotL(s).right.kind = "node"
      <3>1. RotL(s).right = RotR(t.right).right
        BY <2>8, RotatedKinds
      <3> QED BY <3>1, <2>8, RotatedKinds
    <2> HIDE DEF y, s
    <2>10. Yields(ns, own, rotate_left_owned(y), RotL(s))
      BY <2>7, <2>8, <2>9, RotLYields, Zenon
    <2>11. RotL(s).kind = "node"
      BY RotatedKinds
    <2>12. Yields(ns, own, flip_colors_owned(rotate_left_owned(y)), Flip(RotL(s)))
      BY <2>9, <2>10, <2>11, FlipYields, Zenon
    <2>13. BorrowedFromRight(o) = flip_colors_owned(rotate_left_owned(y))
      BY <1>3, <1>4, <1>5, <1>6, Zenon DEF r
    <2>14. BorrowR(t) = Flip(RotL(s))
      BY <1>6, Zenon DEF BorrowR, s
    <2> QED BY <2>12, <2>13, <2>14, RotatedKinds
  <1>7. CASE ~(t.right.kind = "node" /\ Red(t.right.left))
    <2>1. BorrowedFromRight(o) = o /\ BorrowR(t) = t
      <3> HIDE DEF y
      <3> QED BY <1>3, <1>4, <1>5, <1>7, Zenon DEF BorrowR
    <2> QED BY <2>1
  <1> QED BY <1>6, <1>7

LEMMA BorrowLYields ==
  ASSUME NEW ns, NEW own \in Owned, NEW o, NEW t, Yields(ns, own, o, t), t.kind = "node",
         t.right.kind = "node"
  PROVE  Yields(ns, own, BorrowedFromLeft(o), BorrowL(t)) /\ BorrowL(t).kind = "node"
  <1> DEFINE hs == o.nodes
             l == Node(o).left
  <1>1. Holds(ns, own, o, t, hs, o.node, Plus(own, o.node))
    BY YieldsHolds, Zenon
  <1>2. /\ l # NULL <=> t.left.kind = "node"
        /\ l # NULL => IsRootOf(hs, l, t.left)
    BY <1>1, ChildrenAre DEF Holds, Node
  <1>3. l # NULL => /\ node_is_red(hs, hs[l].left) <=> Red(t.left.left)
                    /\ Red(t.left.left) => t.left.left.kind = "node"
    BY <1>1, <1>2, ChildrenAre DEF Holds
  <1>4. CASE t.left.kind = "node" /\ Red(t.left.left)
    <2>1. Yields(ns, own, rotate_right_owned(o), RotR(t))
      BY <1>4, RotRYields, Zenon
    <2>2. RotR(t).kind = "node" /\ RotR(t).left.kind = "node" /\ RotR(t).right.kind = "node"
      <3>1. RotR(t).left = t.left.left
        BY RotatedKinds
      <3> QED BY <3>1, <1>2, <1>3, <1>4, RotatedKinds
    <2>3. Yields(ns, own, flip_colors_owned(rotate_right_owned(o)), Flip(RotR(t)))
      BY <2>1, <2>2, FlipYields, Zenon
    <2>4. BorrowedFromLeft(o) = flip_colors_owned(rotate_right_owned(o)) /\ BorrowL(t) = Flip(RotR(t))
      BY <1>2, <1>3, <1>4, Zenon DEF BorrowedFromLeft, BorrowL
    <2> QED BY <2>3, <2>4, RotatedKinds
  <1>5. CASE ~(t.left.kind = "node" /\ Red(t.left.left))
    <2>1. BorrowedFromLeft(o) = o /\ BorrowL(t) = t
      BY <1>2, <1>3, <1>5, Zenon DEF BorrowedFromLeft, BorrowL
    <2> QED BY <2>1
  <1> QED BY <1>4, <1>5

LEMMA TwoIs ==
  ASSUME NEW hs, WellMade(hs), NEW a, InUse(hs, a), NEW t, Tree(hs, a) = t
  PROVE  TwoNode(hs, a) <=> Two(t)
  <1>1. CASE a = NULL
    BY <1>1, RootIs, LeafIs DEF TwoNode, Two
  <1>2. CASE a # NULL
    <2>1. IsRootOf(hs, a, t) /\ (node_is_red(hs, a) <=> Red(t))
      BY <1>2, RootIs
    <2>2. node_is_red(hs, hs[a].left) <=> Red(t.left)
      BY <2>1, ChildrenAre
    <2>3. t.kind = "node"
      BY <2>1, Zenon DEF IsRootOf
    <2> QED BY <1>2, <2>1, <2>2, <2>3, Zenon DEF TwoNode, Two
  <1> QED BY <1>1, <1>2

LEMMA TwoKind == \A t : Two(t) => t.kind = "node"
  BY DEF Two

LEMMA MoveLYields ==
  ASSUME NEW ns, NEW own \in Owned, NEW o, NEW t, Yields(ns, own, o, t), t.kind = "node",
         Two(t.left) => t.right.kind = "node"
  PROVE  Yields(ns, own, MoveRedLeftIf(o), MoveL(t)) /\ MoveL(t).kind = "node"
  <1> DEFINE hs == o.nodes
  <1>1. Holds(ns, own, o, t, hs, o.node, Plus(own, o.node))
    BY YieldsHolds, Zenon
  <1>2. TwoNode(hs, Node(o).left) <=> Two(t.left)
    BY <1>1, TwoIs DEF Holds, IsRootOf, Node
  <1>3. CASE Two(t.left)
    <2>1. t.left.kind = "node" /\ t.right.kind = "node"
      BY <1>3, TwoKind
    <2>2. Yields(ns, own, flip_colors_owned(o), Flip(t))
      BY <2>1, FlipYields, Zenon
    <2>3. Flip(t).kind = "node" /\ Flip(t).left.kind = "node"
      BY RotatedKinds
    <2>4. /\ Yields(ns, own, BorrowedFromRight(flip_colors_owned(o)), BorrowR(Flip(t)))
          /\ BorrowR(Flip(t)).kind = "node"
      BY <2>2, <2>3, BorrowRYields, Zenon
    <2> QED BY <1>2, <1>3, <2>4, Zenon DEF MoveRedLeftIf, move_red_left_owned, MoveL
  <1>4. CASE ~Two(t.left)
    <2>1. MoveRedLeftIf(o) = o /\ MoveL(t) = t
      BY <1>2, <1>4, Zenon DEF MoveRedLeftIf, MoveL
    <2> QED BY <2>1
  <1> QED BY <1>3, <1>4

LEMMA MoveRYields ==
  ASSUME NEW ns, NEW own \in Owned, NEW o, NEW t, Yields(ns, own, o, t), t.kind = "node",
         Two(t.right) => t.left.kind = "node", NEW offset
  PROVE  Yields(ns, own, PreparedRight(o, offset), MoveR(t)) /\ MoveR(t).kind = "node"
  <1> DEFINE hs == o.nodes
  <1>1. Holds(ns, own, o, t, hs, o.node, Plus(own, o.node))
    BY YieldsHolds, Zenon
  <1>2. TwoNode(hs, Node(o).right) <=> Two(t.right)
    BY <1>1, TwoIs DEF Holds, IsRootOf, Node
  <1>3. Node(o).right = NULL => ~Two(t.right)
    <2>1. Node(o).right = NULL => ~TwoNode(hs, Node(o).right)
      BY DEF TwoNode
    <2> QED BY <2>1, <1>2
  <1>4. CASE Two(t.right)
    <2>1. t.left.kind = "node" /\ t.right.kind = "node"
      BY <1>4, TwoKind
    <2>2. Yields(ns, own, flip_colors_owned(o), Flip(t))
      BY <2>1, FlipYields, Zenon
    <2>3. Flip(t).kind = "node" /\ Flip(t).right.kind = "node"
      BY RotatedKinds
    <2>4. /\ Yields(ns, own, BorrowedFromLeft(flip_colors_owned(o)), BorrowL(Flip(t)))
          /\ BorrowL(Flip(t)).kind = "node"
      BY <2>2, <2>3, BorrowLYields, Zenon
    <2> QED BY <1>2, <1>3, <1>4, <2>4, Zenon
            DEF PreparedRight, IsLast, MoveRedRightIf, move_red_right_owned, MoveR
  <1>5. CASE ~Two(t.right)
    <2>1. PreparedRight(o, offset) = o /\ MoveR(t) = t
      BY <1>2, <1>5, Zenon DEF PreparedRight, MoveRedRightIf, MoveR
    <2> QED BY <2>1
  <1> QED BY <1>4, <1>5

LEMMA LeanYields ==
  ASSUME NEW ns, NEW own \in Owned, NEW o, NEW t, Yields(ns, own, o, t), t.kind = "node"
  PROVE  Yields(ns, own, LeanRight(o), Lean(t)) /\ Lean(t).kind = "node"
  <1>1. Holds(ns, own, o, t, o.nodes, o.node, Plus(own, o.node))
    BY YieldsHolds, Zenon
  <1>2. /\ node_is_red(o.nodes, Node(o).left) <=> Red(t.left)
        /\ Red(t.left) => t.left.kind = "node"
    BY <1>1, ChildrenAre DEF Holds, Node
  <1>3. CASE Red(t.left)
    <2>1. Yields(ns, own, rotate_right_owned(o), RotR(t))
      BY <1>2, <1>3, RotRYields, Zenon
    <2>2. LeanRight(o) = rotate_right_owned(o) /\ Lean(t) = RotR(t)
      BY <1>2, <1>3, Zenon DEF LeanRight, Lean
    <2> QED BY <2>1, <2>2, RotatedKinds
  <1>4. CASE ~Red(t.left)
    <2>1. LeanRight(o) = o /\ Lean(t) = t
      BY <1>2, <1>4, Zenon DEF LeanRight, Lean
    <2> QED BY <2>1
  <1> QED BY <1>3, <1>4

(* A copy that shares its children. *)
LEMMA CopyYields ==
  ASSUME NEW hs, NEW own, Heap(hs, own), NEW a, NEW t, IsRootOf(hs, a, t)
  PROVE  Yields(hs, own, Copy(hs, a), t)
  <1>1. Yields(hs, own, make_node(hs, hs[a].color, hs[a].left, hs[a].piece, hs[a].right),
               Mk(hs[a].color, Tree(hs, hs[a].left), hs[a].piece, Tree(hs, hs[a].right)))
    BY MakeYields, Zenon DEF IsRootOf
  <1>2. Copy(hs, a) = make_node(hs, hs[a].color, hs[a].left, hs[a].piece, hs[a].right)
    BY Zenon DEF Copy, WithChildren
  <1>3. t = Mk(hs[a].color, Tree(hs, hs[a].left), hs[a].piece, Tree(hs, hs[a].right))
    BY Zenon DEF IsRootOf
  <1> QED BY <1>1, <1>2, <1>3, Zenon

(* A node with a child that an operation yields, rebalanced. *)
RejoinedL(t, s) == FixUp(Mk(t.color, s, t.piece, t.right))

RejoinedR(t, s) == FixUp(Mk(t.color, t.left, t.piece, s))

LEMMA RebuiltYields ==
  ASSUME NEW ns \in Store, NEW own \in Owned, NEW hs, Same(ns, hs), NEW n \in Nat,
         NEW drop \in BOOLEAN, NEW d, d = IF drop THEN n ELSE NULL, Heap(hs, Plus(own, d)),
         NEW t, IsRootOf(hs, n, t), NEW o, NEW s, Yields(hs, Plus(own, d), o, s)
  PROVE  /\ Yields(ns, own, RebuiltLeft(n, o, drop), RejoinedL(t, s))
         /\ Yields(ns, own, RebuiltRight(n, o, drop), RejoinedR(t, s))
  <1> DEFINE ms == o.nodes
             left == make_node(ms, ms[n].color, o.node, ms[n].piece, ms[n].right)
             right == make_node(ms, ms[n].color, ms[n].left, ms[n].piece, o.node)
  <1>1. d \in Nat /\ Plus(own, d) \in Owned
    <2>1. d \in Nat
      BY DEF NULL
    <2> QED BY <2>1, PlusIs
  <1>2. IsRootOf(ms, n, t)
    <2>1. InUse(hs, n)
      BY DEF IsRootOf, InUse
    <2> QED BY <2>1, RootKept
  <1>3. InUse(ms, o.node) /\ Tree(ms, o.node) = s
    BY <1>1, YieldsIs, Zenon
  <1>4. Yields(ns, own, Drop(Drop(left, o.node), d), Mk(t.color, s, t.piece, t.right))
    <2>1. Yields(ns, own, Drop(Drop(left, o.node), d),
                 Mk(ms[n].color, Tree(ms, o.node), ms[n].piece, Tree(ms, ms[n].right)))
      BY <1>1, <1>2, <1>3, ReplaceYields, Zenon DEF IsRootOf
    <2>2. Mk(ms[n].color, Tree(ms, o.node), ms[n].piece, Tree(ms, ms[n].right))
            = Mk(t.color, s, t.piece, t.right)
      BY <1>2, <1>3, Zenon DEF IsRootOf
    <2> HIDE DEF left
    <2> QED BY <2>1, <2>2, Zenon
  <1>5. Yields(ns, own, Drop(Drop(right, o.node), d), Mk(t.color, t.left, t.piece, s))
    <2>1. Yields(ns, own, Drop(Drop(right, o.node), d),
                 Mk(ms[n].color, Tree(ms, ms[n].left), ms[n].piece, Tree(ms, o.node)))
      BY <1>1, <1>2, <1>3, ReplaceYields, Zenon DEF IsRootOf
    <2>2. Mk(ms[n].color, Tree(ms, ms[n].left), ms[n].piece, Tree(ms, o.node))
            = Mk(t.color, t.left, t.piece, s)
      BY <1>2, <1>3, Zenon DEF IsRootOf
    <2> HIDE DEF right
    <2> QED BY <2>1, <2>2, Zenon
  <1>6. RebuiltLeft(n, o, drop) = fix_up_owned(Drop(Drop(left, o.node), d))
    BY Zenon DEF RebuiltLeft, Rebuilt, WithChildren
  <1>7. RebuiltRight(n, o, drop) = fix_up_owned(Drop(Drop(right, o.node), d))
    BY Zenon DEF RebuiltRight, Rebuilt, WithChildren
  <1> HIDE DEF left, right
  <1> DEFINE lo == Drop(Drop(left, o.node), d)
             lt == Mk(t.color, s, t.piece, t.right)
             ro == Drop(Drop(right, o.node), d)
             rt == Mk(t.color, t.left, t.piece, s)
  <1>10. lt.kind = "node" /\ rt.kind = "node"
    BY MkKind, Zenon
  <1>11. RejoinedL(t, s) = FixUp(lt) /\ RejoinedR(t, s) = FixUp(rt)
    BY Zenon DEF RejoinedL, RejoinedR
  <1> HIDE DEF lo, lt, ro, rt
  <1>8. Yields(ns, own, fix_up_owned(lo), FixUp(lt))
    BY <1>4, <1>10, FixUpYields, Zenon DEF lo, lt
  <1>9. Yields(ns, own, fix_up_owned(ro), FixUp(rt))
    BY <1>5, <1>10, FixUpYields, Zenon DEF ro, rt
  <1> QED BY <1>6, <1>7, <1>8, <1>9, <1>11, Zenon DEF lo, ro

-----------------------------------------------------------------------------
(* The values of trees *)

(* Pieces by their offsets, one behind the other. *)
GoodValue(v) ==
    /\ v = [pieces |-> v.pieces, length |-> v.length, lf_count |-> v.lf_count]
    /\ v.length \in Nat /\ v.lf_count \in Nat
    /\ v.pieces \in [DOMAIN v.pieces -> Pieces]
    /\ DOMAIN v.pieces \subseteq Nat
    /\ \A s \in DOMAIN v.pieces : s + v.pieces[s].length <= v.length
    /\ \A s, t \in DOMAIN v.pieces : s < t => s + v.pieces[s].length <= t
    /\ v.length # 0 => 0 \in DOMAIN v.pieces

LEMMA NothingIsGood == GoodValue(Nothing) /\ DOMAIN Nothing.pieces = {} /\ Nothing.length = 0
  <1>1. DOMAIN << >> = {} /\ << >> = [s \in {} |-> s]
    OBVIOUS
  <1>2. Nothing.pieces = << >> /\ Nothing.length = 0 /\ Nothing.lf_count = 0
    BY DEF Nothing
  <1>3. Nothing.pieces \in [DOMAIN Nothing.pieces -> Pieces]
    BY <1>1, <1>2
  <1> QED BY <1>1, <1>2, <1>3 DEF GoodValue, Nothing

LEMMA PieceIs ==
  ASSUME NEW p \in Pieces
  PROVE  p.length \in Nat /\ p.length # 0 /\ p.length > 0 /\ p.newline_count \in Nat
  BY TreeAssumption

(* A record of pieces by their offsets. *)
IsValue(v) ==
    /\ v = [pieces |-> v.pieces, length |-> v.length, lf_count |-> v.lf_count]
    /\ v.pieces = [s \in DOMAIN v.pieces |-> v.pieces[s]]

LEMMA GoodIsValue ==
  ASSUME NEW v, GoodValue(v)
  PROVE  IsValue(v)
  <1>1. v.pieces = [s \in DOMAIN v.pieces |-> v.pieces[s]]
    BY DEF GoodValue
  <1> QED BY <1>1, Zenon DEF GoodValue, IsValue

LEMMA ValuesEqual ==
  ASSUME NEW u, IsValue(u), NEW v, IsValue(v), u.length = v.length, u.lf_count = v.lf_count,
         DOMAIN u.pieces = DOMAIN v.pieces, \A s \in DOMAIN u.pieces : u.pieces[s] = v.pieces[s]
  PROVE  u = v
  <1>1. u.pieces = v.pieces
    BY DEF IsValue
  <1> QED BY <1>1, Zenon DEF IsValue

(* What a value is made of, in the parts that are joined. *)
IsJoined(v, l, p, r) ==
    /\ v.length = l.length + p.length + r.length
    /\ v.lf_count = l.lf_count + p.newline_count + r.lf_count
    /\ \A s : s \in DOMAIN v.pieces <=>
                 \/ s \in DOMAIN l.pieces
                 \/ s = l.length
                 \/ \E t \in DOMAIN r.pieces : s = l.length + p.length + t
    /\ \A s \in DOMAIN l.pieces : s < l.length /\ v.pieces[s] = l.pieces[s]
    /\ v.pieces[l.length] = p
    /\ \A t \in DOMAIN r.pieces : v.pieces[l.length + p.length + t] = r.pieces[t]

LEMMA StartsBefore ==
  ASSUME NEW v, GoodValue(v), NEW s \in DOMAIN v.pieces
  PROVE  /\ s \in Nat /\ s < v.length /\ v.pieces[s] \in Pieces
         /\ s + v.pieces[s].length <= v.length
  <1>1. s \in Nat /\ v.pieces[s] \in Pieces /\ s + v.pieces[s].length <= v.length /\ v.length \in Nat
    BY DEF GoodValue
  <1>2. v.pieces[s].length \in Nat \ {0}
    BY <1>1, PieceIs
  <1>3. s < v.length
    BY <1>1, <1>2
  <1> QED BY <1>1, <1>3

LEMMA JoinedIs ==
  ASSUME NEW l, GoodValue(l), NEW p \in Pieces, NEW r, GoodValue(r),
         NEW v, v = JoinedValue(l, p, r)
  PROVE  IsJoined(v, l, p, r) /\ GoodValue(v) /\ v.length # 0
  <1> DEFINE h == l.length
             k == p.length
             b == h + k
             D == DOMAIN l.pieces \cup {h} \cup {b + t : t \in DOMAIN r.pieces}
             f(s) == IF s < h THEN l.pieces[s] ELSE IF s = h THEN p ELSE r.pieces[s - b]
  <1>1. /\ h \in Nat /\ k \in Nat /\ k > 0 /\ b \in Nat
        /\ r.length \in Nat /\ l.lf_count \in Nat /\ r.lf_count \in Nat /\ p.newline_count \in Nat
    BY PieceIs DEF GoodValue
  <1>2. /\ v = [pieces |-> v.pieces, length |-> v.length, lf_count |-> v.lf_count]
        /\ v.pieces = [s \in D |-> f(s)]
        /\ v.length = h + k + r.length
        /\ v.lf_count = l.lf_count + p.newline_count + r.lf_count
    BY DEF JoinedValue, Joined
  <1> HIDE DEF f
  <1>3. DOMAIN v.pieces = D /\ \A s \in D : v.pieces[s] = f(s)
    BY <1>2
  <1>4. \A s \in DOMAIN l.pieces : /\ s \in D /\ s \in Nat /\ s < h /\ f(s) = l.pieces[s]
                                   /\ l.pieces[s] \in Pieces /\ s + l.pieces[s].length <= h
    BY <1>1, StartsBefore DEF f
  <1>5. h \in D /\ f(h) = p
    BY <1>1 DEF f
  <1>6. \A t \in DOMAIN r.pieces : /\ b + t \in D /\ t \in Nat /\ f(b + t) = r.pieces[t]
                                   /\ r.pieces[t] \in Pieces /\ t + r.pieces[t].length <= r.length
    <2> SUFFICES ASSUME NEW t \in DOMAIN r.pieces
                 PROVE  /\ b + t \in D /\ t \in Nat /\ f(b + t) = r.pieces[t]
                        /\ r.pieces[t] \in Pieces /\ t + r.pieces[t].length <= r.length
      OBVIOUS
    <2>1. t \in Nat /\ r.pieces[t] \in Pieces /\ t + r.pieces[t].length <= r.length
      BY StartsBefore
    <2>2. ~(b + t < h) /\ b + t # h /\ (b + t) - b = t
      BY <2>1, <1>1
    <2>3. f(b + t) = r.pieces[t]
      <3> DEFINE x == b + t
                 y == x - b
      <3>1. ~(x < h) /\ x # h /\ y = t
        BY <2>2, Zenon
      <3>2. f(x) = IF x < h THEN l.pieces[x] ELSE IF x = h THEN p ELSE r.pieces[y]
        BY Zenon DEF f
      <3> HIDE DEF x, y
      <3>3. f(x) = r.pieces[t]
        BY <3>1, <3>2
      <3> QED BY <3>3 DEF x
    <2> QED BY <2>1, <2>3
  <1>7. IsJoined(v, l, p, r)
    BY <1>2, <1>3, <1>4, <1>5, <1>6 DEF IsJoined
  <1>8. ASSUME NEW s \in D
        PROVE  /\ s \in Nat /\ v.pieces[s] \in Pieces /\ s + v.pieces[s].length <= v.length
               /\ \A t \in D : s < t => s + v.pieces[s].length <= t
    <2>1. CASE s \in DOMAIN l.pieces
      <3>1. /\ s \in Nat /\ s < h /\ v.pieces[s] = l.pieces[s] /\ v.pieces[s] \in Pieces
            /\ s + v.pieces[s].length <= h /\ v.pieces[s].length \in Nat
        BY <2>1, <1>3, <1>4, PieceIs
      <3>2. ASSUME NEW t \in D, s < t PROVE s + v.pieces[s].length <= t
        <4>1. CASE t \in DOMAIN l.pieces
          <5>1. s + l.pieces[s].length <= t
            BY <2>1, <3>2, <4>1 DEF GoodValue
          <5> QED BY <3>1, <5>1
        <4>2. CASE t = h
          BY <3>1, <4>2
        <4>3. CASE \E u \in DOMAIN r.pieces : t = b + u
          BY <3>1, <4>3, <1>1, <1>6
        <4> QED BY <4>1, <4>2, <4>3
      <3> QED BY <3>1, <3>2, <1>1, <1>2
    <2>2. CASE s = h
      <3>1. v.pieces[s] = p
        BY <2>2, <1>3, <1>5
      <3>2. ASSUME NEW t \in D, s < t PROVE s + k <= t
        <4>1. t \notin DOMAIN l.pieces /\ t # h
          BY <2>2, <3>2, <1>1, <1>4
        <4>2. PICK u \in DOMAIN r.pieces : t = b + u
          BY <4>1
        <4> QED BY <4>2, <2>2, <1>1, <1>6
      <3> QED BY <2>2, <3>1, <3>2, <1>1, <1>2
    <2>3. CASE \E t \in DOMAIN r.pieces : s = b + t
      <3>1. PICK t \in DOMAIN r.pieces : s = b + t
        BY <2>3
      <3>2. /\ t \in Nat /\ v.pieces[s] = r.pieces[t] /\ v.pieces[s] \in Pieces
            /\ v.pieces[s].length \in Nat /\ t + v.pieces[s].length <= r.length
        BY <3>1, <1>3, <1>6, PieceIs
      <3>3. ASSUME NEW x \in D, s < x PROVE s + v.pieces[s].length <= x
        <4>1. x \notin DOMAIN l.pieces /\ x # h
          BY <3>1, <3>2, <3>3, <1>1, <1>4
        <4>2. PICK u \in DOMAIN r.pieces : x = b + u
          BY <4>1
        <4>3. u \in Nat /\ t < u
          BY <4>2, <3>1, <3>2, <3>3, <1>1, <1>6
        <4>4. t + r.pieces[t].length <= u
          BY <4>3 DEF GoodValue
        <4> DEFINE z == v.pieces[s].length
        <4>5. z \in Nat /\ t + z <= u
          BY <3>2, <4>4
        <4> HIDE DEF z
        <4>6. b + t + z <= b + u
          BY <4>5, <4>3, <3>2, <1>1
        <4> QED BY <4>2, <4>6, <3>1 DEF z
      <3> DEFINE z == v.pieces[s].length
      <3>4. z \in Nat /\ t + z <= r.length
        BY <3>2
      <3> HIDE DEF z
      <3>5. b + t + z <= h + k + r.length
        BY <3>2, <3>4, <1>1
      <3>6. s + v.pieces[s].length <= v.length
        BY <3>1, <3>5, <1>2 DEF z
      <3> QED BY <3>1, <3>2, <3>3, <3>6, <1>1
    <2> QED BY <2>1, <2>2, <2>3
  <1>9. 0 \in D
    <2>1. CASE h = 0
      BY <2>1
    <2>2. CASE h # 0
      BY <2>2, <1>4 DEF GoodValue
    <2> QED BY <2>1, <2>2
  <1> HIDE DEF D
  <1>10. v.pieces \in [DOMAIN v.pieces -> Pieces]
    <2>1. v.pieces = [s \in D |-> f(s)] /\ \A s \in D : f(s) \in Pieces
      BY <1>2, <1>3, <1>8
    <2> QED BY <2>1
  <1>11. v.length \in Nat /\ v.lf_count \in Nat /\ v.length # 0
    BY <1>1, <1>2
  <1>12. GoodValue(v)
    BY <1>2, <1>3, <1>8, <1>9, <1>10, <1>11 DEF GoodValue
  <1> QED BY <1>7, <1>11, <1>12

(* Three parts with two pieces between them, whichever are joined first. *)
LEMMA JoinedAssociative ==
  ASSUME NEW a, GoodValue(a), NEW p \in Pieces, NEW b, GoodValue(b), NEW q \in Pieces,
         NEW c, GoodValue(c)
  PROVE  JoinedValue(JoinedValue(a, p, b), q, c) = JoinedValue(a, p, JoinedValue(b, q, c))
  <1> DEFINE m == JoinedValue(a, p, b)
             n == JoinedValue(b, q, c)
             u == JoinedValue(m, q, c)
             v == JoinedValue(a, p, n)
             la == a.length
             lb == b.length
             lc == c.length
             lp == p.length
             lq == q.length
  <1>1. IsJoined(m, a, p, b) /\ GoodValue(m)
    BY JoinedIs, Zenon
  <1>2. IsJoined(n, b, q, c) /\ GoodValue(n)
    BY JoinedIs, Zenon
  <1> HIDE DEF m, n
  <1>3. IsJoined(u, m, q, c) /\ GoodValue(u)
    BY <1>1, JoinedIs, Zenon
  <1>4. IsJoined(v, a, p, n) /\ GoodValue(v)
    BY <1>2, JoinedIs, Zenon
  <1> HIDE DEF u, v
  <1>5. /\ la \in Nat /\ lb \in Nat /\ lc \in Nat /\ lp \in Nat /\ lq \in Nat
        /\ a.lf_count \in Nat /\ b.lf_count \in Nat /\ c.lf_count \in Nat
        /\ p.newline_count \in Nat /\ q.newline_count \in Nat
    BY PieceIs DEF GoodValue
  <1>6. /\ \A s \in DOMAIN a.pieces : s \in Nat
        /\ \A s \in DOMAIN b.pieces : s \in Nat
        /\ \A s \in DOMAIN c.pieces : s \in Nat
    BY DEF GoodValue
  <1>7. /\ m.length = la + lp + lb /\ n.length = lb + lq + lc
        /\ u.length = m.length + lq + lc /\ v.length = la + lp + n.length
        /\ m.lf_count = a.lf_count + p.newline_count + b.lf_count
        /\ n.lf_count = b.lf_count + q.newline_count + c.lf_count
        /\ u.lf_count = m.lf_count + q.newline_count + c.lf_count
        /\ v.lf_count = a.lf_count + p.newline_count + n.lf_count
    BY <1>1, <1>2, <1>3, <1>4 DEF IsJoined
  <1>8. u.length = v.length /\ u.lf_count = v.lf_count
    BY <1>5, <1>7
  <1> HIDE DEF la, lb, lc, lp, lq
  <1>9. \A s \in DOMAIN a.pieces :
           /\ s \in DOMAIN u.pieces /\ s \in DOMAIN v.pieces /\ u.pieces[s] = v.pieces[s]
    BY <1>1, <1>3, <1>4 DEF IsJoined
  <1>10. la \in DOMAIN u.pieces /\ la \in DOMAIN v.pieces /\ u.pieces[la] = v.pieces[la]
    BY <1>1, <1>3, <1>4 DEF IsJoined, la
  <1>11. \A t \in DOMAIN b.pieces :
            LET s == la + lp + t
            IN  s \in DOMAIN u.pieces /\ s \in DOMAIN v.pieces /\ u.pieces[s] = v.pieces[s]
    BY <1>1, <1>2, <1>3, <1>4 DEF IsJoined, la, lp
  <1>12. LET s == m.length
         IN  s \in DOMAIN u.pieces /\ s \in DOMAIN v.pieces /\ u.pieces[s] = v.pieces[s]
    <2>1. m.length = la + lp + lb /\ lb \in DOMAIN n.pieces /\ n.pieces[lb] = q
      BY <1>2, <1>7 DEF IsJoined, lb
    <2>2. m.length \in DOMAIN v.pieces /\ v.pieces[m.length] = q
      BY <2>1, <1>4 DEF IsJoined, la, lp
    <2>3. m.length \in DOMAIN u.pieces /\ u.pieces[m.length] = q
      BY <1>3 DEF IsJoined
    <2> QED BY <2>2, <2>3
  <1>13. \A t \in DOMAIN c.pieces :
            LET s == m.length + lq + t
            IN  s \in DOMAIN u.pieces /\ s \in DOMAIN v.pieces /\ u.pieces[s] = v.pieces[s]
    <2> SUFFICES ASSUME NEW t \in DOMAIN c.pieces
                 PROVE  LET s == m.length + lq + t
                        IN  s \in DOMAIN u.pieces /\ s \in DOMAIN v.pieces /\ u.pieces[s] = v.pieces[s]
      OBVIOUS
    <2> DEFINE s == m.length + lq + t
               x == lb + lq + t
    <2>1. s = la + lp + x
      BY <1>5, <1>6, <1>7
    <2>2. x \in DOMAIN n.pieces /\ n.pieces[x] = c.pieces[t]
      BY <1>2 DEF IsJoined, lb, lq
    <2>3. s \in DOMAIN u.pieces /\ u.pieces[s] = c.pieces[t]
      BY <1>3 DEF IsJoined, lq
    <2> HIDE DEF s, x
    <2>4. s \in DOMAIN v.pieces /\ v.pieces[s] = c.pieces[t]
      BY <2>1, <2>2, <1>4 DEF IsJoined, la, lp
    <2> QED BY <2>3, <2>4 DEF s
  <1>14. \A s \in DOMAIN u.pieces :
            \/ s \in DOMAIN a.pieces
            \/ s = la
            \/ \E t \in DOMAIN b.pieces : s = la + lp + t
            \/ s = m.length
            \/ \E t \in DOMAIN c.pieces : s = m.length + lq + t
    BY <1>1, <1>3 DEF IsJoined, la, lp, lq
  <1>15. \A s \in DOMAIN v.pieces :
            \/ s \in DOMAIN a.pieces
            \/ s = la
            \/ \E t \in DOMAIN b.pieces : s = la + lp + t
            \/ s = m.length
            \/ \E t \in DOMAIN c.pieces : s = m.length + lq + t
    <2> SUFFICES ASSUME NEW s \in DOMAIN v.pieces, s \notin DOMAIN a.pieces, s # la
                 PROVE  \/ \E t \in DOMAIN b.pieces : s = la + lp + t
                        \/ s = m.length
                        \/ \E t \in DOMAIN c.pieces : s = m.length + lq + t
      OBVIOUS
    <2>1. PICK x \in DOMAIN n.pieces : s = la + lp + x
      BY <1>4 DEF IsJoined, la, lp
    <2>2. CASE x \in DOMAIN b.pieces
      BY <2>1, <2>2
    <2>3. CASE x = lb
      BY <2>1, <2>3, <1>7
    <2>4. CASE \E t \in DOMAIN c.pieces : x = lb + lq + t
      <3>1. PICK t \in DOMAIN c.pieces : x = lb + lq + t
        BY <2>4
      <3>2. s = m.length + lq + t
        BY <2>1, <3>1, <1>5, <1>6, <1>7
      <3> QED BY <3>2
    <2> QED BY <2>2, <2>3, <2>4, <1>2 DEF IsJoined, lb, lq
  <1>16. DOMAIN u.pieces = DOMAIN v.pieces
    BY <1>9, <1>10, <1>11, <1>12, <1>13, <1>14, <1>15
  <1>17. \A s \in DOMAIN u.pieces : u.pieces[s] = v.pieces[s]
    BY <1>9, <1>10, <1>11, <1>12, <1>13, <1>14
  <1>18. u = v
    BY <1>3, <1>4, <1>8, <1>16, <1>17, ValuesEqual, GoodIsValue
  <1> QED BY <1>18 DEF u, v, m, n

(* u is v with a piece put in front of what starts at `at'. *)
Inserted(u, v, p, at) ==
    /\ u.length = v.length + p.length /\ u.lf_count = v.lf_count + p.newline_count
    /\ \A s : s \in DOMAIN u.pieces <=>
                 \/ s \in DOMAIN v.pieces /\ s < at
                 \/ s = at
                 \/ \E t \in DOMAIN v.pieces : ~(t < at) /\ s = t + p.length
    /\ \A s \in DOMAIN v.pieces : s < at => u.pieces[s] = v.pieces[s]
    /\ \A s \in DOMAIN v.pieces : ~(s < at) => u.pieces[s + p.length] = v.pieces[s]
    /\ u.pieces[at] = p

(* u is v without the piece that starts at `at'. *)
Removed(u, v, at) ==
    LET k == v.pieces[at].length
    IN  /\ u.length = v.length - k /\ u.lf_count = v.lf_count - v.pieces[at].newline_count
        /\ \A s : s \in DOMAIN u.pieces <=>
                     \/ s \in DOMAIN v.pieces /\ s < at
                     \/ \E t \in DOMAIN v.pieces : at < t /\ s = t - k
        /\ \A s \in DOMAIN v.pieces : s < at => u.pieces[s] = v.pieces[s]
        /\ \A s \in DOMAIN v.pieces : at < s => u.pieces[s - k] = v.pieces[s]

LEMMA InsertIs ==
  ASSUME NEW v, GoodValue(v), NEW p \in Pieces, NEW at \in Nat,
         NEW u, u = Values!InsertPiece(v, p, at)
  PROVE  Inserted(u, v, p, at) /\ IsValue(u)
  <1> DEFINE before == {s \in DOMAIN v.pieces : s < at}
             after == {s + p.length : s \in DOMAIN v.pieces \ before}
             D == before \cup {at} \cup after
             k == p.length
             f(s) == IF s < at THEN v.pieces[s] ELSE IF s = at THEN p ELSE v.pieces[s - k]
  <1>1. u = [pieces |-> [s \in D |-> f(s)], length |-> v.length + k,
             lf_count |-> v.lf_count + p.newline_count]
    BY Zenon DEF Values!InsertPiece, Values!Starts
  <1> HIDE DEF f
  <1>2. /\ u.pieces = [s \in D |-> f(s)] /\ u.length = v.length + k
        /\ u.lf_count = v.lf_count + p.newline_count
        /\ u = [pieces |-> u.pieces, length |-> u.length, lf_count |-> u.lf_count]
    BY <1>1
  <1>3. DOMAIN u.pieces = D /\ \A s \in D : u.pieces[s] = f(s)
    BY <1>2
  <1>4. k \in Nat /\ k # 0 /\ \A s \in DOMAIN v.pieces : s \in Nat
    BY PieceIs DEF GoodValue
  <1>5. \A s \in before : f(s) = v.pieces[s]
    BY DEF f
  <1>6. f(at) = p
    BY DEF f
  <1>7. ASSUME NEW s \in DOMAIN v.pieces, ~(s < at)
        PROVE  s + k \in D /\ f(s + k) = v.pieces[s]
    <2> DEFINE x == s + k
               y == x - k
    <2>1. ~(x < at) /\ x # at /\ y = s
      BY <1>4, <1>7
    <2>2. f(x) = IF x < at THEN v.pieces[x] ELSE IF x = at THEN p ELSE v.pieces[y]
      BY Zenon DEF f
    <2>3. x \in D
      BY <1>7
    <2> HIDE DEF x, y
    <2>4. f(x) = v.pieces[s]
      BY <2>1, <2>2
    <2> QED BY <2>3, <2>4 DEF x
  <1>8. IsValue(u)
    BY <1>2, <1>3 DEF IsValue
  <1>9. Inserted(u, v, p, at)
    BY <1>2, <1>3, <1>5, <1>6, <1>7 DEF Inserted
  <1> QED BY <1>8, <1>9

LEMMA RemoveIs ==
  ASSUME NEW v, GoodValue(v), NEW at \in DOMAIN v.pieces,
         NEW u, u = Values!RemovePiece(v, at)
  PROVE  Removed(u, v, at) /\ IsValue(u)
  <1> DEFINE k == v.pieces[at].length
             before == {s \in DOMAIN v.pieces : s < at}
             after == {s - k : s \in DOMAIN v.pieces \ (before \cup {at})}
             D == before \cup after
             f(s) == IF s < at THEN v.pieces[s] ELSE v.pieces[s + k]
  <1>1. u = [pieces |-> [s \in D |-> f(s)], length |-> v.length - k,
             lf_count |-> v.lf_count - v.pieces[at].newline_count]
    BY Zenon DEF Values!RemovePiece, Values!Starts
  <1> HIDE DEF f
  <1>2. /\ u.pieces = [s \in D |-> f(s)] /\ u.length = v.length - k
        /\ u.lf_count = v.lf_count - v.pieces[at].newline_count
        /\ u = [pieces |-> u.pieces, length |-> u.length, lf_count |-> u.lf_count]
    BY <1>1
  <1>3. DOMAIN u.pieces = D /\ \A s \in D : u.pieces[s] = f(s)
    BY <1>2
  <1>4. k \in Nat /\ k # 0 /\ at \in Nat /\ \A s \in DOMAIN v.pieces : s \in Nat
    BY PieceIs DEF GoodValue
  <1>5. \A s \in before : f(s) = v.pieces[s]
    BY DEF f
  <1>6. ASSUME NEW s \in DOMAIN v.pieces, at < s
        PROVE  s - k \in D /\ f(s - k) = v.pieces[s]
    <2> DEFINE x == s - k
               y == x + k
    <2>1. at + k <= s
      BY <1>6 DEF GoodValue
    <2>2. ~(x < at) /\ y = s
      BY <2>1, <1>4
    <2>3. f(x) = IF x < at THEN v.pieces[x] ELSE v.pieces[y]
      BY Zenon DEF f
    <2>4. x \in D
      <3>1. ~(s < at) /\ s # at
        BY <1>4, <1>6
      <3> QED BY <3>1
    <2> HIDE DEF x, y
    <2>5. f(x) = v.pieces[s]
      BY <2>2, <2>3
    <2> QED BY <2>4, <2>5 DEF x
  <1>7. \A s \in DOMAIN v.pieces : at < s <=> s \notin before \cup {at}
    BY <1>4
  <1>8. IsValue(u)
    BY <1>2, <1>3 DEF IsValue
  <1>9. Removed(u, v, at)
    BY <1>2, <1>3, <1>5, <1>6, <1>7 DEF Removed
  <1> QED BY <1>8, <1>9

LEMMA InsertedIs ==
  ASSUME NEW v, GoodValue(v), NEW p \in Pieces, NEW at \in Nat,
         NEW u, IsValue(u), Inserted(u, v, p, at)
  PROVE  u = Values!InsertPiece(v, p, at)
  <1> DEFINE w == Values!InsertPiece(v, p, at)
  <1>1. Inserted(w, v, p, at) /\ IsValue(w)
    BY InsertIs, Zenon
  <1> HIDE DEF w
  <1>2. DOMAIN u.pieces = DOMAIN w.pieces
    BY <1>1 DEF Inserted
  <1>3. \A s \in DOMAIN u.pieces : u.pieces[s] = w.pieces[s]
    BY <1>1 DEF Inserted
  <1>4. u.length = w.length /\ u.lf_count = w.lf_count
    BY <1>1 DEF Inserted
  <1>5. u = w
    BY <1>1, <1>2, <1>3, <1>4, ValuesEqual, Zenon
  <1> QED BY <1>5 DEF w

LEMMA RemovedIs ==
  ASSUME NEW v, GoodValue(v), NEW at \in DOMAIN v.pieces, NEW u, IsValue(u), Removed(u, v, at)
  PROVE  u = Values!RemovePiece(v, at)
  <1> DEFINE w == Values!RemovePiece(v, at)
  <1>1. Removed(w, v, at) /\ IsValue(w)
    BY RemoveIs, Zenon
  <1> HIDE DEF w
  <1>2. DOMAIN u.pieces = DOMAIN w.pieces
    BY <1>1 DEF Removed
  <1>3. \A s \in DOMAIN u.pieces : u.pieces[s] = w.pieces[s]
    BY <1>1 DEF Removed
  <1>4. u.length = w.length /\ u.lf_count = w.lf_count
    BY <1>1 DEF Removed
  <1>5. u = w
    BY <1>1, <1>2, <1>3, <1>4, ValuesEqual, Zenon
  <1> QED BY <1>5 DEF w

LEMMA InsertNothing ==
  ASSUME NEW p \in Pieces
  PROVE  JoinedValue(Nothing, p, Nothing) = Values!InsertPiece(Nothing, p, 0)
  <1> DEFINE u == JoinedValue(Nothing, p, Nothing)
  <1>1. GoodValue(Nothing) /\ DOMAIN Nothing.pieces = {} /\ Nothing.length = 0
        /\ Nothing.lf_count \in Nat
    BY NothingIsGood DEF GoodValue
  <1>2. IsJoined(u, Nothing, p, Nothing) /\ GoodValue(u)
    BY <1>1, JoinedIs, Zenon
  <1> HIDE DEF u
  <1>3. p.length \in Nat /\ p.newline_count \in Nat /\ Nothing.lf_count = 0
    BY PieceIs DEF Nothing
  <1>4. Inserted(u, Nothing, p, 0)
    BY <1>1, <1>2, <1>3 DEF IsJoined, Inserted
  <1>5. u = Values!InsertPiece(Nothing, p, 0)
    BY <1>1, <1>2, <1>4, InsertedIs, GoodIsValue
  <1> QED BY <1>5 DEF u

LEMMA RemoveNothing ==
  ASSUME NEW p \in Pieces
  PROVE  Nothing = Values!RemovePiece(JoinedValue(Nothing, p, Nothing), 0)
  <1> DEFINE u == JoinedValue(Nothing, p, Nothing)
  <1>1. GoodValue(Nothing) /\ DOMAIN Nothing.pieces = {} /\ Nothing.length = 0
        /\ Nothing.lf_count = 0
    BY NothingIsGood DEF Nothing
  <1>2. IsJoined(u, Nothing, p, Nothing) /\ GoodValue(u)
    BY <1>1, JoinedIs, Zenon
  <1> HIDE DEF u
  <1>3. p.length \in Nat /\ p.newline_count \in Nat
    BY PieceIs
  <1>4. \A s : s \in DOMAIN u.pieces <=> s = 0
    BY <1>1, <1>2 DEF IsJoined
  <1>5. u.pieces[0] = p /\ u.length = p.length /\ u.lf_count = p.newline_count
    BY <1>1, <1>2, <1>3 DEF IsJoined
  <1>6. Removed(Nothing, u, 0)
    BY <1>1, <1>3, <1>4, <1>5 DEF Removed
  <1>7. Nothing = Values!RemovePiece(u, 0)
    BY <1>1, <1>2, <1>4, <1>6, RemovedIs, GoodIsValue
  <1> QED BY <1>7 DEF u

LEMMA InsertLeft ==
  ASSUME NEW l, GoodValue(l), NEW q \in Pieces, NEW r, GoodValue(r), NEW p \in Pieces,
         NEW at \in Nat, at <= l.length,
         NEW left, GoodValue(left), left = Values!InsertPiece(l, p, at)
  PROVE  JoinedValue(left, q, r) = Values!InsertPiece(JoinedValue(l, q, r), p, at)
  <1> DEFINE m == JoinedValue(l, q, r)
             u == JoinedValue(left, q, r)
             ll == l.length
             lr == r.length
             k == p.length
             lq == q.length
  <1>1. IsJoined(m, l, q, r) /\ GoodValue(m)
    BY JoinedIs, Zenon
  <1>2. IsJoined(u, left, q, r) /\ GoodValue(u)
    BY JoinedIs, Zenon
  <1>3. Inserted(left, l, p, at)
    BY InsertIs
  <1> HIDE DEF m, u
  <1>4. /\ ll \in Nat /\ lr \in Nat /\ k \in Nat /\ lq \in Nat /\ l.lf_count \in Nat
        /\ r.lf_count \in Nat /\ p.newline_count \in Nat /\ q.newline_count \in Nat
    BY PieceIs DEF GoodValue
  <1>5. /\ \A s \in DOMAIN l.pieces : s \in Nat
        /\ \A s \in DOMAIN r.pieces : s \in Nat
    BY DEF GoodValue
  <1>6. left.length = ll + k /\ left.lf_count = l.lf_count + p.newline_count
    BY <1>3 DEF Inserted
  <1>7. u.length = m.length + k /\ u.lf_count = m.lf_count + p.newline_count
    BY <1>1, <1>2, <1>4, <1>6 DEF IsJoined
  <1> HIDE DEF ll, lr, k, lq
  <1>8. \A s \in DOMAIN m.pieces : s < at => s \in DOMAIN u.pieces /\ u.pieces[s] = m.pieces[s]
    <2> SUFFICES ASSUME NEW s \in DOMAIN m.pieces, s < at
                 PROVE  s \in DOMAIN u.pieces /\ u.pieces[s] = m.pieces[s]
      OBVIOUS
    <2>1. s \in DOMAIN l.pieces
      BY <1>1, <1>4, <1>5 DEF IsJoined, ll, lq
    <2>2. s \in DOMAIN left.pieces /\ left.pieces[s] = l.pieces[s]
      BY <2>1, <1>3 DEF Inserted
    <2> QED BY <2>1, <2>2, <1>1, <1>2 DEF IsJoined
  <1>9. at \in DOMAIN u.pieces /\ u.pieces[at] = p
    BY <1>2, <1>3 DEF Inserted, IsJoined
  <1>10. \A s \in DOMAIN m.pieces :
            ~(s < at) => s + k \in DOMAIN u.pieces /\ u.pieces[s + k] = m.pieces[s]
    <2> SUFFICES ASSUME NEW s \in DOMAIN m.pieces, ~(s < at)
                 PROVE  s + k \in DOMAIN u.pieces /\ u.pieces[s + k] = m.pieces[s]
      OBVIOUS
    <2>1. CASE s \in DOMAIN l.pieces
      <3>1. s + k \in DOMAIN left.pieces /\ left.pieces[s + k] = l.pieces[s]
        BY <2>1, <1>3 DEF Inserted, k
      <3> QED BY <2>1, <3>1, <1>1, <1>2 DEF IsJoined
    <2>2. CASE s = ll
      BY <2>2, <1>1, <1>2, <1>6 DEF IsJoined, ll
    <2>3. CASE \E t \in DOMAIN r.pieces : s = ll + lq + t
      <3>1. PICK t \in DOMAIN r.pieces : s = ll + lq + t
        BY <2>3
      <3>2. s + k = left.length + lq + t
        BY <3>1, <1>4, <1>5, <1>6
      <3>3. m.pieces[s] = r.pieces[t]
        BY <3>1, <1>1 DEF IsJoined, ll, lq
      <3>4. u.pieces[s + k] = r.pieces[t] /\ s + k \in DOMAIN u.pieces
        BY <3>2, <1>2 DEF IsJoined, lq
      <3> QED BY <3>3, <3>4
    <2> QED BY <2>1, <2>2, <2>3, <1>1 DEF IsJoined, ll, lq
  <1>11. \A s \in DOMAIN u.pieces :
            \/ s \in DOMAIN m.pieces /\ s < at
            \/ s = at
            \/ \E t \in DOMAIN m.pieces : ~(t < at) /\ s = t + k
    <2> SUFFICES ASSUME NEW s \in DOMAIN u.pieces
                 PROVE  \/ s \in DOMAIN m.pieces /\ s < at
                        \/ s = at
                        \/ \E t \in DOMAIN m.pieces : ~(t < at) /\ s = t + k
      OBVIOUS
    <2>1. CASE s \in DOMAIN left.pieces
      BY <2>1, <1>1, <1>3 DEF Inserted, IsJoined, k
    <2>2. CASE s = left.length
      <3>1. ll \in DOMAIN m.pieces /\ ~(ll < at) /\ s = ll + k
        BY <2>2, <1>1, <1>4, <1>6 DEF IsJoined, ll
      <3> QED BY <3>1
    <2>3. CASE \E t \in DOMAIN r.pieces : s = left.length + lq + t
      <3>1. PICK t \in DOMAIN r.pieces : s = left.length + lq + t
        BY <2>3
      <3> DEFINE x == ll + lq + t
      <3>2. x \in DOMAIN m.pieces
        BY <1>1 DEF IsJoined, ll, lq
      <3>3. ~(x < at) /\ s = x + k
        <4>1. at <= ll /\ t \in Nat
          BY <1>5 DEF ll
        <4> QED BY <4>1, <3>1, <1>4, <1>6
      <3> HIDE DEF x
      <3> QED BY <3>2, <3>3
    <2> QED BY <2>1, <2>2, <2>3, <1>2 DEF IsJoined, lq
  <1>12. Inserted(u, m, p, at)
    BY <1>7, <1>8, <1>9, <1>10, <1>11 DEF Inserted, k
  <1>13. u = Values!InsertPiece(m, p, at)
    BY <1>1, <1>2, <1>12, InsertedIs, GoodIsValue
  <1> QED BY <1>13 DEF u, m


LEMMA InsertRight ==
  ASSUME NEW l, GoodValue(l), NEW q \in Pieces, NEW r, GoodValue(r), NEW p \in Pieces,
         NEW at \in Nat, NEW right, GoodValue(right), right = Values!InsertPiece(r, p, at)
  PROVE  JoinedValue(l, q, right)
           = Values!InsertPiece(JoinedValue(l, q, r), p, l.length + q.length + at)
  <1> DEFINE m == JoinedValue(l, q, r)
             u == JoinedValue(l, q, right)
             b == l.length + q.length
             ll == l.length
             k == p.length
  <1>1. IsJoined(m, l, q, r) /\ GoodValue(m)
    BY JoinedIs, Zenon
  <1>2. IsJoined(u, l, q, right) /\ GoodValue(u)
    BY JoinedIs, Zenon
  <1>3. Inserted(right, r, p, at)
    BY InsertIs
  <1> HIDE DEF m, u
  <1>4. /\ ll \in Nat /\ b \in Nat /\ ll < b /\ k \in Nat /\ l.lf_count \in Nat
        /\ r.lf_count \in Nat /\ r.length \in Nat
        /\ p.newline_count \in Nat /\ q.newline_count \in Nat
    BY PieceIs DEF GoodValue
  <1>5. /\ \A s \in DOMAIN l.pieces : s \in Nat /\ s < b
        /\ \A s \in DOMAIN r.pieces : s \in Nat
        /\ \A s \in DOMAIN right.pieces : s \in Nat
    BY <1>1, <1>4 DEF GoodValue, IsJoined
  <1>6. right.length = r.length + k /\ right.lf_count = r.lf_count + p.newline_count
    BY <1>3 DEF Inserted
  <1>7. u.length = m.length + k /\ u.lf_count = m.lf_count + p.newline_count
    BY <1>1, <1>2, <1>4, <1>6 DEF IsJoined
  <1> HIDE DEF ll, k, b
  <1>8. /\ \A s : s \in DOMAIN m.pieces <=>
                    \/ s \in DOMAIN l.pieces \/ s = ll \/ \E t \in DOMAIN r.pieces : s = b + t
        /\ \A s \in DOMAIN l.pieces : m.pieces[s] = l.pieces[s]
        /\ m.pieces[ll] = q
        /\ \A t \in DOMAIN r.pieces : m.pieces[b + t] = r.pieces[t]
    BY <1>1 DEF IsJoined, b, ll
  <1>9. /\ \A s : s \in DOMAIN u.pieces <=>
                    \/ s \in DOMAIN l.pieces \/ s = ll \/ \E t \in DOMAIN right.pieces : s = b + t
        /\ \A s \in DOMAIN l.pieces : u.pieces[s] = l.pieces[s]
        /\ u.pieces[ll] = q
        /\ \A t \in DOMAIN right.pieces : u.pieces[b + t] = right.pieces[t]
    BY <1>2 DEF IsJoined, b, ll
  <1>10. /\ \A s : s \in DOMAIN right.pieces <=>
                      \/ s \in DOMAIN r.pieces /\ s < at
                      \/ s = at
                      \/ \E t \in DOMAIN r.pieces : ~(t < at) /\ s = t + k
         /\ \A s \in DOMAIN r.pieces : s < at => right.pieces[s] = r.pieces[s]
         /\ \A s \in DOMAIN r.pieces : ~(s < at) => right.pieces[s + k] = r.pieces[s]
         /\ right.pieces[at] = p
    BY <1>3 DEF Inserted, k
  <1>11. \A s \in DOMAIN m.pieces :
            s < b + at => s \in DOMAIN u.pieces /\ u.pieces[s] = m.pieces[s]
    <2> SUFFICES ASSUME NEW s \in DOMAIN m.pieces, s < b + at
                 PROVE  s \in DOMAIN u.pieces /\ u.pieces[s] = m.pieces[s]
      OBVIOUS
    <2>1. CASE s \in DOMAIN l.pieces \/ s = ll
      BY <2>1, <1>8, <1>9
    <2>2. CASE \E t \in DOMAIN r.pieces : s = b + t
      <3>1. PICK t \in DOMAIN r.pieces : s = b + t
        BY <2>2
      <3>2. t < at
        BY <3>1, <1>4, <1>5
      <3>3. t \in DOMAIN right.pieces /\ right.pieces[t] = r.pieces[t]
        BY <3>2, <1>10
      <3> QED BY <3>1, <3>3, <1>8, <1>9
    <2> QED BY <2>1, <2>2, <1>8
  <1>12. b + at \in DOMAIN u.pieces /\ u.pieces[b + at] = p
    BY <1>9, <1>10
  <1>13. \A s \in DOMAIN m.pieces :
            ~(s < b + at) => s + k \in DOMAIN u.pieces /\ u.pieces[s + k] = m.pieces[s]
    <2> SUFFICES ASSUME NEW s \in DOMAIN m.pieces, ~(s < b + at)
                 PROVE  s + k \in DOMAIN u.pieces /\ u.pieces[s + k] = m.pieces[s]
      OBVIOUS
    <2>1. ~(s \in DOMAIN l.pieces \/ s = ll)
      BY <1>4, <1>5
    <2>2. PICK t \in DOMAIN r.pieces : s = b + t
      BY <2>1, <1>8
    <2>3. ~(t < at) /\ s + k = b + (t + k)
      BY <2>2, <1>4, <1>5
    <2>4. t + k \in DOMAIN right.pieces /\ right.pieces[t + k] = r.pieces[t]
      BY <2>3, <1>10
    <2>5. s + k \in DOMAIN u.pieces /\ u.pieces[s + k] = right.pieces[t + k]
      BY <2>3, <2>4, <1>9
    <2> QED BY <2>2, <2>4, <2>5, <1>8
  <1>14. \A s \in DOMAIN u.pieces :
            \/ s \in DOMAIN m.pieces /\ s < b + at
            \/ s = b + at
            \/ \E t \in DOMAIN m.pieces : ~(t < b + at) /\ s = t + k
    <2> SUFFICES ASSUME NEW s \in DOMAIN u.pieces
                 PROVE  \/ s \in DOMAIN m.pieces /\ s < b + at
                        \/ s = b + at
                        \/ \E t \in DOMAIN m.pieces : ~(t < b + at) /\ s = t + k
      OBVIOUS
    <2>1. CASE s \in DOMAIN l.pieces \/ s = ll
      <3>1. s < b + at
        BY <2>1, <1>4, <1>5
      <3> QED BY <2>1, <3>1, <1>8
    <2>2. CASE \E t \in DOMAIN right.pieces : s = b + t
      <3>1. PICK t \in DOMAIN right.pieces : s = b + t
        BY <2>2
      <3>2. CASE t \in DOMAIN r.pieces /\ t < at
        <4>1. s < b + at
          BY <3>1, <3>2, <1>4, <1>5
        <4> QED BY <3>1, <3>2, <4>1, <1>8
      <3>3. CASE t = at
        BY <3>1, <3>3
      <3>4. CASE \E x \in DOMAIN r.pieces : ~(x < at) /\ t = x + k
        <4>1. PICK x \in DOMAIN r.pieces : ~(x < at) /\ t = x + k
          BY <3>4
        <4> DEFINE y == b + x
        <4>2. y \in DOMAIN m.pieces
          BY <1>8
        <4>3. ~(y < b + at) /\ s = y + k
          BY <4>1, <3>1, <1>4, <1>5
        <4> HIDE DEF y
        <4> QED BY <4>2, <4>3
      <3> QED BY <3>2, <3>3, <3>4, <1>10
    <2> QED BY <2>1, <2>2, <1>9
  <1>15. b + at \in Nat
    BY <1>4
  <1>16. Inserted(u, m, p, b + at)
    <2> DEFINE x == b + at
    <2>1. x = b + at
      OBVIOUS
    <2> HIDE DEF x
    <2>2. Inserted(u, m, p, x)
      BY <2>1, <1>7, <1>11, <1>12, <1>13, <1>14 DEF Inserted, k
    <2> QED BY <2>1, <2>2
  <1>17. u = Values!InsertPiece(m, p, b + at)
    BY <1>1, <1>2, <1>15, <1>16, InsertedIs, GoodIsValue
  <1> QED BY <1>17 DEF u, m, b

(* Insertion and removal undo each other. *)
LEMMA RemoveInserted ==
  ASSUME NEW v, GoodValue(v), NEW p \in Pieces, NEW at \in Nat,
         NEW u, GoodValue(u), u = Values!InsertPiece(v, p, at)
  PROVE  at \in DOMAIN u.pieces /\ u.pieces[at] = p /\ v = Values!RemovePiece(u, at)
  <1>1. Inserted(u, v, p, at)
    BY InsertIs
  <1>2. at \in DOMAIN u.pieces /\ u.pieces[at] = p
    BY <1>1 DEF Inserted
  <1> DEFINE k == p.length
  <1>3. /\ k \in Nat /\ k > 0 /\ p.newline_count \in Nat /\ v.length \in Nat /\ v.lf_count \in Nat
        /\ \A s \in DOMAIN v.pieces : s \in Nat
    BY PieceIs DEF GoodValue
  <1>4. v.length = u.length - k /\ v.lf_count = u.lf_count - p.newline_count
    BY <1>1, <1>3 DEF Inserted
  <1>5. \A s \in DOMAIN v.pieces :
           \/ s \in DOMAIN u.pieces /\ s < at
           \/ \E t \in DOMAIN u.pieces : at < t /\ s = t - k
    <2> SUFFICES ASSUME NEW s \in DOMAIN v.pieces, ~(s < at)
                 PROVE  \E t \in DOMAIN u.pieces : at < t /\ s = t - k
      BY <1>1 DEF Inserted
    <2>1. s + k \in DOMAIN u.pieces
      BY <1>1 DEF Inserted
    <2>2. at < s + k /\ s = (s + k) - k
      BY <1>3
    <2> QED BY <2>1, <2>2
  <1>6. \A t \in DOMAIN u.pieces :
           /\ t < at => t \in DOMAIN v.pieces /\ v.pieces[t] = u.pieces[t]
           /\ at < t => t - k \in DOMAIN v.pieces /\ v.pieces[t - k] = u.pieces[t]
    <2> SUFFICES ASSUME NEW t \in DOMAIN u.pieces
                 PROVE  /\ t < at => t \in DOMAIN v.pieces /\ v.pieces[t] = u.pieces[t]
                        /\ at < t => t - k \in DOMAIN v.pieces /\ v.pieces[t - k] = u.pieces[t]
      OBVIOUS
    <2>1. CASE t \in DOMAIN v.pieces /\ t < at
      BY <2>1, <1>1, <1>3 DEF Inserted
    <2>2. CASE t = at
      BY <2>2
    <2>3. CASE \E s \in DOMAIN v.pieces : ~(s < at) /\ t = s + k
      <3>1. PICK s \in DOMAIN v.pieces : ~(s < at) /\ t = s + k
        BY <2>3
      <3>2. t - k = s /\ at < t /\ ~(t < at)
        BY <3>1, <1>3
      <3>3. u.pieces[t] = v.pieces[s]
        BY <3>1, <1>1 DEF Inserted
      <3> QED BY <3>2, <3>3
    <2> QED BY <2>1, <2>2, <2>3, <1>1 DEF Inserted
  <1>7. Removed(v, u, at)
    BY <1>2, <1>4, <1>5, <1>6 DEF Removed
  <1> QED BY <1>2, <1>7, RemovedIs, GoodIsValue

LEMMA InsertRemoved ==
  ASSUME NEW v, GoodValue(v), NEW at \in DOMAIN v.pieces,
         NEW u, GoodValue(u), u = Values!RemovePiece(v, at)
  PROVE  /\ at \in Nat /\ v.pieces[at] \in Pieces /\ at <= u.length
         /\ v = Values!InsertPiece(u, v.pieces[at], at)
  <1> DEFINE p == v.pieces[at]
             k == p.length
  <1>1. Removed(u, v, at)
    BY RemoveIs
  <1>2. at \in Nat /\ p \in Pieces /\ at + k <= v.length
    BY DEF GoodValue
  <1>3. /\ k \in Nat /\ k > 0 /\ p.newline_count \in Nat /\ v.length \in Nat /\ v.lf_count \in Nat
        /\ \A s \in DOMAIN v.pieces : s \in Nat /\ (at < s => at + k <= s)
    BY <1>2, PieceIs DEF GoodValue
  <1>4. /\ u.length = v.length - k /\ u.lf_count = v.lf_count - p.newline_count
        /\ \A s : s \in DOMAIN u.pieces <=>
                      \/ s \in DOMAIN v.pieces /\ s < at
                      \/ \E t \in DOMAIN v.pieces : at < t /\ s = t - k
        /\ \A s \in DOMAIN v.pieces : s < at => u.pieces[s] = v.pieces[s]
        /\ \A s \in DOMAIN v.pieces : at < s => u.pieces[s - k] = v.pieces[s]
    BY <1>1 DEF Removed
  <1>5. v.length = u.length + k /\ v.lf_count = u.lf_count + p.newline_count /\ at <= u.length
    <2> HIDE DEF k, p
    <2> QED BY <1>2, <1>3, <1>4
  <1> HIDE DEF k
  <1>6. \A s \in DOMAIN v.pieces :
           \/ s \in DOMAIN u.pieces /\ s < at
           \/ s = at
           \/ \E t \in DOMAIN u.pieces : ~(t < at) /\ s = t + k
    <2>0. \A s \in DOMAIN v.pieces : s < at \/ s = at \/ at < s
      BY <1>2, <1>3
    <2> SUFFICES ASSUME NEW s \in DOMAIN v.pieces, at < s
                 PROVE  \E t \in DOMAIN u.pieces : ~(t < at) /\ s = t + k
      BY <2>0, <1>4
    <2>1. s - k \in DOMAIN u.pieces
      BY <1>4, Zenon
    <2>2. ~(s - k < at) /\ s = (s - k) + k
      BY <1>2, <1>3
    <2> QED BY <2>1, <2>2
  <1>7. \A t \in DOMAIN u.pieces :
           /\ t < at => t \in DOMAIN v.pieces /\ v.pieces[t] = u.pieces[t]
           /\ ~(t < at) => t + k \in DOMAIN v.pieces /\ v.pieces[t + k] = u.pieces[t]
    <2> SUFFICES ASSUME NEW t \in DOMAIN u.pieces
                 PROVE  /\ t < at => t \in DOMAIN v.pieces /\ v.pieces[t] = u.pieces[t]
                        /\ ~(t < at) => t + k \in DOMAIN v.pieces /\ v.pieces[t + k] = u.pieces[t]
      OBVIOUS
    <2>1. CASE t \in DOMAIN v.pieces /\ t < at
      BY <2>1, <1>4
    <2>2. CASE \E s \in DOMAIN v.pieces : at < s /\ t = s - k
      <3>1. PICK s \in DOMAIN v.pieces : at < s /\ t = s - k
        BY <2>2
      <3>2. t + k = s /\ ~(t < at)
        BY <3>1, <1>2, <1>3
      <3>3. u.pieces[t] = v.pieces[s]
        BY <3>1, <1>4, Zenon
      <3> QED BY <3>2, <3>3
    <2> QED BY <2>1, <2>2, <1>4
  <1>8. Inserted(v, u, p, at)
    BY <1>5, <1>6, <1>7 DEF Inserted, k
  <1> QED BY <1>2, <1>5, <1>8, InsertedIs, GoodIsValue


LEMMA RemoveLeft ==
  ASSUME NEW l, GoodValue(l), NEW q \in Pieces, NEW r, GoodValue(r), NEW at \in DOMAIN l.pieces,
         NEW left, GoodValue(left), left = Values!RemovePiece(l, at)
  PROVE  JoinedValue(left, q, r) = Values!RemovePiece(JoinedValue(l, q, r), at)
  <1> DEFINE p == l.pieces[at]
             m == JoinedValue(l, q, r)
             u == JoinedValue(left, q, r)
  <1>1. at \in Nat /\ p \in Pieces /\ at <= left.length /\ l = Values!InsertPiece(left, p, at)
    BY InsertRemoved, Zenon
  <1>2. GoodValue(m) /\ GoodValue(u)
    BY JoinedIs, Zenon
  <1> HIDE DEF p
  <1>3. m = Values!InsertPiece(u, p, at)
    BY <1>1, InsertLeft
  <1> HIDE DEF m, u
  <1>4. u = Values!RemovePiece(m, at)
    BY <1>1, <1>2, <1>3, RemoveInserted
  <1> QED BY <1>4 DEF m, u

LEMMA RemoveRight ==
  ASSUME NEW l, GoodValue(l), NEW q \in Pieces, NEW r, GoodValue(r), NEW at \in DOMAIN r.pieces,
         NEW right, GoodValue(right), right = Values!RemovePiece(r, at)
  PROVE  JoinedValue(l, q, right)
           = Values!RemovePiece(JoinedValue(l, q, r), l.length + q.length + at)
  <1> DEFINE p == r.pieces[at]
             m == JoinedValue(l, q, r)
             u == JoinedValue(l, q, right)
             x == l.length + q.length + at
  <1>1. at \in Nat /\ p \in Pieces /\ r = Values!InsertPiece(right, p, at)
    BY InsertRemoved, Zenon
  <1>2. GoodValue(m) /\ GoodValue(u)
    BY JoinedIs, Zenon
  <1>3. x \in Nat
    BY <1>1, PieceIs DEF GoodValue
  <1> HIDE DEF p
  <1>4. m = Values!InsertPiece(u, p, x)
    BY <1>1, InsertRight
  <1> HIDE DEF m, u, x
  <1>5. u = Values!RemovePiece(m, x)
    BY <1>1, <1>2, <1>3, <1>4, RemoveInserted
  <1> QED BY <1>5 DEF m, u, x

(* Nothing on one side. *)
LEMMA JoinedNothing ==
  ASSUME NEW p \in Pieces, NEW v, GoodValue(v)
  PROVE  JoinedValue(Nothing, p, v) = Values!InsertPiece(v, p, 0)
  <1> DEFINE u == JoinedValue(Nothing, p, v)
             k == p.length
  <1>1. GoodValue(Nothing) /\ DOMAIN Nothing.pieces = {} /\ Nothing.length = 0
        /\ Nothing.lf_count = 0
    BY NothingIsGood DEF Nothing
  <1>2. IsJoined(u, Nothing, p, v) /\ GoodValue(u)
    BY <1>1, JoinedIs, Zenon
  <1> HIDE DEF u
  <1>3. /\ k \in Nat /\ p.newline_count \in Nat /\ v.length \in Nat /\ v.lf_count \in Nat
        /\ \A s \in DOMAIN v.pieces : s \in Nat /\ ~(s < 0) /\ k + s = s + k
    BY PieceIs DEF GoodValue
  <1>4. u.length = v.length + k /\ u.lf_count = v.lf_count + p.newline_count
    BY <1>1, <1>2, <1>3 DEF IsJoined
  <1>5. /\ \A s : s \in DOMAIN u.pieces <=> s = 0 \/ \E t \in DOMAIN v.pieces : s = t + k
        /\ u.pieces[0] = p
        /\ \A t \in DOMAIN v.pieces : u.pieces[t + k] = v.pieces[t]
    <2>1. \A t \in DOMAIN v.pieces : 0 + k + t = t + k
      BY <1>3
    <2> QED BY <2>1, <1>1, <1>2 DEF IsJoined
  <1>6. Inserted(u, v, p, 0)
    BY <1>3, <1>4, <1>5 DEF Inserted
  <1>7. u = Values!InsertPiece(v, p, 0)
    BY <1>2, <1>6, InsertedIs, GoodIsValue
  <1> QED BY <1>7 DEF u

LEMMA NothingJoined ==
  ASSUME NEW p \in Pieces, NEW v, GoodValue(v)
  PROVE  JoinedValue(v, p, Nothing) = Values!InsertPiece(v, p, v.length)
  <1> DEFINE u == JoinedValue(v, p, Nothing)
             k == p.length
             x == v.length
  <1>1. GoodValue(Nothing) /\ DOMAIN Nothing.pieces = {} /\ Nothing.length = 0
        /\ Nothing.lf_count = 0
    BY NothingIsGood DEF Nothing
  <1>2. IsJoined(u, v, p, Nothing) /\ GoodValue(u)
    BY <1>1, JoinedIs, Zenon
  <1> HIDE DEF u
  <1>3. /\ k \in Nat /\ p.newline_count \in Nat /\ x \in Nat /\ v.lf_count \in Nat
        /\ \A s \in DOMAIN v.pieces : s \in Nat
    BY PieceIs DEF GoodValue
  <1>4. u.length = v.length + k /\ u.lf_count = v.lf_count + p.newline_count
    BY <1>1, <1>2, <1>3 DEF IsJoined
  <1>5. /\ \A s : s \in DOMAIN u.pieces <=> s \in DOMAIN v.pieces \/ s = x
        /\ \A s \in DOMAIN v.pieces : s < x /\ u.pieces[s] = v.pieces[s]
        /\ u.pieces[x] = p
    BY <1>1, <1>2 DEF IsJoined
  <1> HIDE DEF x
  <1>6. Inserted(u, v, p, x)
    BY <1>3, <1>4, <1>5 DEF Inserted
  <1>7. u = Values!InsertPiece(v, p, x)
    BY <1>2, <1>3, <1>6, InsertedIs, GoodIsValue
  <1> QED BY <1>7 DEF u, x

(* The first piece of the right part takes the place of the piece between. *)
LEMMA RemoveHere ==
  ASSUME NEW l, GoodValue(l), NEW p \in Pieces, NEW r, GoodValue(r), 0 \in DOMAIN r.pieces,
         NEW rest, GoodValue(rest), rest = Values!RemovePiece(r, 0)
  PROVE  JoinedValue(l, r.pieces[0], rest) = Values!RemovePiece(JoinedValue(l, p, r), l.length)
  <1> DEFINE q == r.pieces[0]
             more == JoinedValue(l, p, Nothing)
             m == JoinedValue(l, p, r)
             u == JoinedValue(l, q, rest)
             x == l.length
  <1>1. q \in Pieces /\ r = Values!InsertPiece(rest, q, 0)
    BY InsertRemoved, Zenon
  <1>2. GoodValue(Nothing)
    BY NothingIsGood
  <1> HIDE DEF q
  <1>3. r = JoinedValue(Nothing, q, rest)
    BY <1>1, JoinedNothing, Zenon
  <1>4. m = JoinedValue(more, q, rest)
    BY <1>1, <1>2, <1>3, JoinedAssociative
  <1>5. GoodValue(more) /\ more = Values!InsertPiece(l, p, x)
    BY <1>2, JoinedIs, NothingJoined, Zenon
  <1>6. GoodValue(m) /\ GoodValue(u)
    BY <1>1, JoinedIs, Zenon
  <1>7. x \in Nat /\ x <= l.length
    BY DEF GoodValue
  <1> HIDE DEF more, x
  <1>8. m = Values!InsertPiece(u, p, x)
    BY <1>1, <1>4, <1>5, <1>7, InsertLeft
  <1> HIDE DEF m, u
  <1>9. u = Values!RemovePiece(m, x)
    BY <1>6, <1>7, <1>8, RemoveInserted
  <1> QED BY <1>9 DEF m, u, q, x

(* What is left if there is nothing on the right. *)
LEMMA RemoveLast ==
  ASSUME NEW l, GoodValue(l), NEW p \in Pieces
  PROVE  l = Values!RemovePiece(JoinedValue(l, p, Nothing), l.length)
  <1> DEFINE m == JoinedValue(l, p, Nothing)
             x == l.length
  <1>1. GoodValue(m) /\ m = Values!InsertPiece(l, p, x) /\ x \in Nat
    BY NothingIsGood, JoinedIs, NothingJoined DEF GoodValue
  <1> HIDE DEF m, x
  <1>2. l = Values!RemovePiece(m, x)
    BY <1>1, RemoveInserted
  <1> QED BY <1>2 DEF m, x

-----------------------------------------------------------------------------
(* Good trees: made by Mk of leaves, with values that are good. *)

(* A set of trees that are made of each other. *)
Closed(S) ==
    \A t \in S : \/ t = Leaf
                 \/ /\ t.color \in Colors /\ t.piece \in Pieces
                    /\ t.left \in S /\ t.right \in S
                    /\ t = Mk(t.color, t.left, t.piece, t.right)
                    /\ t.height \in Nat /\ GoodValue(t.value) /\ t.value.length # 0

Good(t) == \E S : Closed(S) /\ t \in S

LEMMA LeafIsGood == Good(Leaf)
  <1>1. Closed({Leaf})
    BY DEF Closed
  <1> QED BY <1>1 DEF Good

LEMMA GoodIs ==
  ASSUME NEW t, Good(t)
  PROVE  /\ t.kind \in {"leaf", "node"} /\ t.height \in Nat /\ GoodValue(t.value)
         /\ t.color \in Colors /\ (Red(t) <=> ~Black(t))
         /\ t.kind = "leaf" => t = Leaf
         /\ t.kind = "node" => /\ t.piece \in Pieces
                               /\ Good(t.left) /\ Good(t.right)
                               /\ t = Mk(t.color, t.left, t.piece, t.right)
                               /\ t.value.length # 0
         /\ Red(t) => t.kind = "node"
  <1>1. PICK S : Closed(S) /\ t \in S
    BY DEF Good
  <1>2. CASE t = Leaf
    <2>1. t.kind = "leaf" /\ t.height \in Nat /\ GoodValue(t.value) /\ t.color = "black"
      BY <1>2, LeafIs, NothingIsGood
    <2> QED BY <1>2, <2>1 DEF Colors, Red, Black
  <1>3. CASE t # Leaf
    <2>1. /\ t.color \in Colors /\ t.piece \in Pieces
          /\ t.left \in S /\ t.right \in S
          /\ t = Mk(t.color, t.left, t.piece, t.right)
          /\ t.height \in Nat /\ GoodValue(t.value) /\ t.value.length # 0
      BY <1>1, <1>3 DEF Closed
    <2>2. t.kind = "node"
      BY <2>1, MkKind
    <2>3. Good(t.left) /\ Good(t.right)
      BY <1>1, <2>1 DEF Good
    <2> QED BY <2>1, <2>2, <2>3 DEF Colors, Red, Black
  <1> QED BY <1>2, <1>3

LEMMA MkIsGood ==
  ASSUME NEW color \in Colors, NEW left, Good(left), NEW piece \in Pieces, NEW right, Good(right)
  PROVE  Good(Mk(color, left, piece, right))
  <1> DEFINE t == Mk(color, left, piece, right)
  <1>1. PICK L : Closed(L) /\ left \in L
    BY DEF Good
  <1>2. PICK R : Closed(R) /\ right \in R
    BY DEF Good
  <1> DEFINE S == L \cup R \cup {t}
  <1>3. /\ t.color = color /\ t.piece = piece /\ t.left = left /\ t.right = right
        /\ t.height = left.height + (IF color = "black" THEN 1 ELSE 0)
        /\ t.value = JoinedValue(left.value, piece, right.value)
    BY MkIs
  <1>4. left.height \in Nat /\ GoodValue(left.value) /\ GoodValue(right.value)
    BY GoodIs
  <1>5. GoodValue(t.value) /\ t.value.length # 0
    BY <1>3, <1>4, JoinedIs
  <1>6. t = Mk(t.color, t.left, t.piece, t.right)
    BY <1>3
  <1> HIDE DEF t
  <1>7. t.height \in Nat
    BY <1>3, <1>4
  <1>8. Closed(S)
    BY <1>1, <1>2, <1>3, <1>5, <1>6, <1>7 DEF Closed
  <1>9. t \in S
    OBVIOUS
  <1>10. Good(t)
    BY <1>8, <1>9 DEF Good
  <1> QED BY <1>10 DEF t

(* A good tree that is a node, with its children and what it is made of. *)
LEMMA GoodNode ==
  ASSUME NEW t, Good(t), t.kind = "node"
  PROVE  /\ t.color \in Colors /\ t.piece \in Pieces /\ Good(t.left) /\ Good(t.right)
         /\ t = Mk(t.color, t.left, t.piece, t.right)
         /\ t.height = t.left.height + (IF Black(t) THEN 1 ELSE 0)
         /\ Ok(t) <=> Leaning(t.left, t.color, t.right)
         /\ t.value = JoinedValue(t.left.value, t.piece, t.right.value)
         /\ GoodValue(t.value) /\ t.value.length # 0
         /\ GoodValue(t.left.value) /\ GoodValue(t.right.value)
         /\ t.left.height \in Nat /\ t.right.height \in Nat
         /\ t.value.length = t.left.value.length + t.piece.length + t.right.value.length
         /\ t.value.lf_count = t.left.value.lf_count + t.piece.newline_count + t.right.value.lf_count
  <1>1. /\ t.color \in Colors /\ t.piece \in Pieces /\ Good(t.left) /\ Good(t.right)
        /\ t = Mk(t.color, t.left, t.piece, t.right)
        /\ GoodValue(t.value) /\ t.value.length # 0
    BY GoodIs
  <1>2. /\ GoodValue(t.left.value) /\ GoodValue(t.right.value)
        /\ t.left.height \in Nat /\ t.right.height \in Nat
    BY <1>1, GoodIs
  <1>3. /\ t.height = t.left.height + (IF t.color = "black" THEN 1 ELSE 0)
        /\ Ok(t) <=> Leaning(t.left, t.color, t.right)
        /\ t.value = JoinedValue(t.left.value, t.piece, t.right.value)
    <2> DEFINE c == t.color
               l == t.left
               p == t.piece
               r == t.right
    <2>1. t = Mk(c, l, p, r)
      BY <1>1
    <2> HIDE DEF c, l, p, r
    <2>2. /\ t.height = l.height + (IF c = "black" THEN 1 ELSE 0)
          /\ Ok(t) <=> Leaning(l, c, r)
          /\ t.value = JoinedValue(l.value, p, r.value)
      BY <2>1, MkIs
    <2> QED BY <2>2 DEF c, l, p, r
  <1>4. /\ t.value.length = t.left.value.length + t.piece.length + t.right.value.length
        /\ t.value.lf_count = t.left.value.lf_count + t.piece.newline_count + t.right.value.lf_count
    BY <1>3 DEF JoinedValue
  <1> QED BY <1>1, <1>2, <1>3, <1>4 DEF Black

(* The metadata of a node are the metadata of its tree, which is good. *)
LEMMA TreesAreGood ==
  ASSUME NEW ns, WellMade(ns), NEW a, InUse(ns, a)
  PROVE  /\ Good(Tree(ns, a))
         /\ node_length(ns, a) = Tree(ns, a).value.length
         /\ node_lf_count(ns, a) = Tree(ns, a).value.lf_count
  <1> DEFINE Fine(b) ==
        InUse(ns, b) => /\ Good(Tree(ns, b))
                        /\ node_length(ns, b) = Tree(ns, b).value.length
                        /\ node_lf_count(ns, b) = Tree(ns, b).value.lf_count
             S == {b \in 0 .. Len(ns) : Fine(b)}
  <1>1. ns \in Store /\ Len(ns) \in Nat
    BY ChildrenAreOlder
  <1>2. \A b : InUse(ns, b) => b \in 0 .. Len(ns)
    BY <1>1, LiveIs DEF InUse, NULL
  <1>3. ASSUME NEW b \in 0 .. Len(ns), \A c \in 0 .. Len(ns) : c < b => c \in S, InUse(ns, b)
        PROVE  /\ Good(Tree(ns, b))
               /\ node_length(ns, b) = Tree(ns, b).value.length
               /\ node_lf_count(ns, b) = Tree(ns, b).value.lf_count
    <2>1. CASE b = NULL
      <3>1. Tree(ns, b) = Leaf
        BY <2>1, TreeAt
      <3>2. Leaf.value.length = 0 /\ Leaf.value.lf_count = 0
        BY LeafIs DEF Nothing
      <3>3. node_length(ns, b) = 0 /\ node_lf_count(ns, b) = 0
        BY <2>1 DEF node_length, node_lf_count
      <3> QED BY <3>1, <3>2, <3>3, LeafIsGood
    <2>2. CASE b # NULL
      <3> DEFINE l == ns[b].left
                 r == ns[b].right
                 p == ns[b].piece
      <3>1. b \in Live(ns) /\ Linked(ns, b)
        BY <1>3, <2>2 DEF InUse, WellMade
      <3>2. /\ InUse(ns, l) /\ l < b /\ InUse(ns, r) /\ r < b
            /\ ns[b].subtree_length = node_length(ns, l) + p.length + node_length(ns, r)
            /\ ns[b].subtree_lf_count = node_lf_count(ns, l) + p.newline_count + node_lf_count(ns, r)
            /\ ns[b].color \in Colors /\ p \in Pieces
        BY <3>1 DEF Linked, InUse, NodeRecord
      <3>3. Fine(l) /\ Fine(r)
        <4>1. l \in 0 .. Len(ns) /\ r \in 0 .. Len(ns)
          BY <1>2, <3>2
        <4> HIDE DEF Fine, l, r
        <4>2. l \in S /\ r \in S
          BY <4>1, <3>2, <1>3
        <4> QED BY <4>2
      <3>4. Tree(ns, b) = Mk(ns[b].color, Tree(ns, l), p, Tree(ns, r))
        BY <3>1, TreeAt
      <3> DEFINE t == Tree(ns, b)
                 tl == Tree(ns, l)
                 tr == Tree(ns, r)
      <3>5. Good(tl) /\ Good(tr) /\ Good(t)
        <4>1. Good(tl) /\ Good(tr)
          BY <3>2, <3>3
        <4> HIDE DEF l, r, p, Fine
        <4> QED BY <4>1, <3>2, <3>4, MkIsGood, Zenon
      <3>6. /\ t.value.length = tl.value.length + p.length + tr.value.length
            /\ t.value.lf_count = tl.value.lf_count + p.newline_count + tr.value.lf_count
        <4>1. t.value = JoinedValue(tl.value, p, tr.value)
          BY <3>4, MkIs
        <4> QED BY <4>1 DEF JoinedValue
      <3>7. /\ node_length(ns, l) = tl.value.length /\ node_lf_count(ns, l) = tl.value.lf_count
            /\ node_length(ns, r) = tr.value.length /\ node_lf_count(ns, r) = tr.value.lf_count
        BY <3>2, <3>3
      <3>8. node_length(ns, b) = ns[b].subtree_length /\ node_lf_count(ns, b) = ns[b].subtree_lf_count
        BY <2>2 DEF node_length, node_lf_count
      <3> QED BY <3>2, <3>5, <3>6, <3>7, <3>8
    <2> QED BY <2>1, <2>2
  <1>4. \A b \in 0 .. Len(ns) : (\A c \in 0 .. Len(ns) : c < b => c \in S) => b \in S
    BY <1>3
  <1> HIDE DEF S
  <1>5. 0 .. Len(ns) \subseteq S
    BY <1>1, <1>4, AddressInduction, Zenon
  <1>6. a \in S
    BY <1>2, <1>5
  <1> QED BY <1>6 DEF S


-----------------------------------------------------------------------------
(* What the rotations leave as it is. *)

Sound(u, t) == Good(u) /\ u.kind = "node" /\ u.value = t.value

LEMMA RepaintedIsSound ==
  ASSUME NEW t, Good(t), t.kind = "node", NEW color \in Colors
  PROVE  Sound(Repainted(t, color), t)
  <1> DEFINE u == Repainted(t, color)
  <1>1. /\ t.piece \in Pieces /\ Good(t.left) /\ Good(t.right)
        /\ t.value = JoinedValue(t.left.value, t.piece, t.right.value)
    BY GoodNode
  <1>2. u = Mk(color, t.left, t.piece, t.right)
    BY DEF Repainted
  <1>3. Good(u) /\ u.kind = "node"
    BY <1>1, <1>2, MkIsGood, MkKind
  <1>4. u.value = JoinedValue(t.left.value, t.piece, t.right.value)
    BY <1>2, MkIs
  <1> QED BY <1>1, <1>3, <1>4 DEF Sound

LEMMA RotLIsSound ==
  ASSUME NEW t, Good(t), t.kind = "node", t.right.kind = "node"
  PROVE  Sound(RotL(t), t)
  <1> DEFINE l == t.left
             r == t.right
             in == Mk("red", l, t.piece, r.left)
             u == Mk(t.color, in, r.piece, r.right)
  <1>1. /\ t.color \in Colors /\ t.piece \in Pieces /\ Good(l) /\ Good(r)
        /\ t.value = JoinedValue(l.value, t.piece, r.value)
    BY GoodNode
  <1>2. /\ r.piece \in Pieces /\ Good(r.left) /\ Good(r.right)
        /\ r.value = JoinedValue(r.left.value, r.piece, r.right.value)
    BY <1>1, GoodNode
  <1>3. in.value = JoinedValue(l.value, t.piece, r.left.value)
    BY MkIs
  <1>4. u.value = JoinedValue(in.value, r.piece, r.right.value)
    BY MkIs
  <1>5. Good(in) /\ Good(u) /\ u.kind = "node"
    BY <1>1, <1>2, MkIsGood, MkKind, ColorsAre
  <1>6. GoodValue(l.value) /\ GoodValue(r.left.value) /\ GoodValue(r.right.value)
    BY <1>1, <1>2, GoodIs
  <1>7. RotL(t) = u
    BY DEF RotL
  <1> HIDE DEF in, u, l, r
  <1>8. u.value = t.value
    BY <1>1, <1>2, <1>3, <1>4, <1>6, JoinedAssociative
  <1> QED BY <1>5, <1>7, <1>8 DEF Sound

LEMMA RotRIsSound ==
  ASSUME NEW t, Good(t), t.kind = "node", t.left.kind = "node"
  PROVE  Sound(RotR(t), t)
  <1> DEFINE l == t.left
             r == t.right
             in == Mk("red", l.right, t.piece, r)
             u == Mk(t.color, l.left, l.piece, in)
  <1>1. /\ t.color \in Colors /\ t.piece \in Pieces /\ Good(l) /\ Good(r)
        /\ t.value = JoinedValue(l.value, t.piece, r.value)
    BY GoodNode
  <1>2. /\ l.piece \in Pieces /\ Good(l.left) /\ Good(l.right)
        /\ l.value = JoinedValue(l.left.value, l.piece, l.right.value)
    BY <1>1, GoodNode
  <1>3. in.value = JoinedValue(l.right.value, t.piece, r.value)
    BY MkIs
  <1>4. u.value = JoinedValue(l.left.value, l.piece, in.value)
    BY MkIs
  <1>5. Good(in) /\ Good(u) /\ u.kind = "node"
    BY <1>1, <1>2, MkIsGood, MkKind, ColorsAre
  <1>6. GoodValue(r.value) /\ GoodValue(l.left.value) /\ GoodValue(l.right.value)
    BY <1>1, <1>2, GoodIs
  <1>7. RotR(t) = u
    BY DEF RotR
  <1> HIDE DEF in, u, l, r
  <1>8. u.value = t.value
    BY <1>1, <1>2, <1>3, <1>4, <1>6, JoinedAssociative
  <1> QED BY <1>5, <1>7, <1>8 DEF Sound

LEMMA FlipIsSound ==
  ASSUME NEW t, Good(t), t.kind = "node", t.left.kind = "node", t.right.kind = "node"
  PROVE  Sound(Flip(t), t)
  <1> DEFINE l == t.left
             r == t.right
             nl == Repainted(l, Flipped(l.color))
             nr == Repainted(r, Flipped(r.color))
             u == Mk(Flipped(t.color), nl, t.piece, nr)
  <1>1. /\ t.color \in Colors /\ t.piece \in Pieces /\ Good(l) /\ Good(r)
        /\ t.value = JoinedValue(l.value, t.piece, r.value)
    BY GoodNode
  <1>2. l.color \in Colors /\ r.color \in Colors
    BY <1>1, GoodIs
  <1>3. Flipped(t.color) \in Colors /\ Flipped(l.color) \in Colors /\ Flipped(r.color) \in Colors
    BY <1>1, <1>2, ColorsAre
  <1>4. Sound(nl, l) /\ Sound(nr, r)
    BY <1>1, <1>3, RepaintedIsSound
  <1>5. Flip(t) = u
    BY DEF Flip
  <1>6. u.value = JoinedValue(nl.value, t.piece, nr.value)
    BY MkIs
  <1> HIDE DEF nl, nr
  <1>7. Good(u) /\ u.kind = "node"
    BY <1>1, <1>3, <1>4, MkIsGood, MkKind DEF Sound
  <1>8. u.value = t.value
    BY <1>1, <1>4, <1>6 DEF Sound
  <1> QED BY <1>5, <1>7, <1>8 DEF Sound

LEMMA SoundIsTransitive ==
  ASSUME NEW t, NEW u, Sound(u, t), NEW v, Sound(v, u)
  PROVE  Sound(v, t)
  BY DEF Sound

LEMMA SoundIsReflexive ==
  ASSUME NEW t, Good(t), t.kind = "node"
  PROVE  Sound(t, t)
  BY DEF Sound

(* The children of a good tree that are red are nodes. *)
LEMMA RedAreNodes ==
  ASSUME NEW t, Good(t), t.kind = "node"
  PROVE  /\ Red(t.left) => t.left.kind = "node"
         /\ Red(t.right) => t.right.kind = "node"
         /\ t.left.kind # "leaf" <=> t.left.kind = "node"
         /\ t.right.kind # "leaf" <=> t.right.kind = "node"
  <1>1. Good(t.left) /\ Good(t.right)
    BY GoodNode
  <1> QED BY <1>1, GoodIs

LEMMA FixUpIsSound ==
  ASSUME NEW t, Good(t), t.kind = "node"
  PROVE  Sound(FixUp(t), t)
  <1> DEFINE a == FixL(t)
             b == FixR(a)
             c == FixF(b)
  <1>1. Sound(a, t)
    <2>1. CASE Red(t.right) /\ ~Red(t.left)
      BY <2>1, RedAreNodes, RotLIsSound DEF FixL
    <2>2. CASE ~(Red(t.right) /\ ~Red(t.left))
      BY <2>2, SoundIsReflexive DEF FixL
    <2> QED BY <2>1, <2>2
  <1> HIDE DEF a
  <1>2. Good(a) /\ a.kind = "node"
    BY <1>1 DEF Sound
  <1>3. Sound(b, a)
    <2>1. CASE Red(a.left) /\ Red(a.left.left)
      BY <1>2, <2>1, RedAreNodes, RotRIsSound DEF FixR
    <2>2. CASE ~(Red(a.left) /\ Red(a.left.left))
      BY <1>2, <2>2, SoundIsReflexive DEF FixR
    <2> QED BY <2>1, <2>2
  <1> HIDE DEF b
  <1>4. Good(b) /\ b.kind = "node"
    BY <1>3 DEF Sound
  <1>5. Sound(c, b)
    <2>1. CASE Red(b.left) /\ Red(b.right)
      BY <1>4, <2>1, RedAreNodes, FlipIsSound DEF FixF
    <2>2. CASE ~(Red(b.left) /\ Red(b.right))
      BY <1>4, <2>2, SoundIsReflexive DEF FixF
    <2> QED BY <2>1, <2>2
  <1>6. c = FixUp(t)
    BY DEF FixUp, a, b
  <1> HIDE DEF c
  <1>7. Sound(c, t)
    BY <1>1, <1>3, <1>5, SoundIsTransitive
  <1> QED BY <1>6, <1>7

LEMMA LeanIsSound ==
  ASSUME NEW t, Good(t), t.kind = "node"
  PROVE  Sound(Lean(t), t)
  <1>1. CASE Red(t.left)
    BY <1>1, RedAreNodes, RotRIsSound DEF Lean
  <1>2. CASE ~Red(t.left)
    BY <1>2, SoundIsReflexive DEF Lean
  <1> QED BY <1>1, <1>2


-----------------------------------------------------------------------------
(* What the rotations do to the colors and heights. *)

LEMMA MkShape ==
  ASSUME NEW c \in Colors, NEW l, NEW p, NEW r, NEW t, t = Mk(c, l, p, r)
  PROVE  /\ t.kind = "node" /\ t.color = c /\ t.left = l /\ t.piece = p /\ t.right = r
         /\ t.height = l.height + (IF c = "black" THEN 1 ELSE 0)
         /\ Ok(t) <=> /\ Ok(l) /\ Ok(r) /\ l.height = r.height /\ Black(r)
                      /\ c = "red" => Black(l)
         /\ Red(t) <=> c = "red"
         /\ Black(t) <=> c = "black"
         /\ Red(t) <=> ~Black(t)
  <1>1. /\ t.kind = "node" /\ t.color = c /\ t.left = l /\ t.piece = p /\ t.right = r
        /\ t.height = l.height + (IF c = "black" THEN 1 ELSE 0)
        /\ Ok(t) <=> Leaning(l, c, r)
        /\ (Red(t) <=> c = "red") /\ (Black(t) <=> c = "black")
    BY MkIs
  <1>2. Leaning(l, c, r) <=> /\ Ok(l) /\ Ok(r) /\ l.height = r.height /\ Black(r)
                             /\ c = "red" => Black(l)
    BY DEF Leaning, Ok, Black
  <1> QED BY <1>1, <1>2 DEF Colors

(* A tree painted in another color. *)
LEMMA RepaintedShape ==
  ASSUME NEW t, Good(t), t.kind = "node", NEW c \in Colors, NEW u, u = Repainted(t, c)
  PROVE  /\ u.kind = "node" /\ u.color = c /\ u.left = t.left /\ u.right = t.right
         /\ Red(u) <=> c = "red"
         /\ Black(u) <=> c = "black"
         /\ u.height = t.left.height + (IF c = "black" THEN 1 ELSE 0)
         /\ Ok(t) /\ (c = "red" => Black(t.left)) => Ok(u)
  <1>1. /\ Ok(t) <=> Leaning(t.left, t.color, t.right)
        /\ t.color \in Colors
    BY GoodNode
  <1>2. u = Mk(c, t.left, t.piece, t.right)
    BY DEF Repainted
  <1>3. /\ u.kind = "node" /\ u.color = c /\ u.left = t.left /\ u.right = t.right
        /\ Red(u) <=> c = "red"
        /\ Black(u) <=> c = "black"
        /\ u.height = t.left.height + (IF c = "black" THEN 1 ELSE 0)
        /\ Ok(u) <=> /\ Ok(t.left) /\ Ok(t.right) /\ t.left.height = t.right.height /\ Black(t.right)
                     /\ c = "red" => Black(t.left)
    BY <1>2, MkShape
  <1> QED BY <1>1, <1>3 DEF Leaning, Ok, Black

LEMMA FlippedIs == Flipped("red") = "black" /\ Flipped("black") = "red"
  BY DEF Flipped

LEMMA FixUpSame ==
  ASSUME NEW c \in Colors, NEW l, Good(l), NEW p \in Pieces, NEW r, Good(r),
         NEW x, x = Mk(c, l, p, r),
         Black(r), Red(l) => ~Red(l.left)
  PROVE  FixUp(x) = x
  <1>1. x.left = l /\ x.right = r
    BY MkShape
  <1>2. ~Red(r)
    BY GoodIs
  <1>3. FixL(x) = x
    BY <1>1, <1>2 DEF FixL
  <1>4. FixR(x) = x
    BY <1>1 DEF FixR
  <1>5. FixF(x) = x
    BY <1>1, <1>2 DEF FixF
  <1> QED BY <1>3, <1>4, <1>5 DEF FixUp

LEMMA FixUpRotL ==
  ASSUME NEW c \in Colors, NEW l, Good(l), NEW p \in Pieces, NEW r, Good(r),
         NEW x, x = Mk(c, l, p, r), Black(l), Red(r), Black(r.right)
  PROVE  FixUp(x) = Mk(c, Mk("red", l, p, r.left), r.piece, r.right)
  <1> DEFINE in == Mk("red", l, p, r.left)
             y == Mk(c, in, r.piece, r.right)
  <1>1. x.left = l /\ x.right = r /\ x.piece = p /\ x.color = c
    BY MkShape
  <1>2. Good(r.right) /\ r.kind = "node"
    BY GoodIs
  <1>3. ~Red(l) /\ ~Red(r.right)
    BY <1>2, GoodIs
  <1>4. RotL(x) = y
    BY <1>1 DEF RotL
  <1>5. in.left = l
    BY MkShape, ColorsAre
  <1>6. y.left = in /\ y.right = r.right
    BY MkShape
  <1> HIDE DEF in, y
  <1>7. FixL(x) = y
    BY <1>1, <1>3, <1>4 DEF FixL
  <1>8. FixR(y) = y
    BY <1>3, <1>5, <1>6 DEF FixR
  <1>9. FixF(y) = y
    BY <1>3, <1>6 DEF FixF
  <1> QED BY <1>7, <1>8, <1>9 DEF FixUp, y, in

LEMMA FixUpFlip ==
  ASSUME NEW c \in Colors, NEW l, Good(l), NEW p \in Pieces, NEW r, Good(r),
         NEW x, x = Mk(c, l, p, r), Red(l), ~Red(l.left), Red(r)
  PROVE  FixUp(x) = Mk(Flipped(c), Repainted(l, "black"), p, Repainted(r, "black"))
  <1>1. x.left = l /\ x.right = r /\ x.piece = p /\ x.color = c
    BY MkShape
  <1>2. FixL(x) = x
    BY <1>1 DEF FixL
  <1>3. FixR(x) = x
    BY <1>1 DEF FixR
  <1>4. FixF(x) = Flip(x)
    BY <1>1 DEF FixF
  <1>5. Flipped(l.color) = "black" /\ Flipped(r.color) = "black"
    BY DEF Flipped, Red
  <1>6. Flip(x) = Mk(Flipped(c), Repainted(l, "black"), p, Repainted(r, "black"))
    BY <1>1, <1>5 DEF Flip
  <1> QED BY <1>2, <1>3, <1>4, <1>6 DEF FixUp

LEMMA FixUpRotR ==
  ASSUME NEW c \in Colors, NEW l, Good(l), NEW p \in Pieces, NEW r, Good(r),
         NEW x, x = Mk(c, l, p, r), Red(l), Red(l.left), Black(r)
  PROVE  FixUp(x) = Mk(Flipped(c), Repainted(l.left, "black"), l.piece, Mk("black", l.right, p, r))
  <1> DEFINE in == Mk("red", l.right, p, r)
             y == Mk(c, l.left, l.piece, in)
  <1>1. x.left = l /\ x.right = r /\ x.piece = p /\ x.color = c
    BY MkShape
  <1>2. ~Red(r)
    BY GoodIs
  <1>3. FixL(x) = x
    BY <1>1, <1>2 DEF FixL
  <1>4. FixR(x) = y
    BY <1>1 DEF FixR, RotR
  <1>5. in.left = l.right /\ in.piece = p /\ in.right = r /\ in.color = "red" /\ Red(in)
    BY MkShape, ColorsAre
  <1>6. y.left = l.left /\ y.right = in /\ y.piece = l.piece /\ y.color = c
    BY MkShape
  <1> HIDE DEF in, y
  <1>7. FixF(y) = Flip(y)
    BY <1>5, <1>6 DEF FixF
  <1>8. Flipped(l.left.color) = "black" /\ Flipped(in.color) = "black"
    BY <1>5 DEF Flipped, Red
  <1>9. Flip(y) = Mk(Flipped(c), Repainted(l.left, "black"), l.piece, Repainted(in, "black"))
    BY <1>6, <1>8 DEF Flip
  <1>10. Repainted(in, "black") = Mk("black", l.right, p, r)
    BY <1>5 DEF Repainted
  <1> QED BY <1>3, <1>4, <1>7, <1>9, <1>10 DEF FixUp

(* A red node of height h that leans to the left, but may have a red child. *)
HalfOk(u, h) ==
    /\ u.kind = "node" /\ Red(u)
    /\ Ok(u.left) /\ Ok(u.right) /\ Black(u.right)
    /\ u.left.height = h /\ u.right.height = h

(* A node of two trees of the same height, rebalanced. *)
FixedUp(u, c, l, r) ==
    /\ c = "black" => Ok(u) /\ u.height = l.height + 1
    /\ c = "black" /\ ~(Red(l) /\ Red(r)) => Black(u)
    /\ c = "red" /\ Black(l) /\ Black(r) => Ok(u) /\ Red(u) /\ u.height = l.height
    /\ c = "red" /\ ~(Red(l) /\ Red(r)) => HalfOk(u, l.height)
    /\ c = "red" /\ Red(l) /\ Red(r) => Ok(u) /\ Black(u)

(* A good tree that leans, by its children. *)
LEMMA OkIs ==
  ASSUME NEW t, Good(t), Ok(t), t.kind = "node"
  PROVE  /\ Ok(t.left) /\ Ok(t.right) /\ t.left.height = t.right.height
         /\ Black(t.right) /\ ~Red(t.right)
         /\ Red(t) => Black(t.left) /\ ~Red(t.left)
         /\ t.height = t.left.height + (IF Black(t) THEN 1 ELSE 0)
         /\ Red(t) => t.height = t.left.height
         /\ Black(t) => t.height = t.left.height + 1
         /\ Good(t.left) /\ Good(t.right) /\ t.left.height \in Nat
         /\ Red(t) <=> ~Black(t)
  <1>1. /\ Good(t.left) /\ Good(t.right) /\ Leaning(t.left, t.color, t.right)
        /\ t.height = t.left.height + (IF Black(t) THEN 1 ELSE 0)
    BY GoodNode
  <1>2. (Red(t) <=> ~Black(t)) /\ (Red(t.left) <=> ~Black(t.left))
        /\ (Red(t.right) <=> ~Black(t.right)) /\ t.left.height \in Nat
    BY <1>1, GoodIs
  <1>3. (Red(t) => t.height = t.left.height) /\ (Black(t) => t.height = t.left.height + 1)
    BY <1>1, <1>2 DEF Black, Red
  <1> QED BY <1>1, <1>2, <1>3 DEF Leaning, Ok, Black, Red

LEMMA FixUpIs ==
  ASSUME NEW c \in Colors, NEW l, Good(l), NEW p \in Pieces, NEW r, Good(r),
         Ok(l), Ok(r), l.height = r.height, NEW u, u = FixUp(Mk(c, l, p, r))
  PROVE  FixedUp(u, c, l, r)
  <1> DEFINE x == Mk(c, l, p, r)
  <1>1. /\ x.kind = "node" /\ x.left = l /\ x.right = r
        /\ x.height = l.height + (IF c = "black" THEN 1 ELSE 0)
        /\ Ok(x) <=> /\ Ok(l) /\ Ok(r) /\ l.height = r.height /\ Black(r)
                     /\ c = "red" => Black(l)
        /\ Red(x) <=> c = "red"
        /\ Black(x) <=> c = "black"
    BY MkShape
  <1>2. l.height \in Nat /\ (Red(l) <=> ~Black(l)) /\ (Red(r) <=> ~Black(r))
    BY GoodIs
  <1>3. c = "red" \/ c = "black"
    BY DEF Colors
  <1>4. CASE Black(r)
    <2>1. Red(l) => ~Red(l.left)
      BY OkIs, GoodIs
    <2>2. FixUp(x) = x
      BY <1>4, <2>1, FixUpSame
    <2> HIDE DEF x
    <2>3. u = x
      BY <2>2 DEF x
    <2>4. c = "red" => HalfOk(u, l.height)
      BY <2>3, <1>1, <1>4 DEF HalfOk
    <2> QED BY <2>3, <2>4, <1>1, <1>2, <1>3, <1>4 DEF FixedUp
  <1>5. CASE Black(l) /\ Red(r)
    <2>1. r.kind = "node"
      BY <1>5, GoodIs
    <2>2. /\ Ok(r.left) /\ Ok(r.right) /\ r.left.height = r.right.height /\ Black(r.right)
          /\ Black(r.left) /\ r.height = r.left.height /\ r.left.height \in Nat
      <3>1. /\ Ok(r.left) /\ Ok(r.right) /\ r.left.height = r.right.height /\ Black(r.right)
            /\ Black(r.left) /\ r.height = r.left.height + (IF Black(r) THEN 1 ELSE 0)
            /\ r.left.height \in Nat
        BY <1>5, <2>1, OkIs
      <3> QED BY <3>1, <1>2, <1>5
    <2> DEFINE in == Mk("red", l, p, r.left)
               y == Mk(c, in, r.piece, r.right)
    <2>3. FixUp(x) = y
      BY <1>5, <2>2, FixUpRotL
    <2>4. /\ in.height = l.height + (IF "red" = "black" THEN 1 ELSE 0)
          /\ Ok(in) <=> /\ Ok(l) /\ Ok(r.left) /\ l.height = r.left.height /\ Black(r.left)
                        /\ "red" = "red" => Black(l)
      BY MkShape, ColorsAre
    <2>5. in.height = l.height /\ Ok(in)
      BY <1>2, <1>5, <2>2, <2>4
    <2>6. /\ y.kind = "node" /\ y.left = in /\ y.right = r.right
          /\ y.height = in.height + (IF c = "black" THEN 1 ELSE 0)
          /\ Ok(y) <=> /\ Ok(in) /\ Ok(r.right) /\ in.height = r.right.height /\ Black(r.right)
                       /\ c = "red" => Black(in)
          /\ Red(y) <=> c = "red"
          /\ Black(y) <=> c = "black"
      BY MkShape
    <2>7. u = y
      BY <2>3
    <2> HIDE DEF in, y
    <2>8. c = "red" => HalfOk(y, l.height)
      BY <2>2, <2>5, <2>6 DEF HalfOk
    <2>9. c = "black" => Ok(y) /\ y.height = l.height + 1 /\ Black(y)
      BY <2>2, <2>5, <2>6
    <2> QED BY <2>7, <2>8, <2>9, <1>2, <1>3, <1>5 DEF FixedUp
  <1>6. CASE Red(l) /\ Red(r)
    <2>1. l.kind = "node" /\ r.kind = "node"
      BY <1>6, GoodIs
    <2>2. /\ ~Red(l.left) /\ l.height = l.left.height + (IF Black(l) THEN 1 ELSE 0)
          /\ r.height = r.left.height + (IF Black(r) THEN 1 ELSE 0)
          /\ l.left.height \in Nat /\ r.left.height \in Nat
      BY <1>6, <2>1, OkIs
    <2> DEFINE nl == Repainted(l, "black")
               nr == Repainted(r, "black")
               d == Flipped(c)
               y == Mk(d, nl, p, nr)
    <2>3. FixUp(x) = y
      BY <1>6, <2>2, FixUpFlip
    <2>4. /\ Ok(nl) /\ Black(nl) /\ nl.height = l.left.height + (IF "black" = "black" THEN 1 ELSE 0)
          /\ Ok(nr) /\ Black(nr) /\ nr.height = r.left.height + (IF "black" = "black" THEN 1 ELSE 0)
      BY <2>1, RepaintedShape, ColorsAre
    <2>5. nl.height = l.height + 1 /\ nr.height = nl.height
      <3>1. l.height = l.left.height /\ r.height = r.left.height
        BY <1>6, <2>1, OkIs
      <3>2. nl.height = l.left.height + 1 /\ nr.height = r.left.height + 1
        BY <2>4
      <3> QED BY <3>1, <3>2
    <2>6. d \in Colors /\ (c = "black" => d = "red") /\ (c = "red" => d = "black")
      BY ColorsAre, FlippedIs
    <2>7. /\ y.height = nl.height + (IF d = "black" THEN 1 ELSE 0)
          /\ Ok(y) <=> /\ Ok(nl) /\ Ok(nr) /\ nl.height = nr.height /\ Black(nr)
                       /\ d = "red" => Black(nl)
          /\ Black(y) <=> d = "black"
      BY <2>6, MkShape
    <2>8. u = y
      BY <2>3
    <2> HIDE DEF nl, nr, d, y
    <2>9. Ok(y) /\ (c = "black" => y.height = l.height + 1) /\ (c = "red" => Black(y))
      BY <2>4, <2>5, <2>6, <2>7, <1>2
    <2> QED BY <2>8, <2>9, <1>2, <1>3, <1>6 DEF FixedUp
  <1> QED BY <1>2, <1>4, <1>5, <1>6


-----------------------------------------------------------------------------
(* What an insertion gives: a tree of the same height, or one that the node *)
(* above it makes right, with the value that has the piece.               *)

Grown(t, u) ==
    /\ Black(t) => Ok(u) /\ u.height = t.height
    /\ Red(t) => HalfOk(u, t.height)

Inserts(u, t, p, at) ==
    /\ Good(u) /\ u.kind = "node" /\ Grown(t, u)
    /\ u.value = Values!InsertPiece(t.value, p, at)

LEMMA GrownLeft ==
  ASSUME NEW t, Good(t), Ok(t), t.kind = "node", NEW s, Good(s), Grown(t.left, s)
  PROVE  Grown(t, RejoinedL(t, s))
  <1> DEFINE l == t.left
             r == t.right
             c == t.color
             p == t.piece
             u == FixUp(Mk(c, s, p, r))
  <1>1. RejoinedL(t, s) = u
    BY DEF RejoinedL
  <1>2. /\ Ok(l) /\ Ok(r) /\ l.height = r.height /\ Black(r) /\ l.height \in Nat
        /\ Red(t) => Black(l) /\ t.height = l.height
        /\ Black(t) => t.height = l.height + 1
        /\ Good(l) /\ Good(r) /\ (Red(t) <=> ~Black(t)) /\ (Red(r) <=> ~Black(r))
    BY OkIs, GoodIs
  <1>3. c \in Colors /\ p \in Pieces /\ (c = "black" <=> Black(t)) /\ (c = "red" <=> Red(t))
    BY GoodNode DEF Black, Red
  <1>4. Grown(l, s) /\ (Red(l) <=> ~Black(l)) /\ (Red(s) <=> ~Black(s))
    BY <1>2, GoodIs
  <1> HIDE DEF l, r, c, p
  <1>5. CASE Ok(s) /\ s.height = l.height
    <2>1. FixedUp(u, c, s, r)
      BY <1>2, <1>3, <1>5, FixUpIs
    <2>2. /\ c = "black" => Ok(u) /\ u.height = s.height + 1
          /\ c = "red" => HalfOk(u, s.height)
      BY <2>1, <1>2, <1>4 DEF FixedUp
    <2> HIDE DEF u
    <2>3. Grown(t, u)
      BY <2>2, <1>2, <1>3, <1>5 DEF Grown
    <2> QED BY <1>1, <2>3
  <1>6. CASE ~(Ok(s) /\ s.height = l.height)
    <2>1. Red(l) /\ HalfOk(s, l.height)
      BY <1>4, <1>6 DEF Grown
    <2>2. Black(t) /\ ~Red(t) /\ c = "black"
      BY <1>2, <1>3, <1>4, <2>1
    <2>3. /\ s.kind = "node" /\ Red(s) /\ Ok(s.left) /\ Ok(s.right) /\ Black(s.right)
          /\ s.left.height = l.height /\ s.right.height = l.height
      BY <2>1 DEF HalfOk
    <2>4. /\ s.color \in Colors /\ s.piece \in Pieces /\ Good(s.left) /\ Good(s.right)
          /\ s.height = s.left.height + (IF Black(s) THEN 1 ELSE 0)
          /\ Ok(s) <=> Leaning(s.left, s.color, s.right)
      BY <2>3, GoodNode
    <2>5. Red(s.left)
      <3>1. s.height = l.height
        <4>1. ~Black(s)
          BY <2>3, <1>4
        <4> QED BY <4>1, <2>3, <2>4, <1>2
      <3>2. ~Ok(s)
        BY <3>1, <1>6
      <3>3. ~Black(s.left)
        BY <3>2, <2>3, <2>4 DEF Leaning, Ok, Black
      <3> QED BY <3>3, <2>4, GoodIs
    <2> DEFINE x == s.left
               in == Mk("black", s.right, p, r)
               y == Mk(Flipped(c), Repainted(x, "black"), s.piece, in)
    <2>6. u = y
      BY <1>2, <1>3, <2>3, <2>5, FixUpRotR
    <2>7. /\ in.height = s.right.height + (IF "black" = "black" THEN 1 ELSE 0)
          /\ Ok(in) <=> /\ Ok(s.right) /\ Ok(r) /\ s.right.height = r.height /\ Black(r)
                        /\ "black" = "red" => Black(s.right)
          /\ Black(in) <=> "black" = "black"
      BY MkShape, ColorsAre
    <2>8. Ok(in) /\ Black(in) /\ in.height = l.height + 1
      BY <2>3, <2>7, <1>2
    <2>9. x.kind = "node" /\ x.left.height = x.height
      <3>1. x.kind = "node"
        BY <2>4, <2>5, GoodIs
      <3> QED BY <3>1, <2>3, <2>4, <2>5, OkIs
    <2> DEFINE nl == Repainted(x, "black")
    <2>10. Ok(nl) /\ Black(nl) /\ nl.height = x.left.height + 1
      <3>1. /\ nl.height = x.left.height + (IF "black" = "black" THEN 1 ELSE 0)
            /\ Black(nl) <=> "black" = "black"
            /\ Ok(x) /\ ("black" = "red" => Black(x.left)) => Ok(nl)
        BY <2>4, <2>9, RepaintedShape, ColorsAre
      <3> QED BY <3>1, <2>3
    <2>11. Flipped(c) = "red"
      BY <2>2, FlippedIs
    <2>12. y = Mk("red", nl, s.piece, in)
      BY <2>11
    <2> HIDE DEF in, nl, y
    <2>13. /\ y.height = nl.height + (IF "red" = "black" THEN 1 ELSE 0)
           /\ Ok(y) <=> /\ Ok(nl) /\ Ok(in) /\ nl.height = in.height /\ Black(in)
                        /\ "red" = "red" => Black(nl)
      BY <2>12, MkShape, ColorsAre
    <2>14. nl.height = l.height + 1
      BY <2>3, <2>9, <2>10
    <2>15. Ok(y) /\ y.height = l.height + 1
      BY <2>8, <2>10, <2>13, <2>14, <1>2
    <2> HIDE DEF u
    <2>16. Grown(t, u)
      BY <2>2, <2>6, <2>15, <1>2 DEF Grown
    <2> QED BY <1>1, <2>16
  <1> QED BY <1>5, <1>6

LEMMA GrownRight ==
  ASSUME NEW t, Good(t), Ok(t), t.kind = "node", NEW s, Good(s), Grown(t.right, s)
  PROVE  Grown(t, RejoinedR(t, s))
  <1> DEFINE l == t.left
             r == t.right
             c == t.color
             p == t.piece
             u == FixUp(Mk(c, l, p, s))
  <1>1. RejoinedR(t, s) = u
    BY DEF RejoinedR
  <1>2. /\ Ok(l) /\ Ok(r) /\ l.height = r.height /\ Black(r) /\ l.height \in Nat
        /\ Red(t) => Black(l) /\ t.height = l.height
        /\ Black(t) => t.height = l.height + 1
        /\ Good(l) /\ Good(r) /\ (Red(t) <=> ~Black(t)) /\ (Red(l) <=> ~Black(l))
    BY OkIs, GoodIs
  <1>3. c \in Colors /\ p \in Pieces /\ (c = "black" <=> Black(t)) /\ (c = "red" <=> Red(t))
    BY GoodNode DEF Black, Red
  <1>4. Ok(s) /\ s.height = l.height
    BY <1>2 DEF Grown
  <1> HIDE DEF l, r, c, p
  <1>5. FixedUp(u, c, l, s)
    BY <1>2, <1>3, <1>4, FixUpIs
  <1>6. /\ c = "black" => Ok(u) /\ u.height = l.height + 1
        /\ c = "red" => HalfOk(u, l.height)
    BY <1>2, <1>3, <1>5 DEF FixedUp
  <1> HIDE DEF u
  <1>7. Grown(t, u)
    BY <1>6, <1>2, <1>3 DEF Grown
  <1> QED BY <1>1, <1>7

LEMMA InsertsNode ==
  ASSUME NEW p \in Pieces
  PROVE  Inserts(Mk("red", Leaf, p, Leaf), Leaf, p, 0)
  <1> DEFINE u == Mk("red", Leaf, p, Leaf)
  <1>1. Good(u) /\ u.kind = "node"
    BY LeafIsGood, MkIsGood, MkKind, ColorsAre
  <1>2. u.value = Values!InsertPiece(Leaf.value, p, 0)
    BY MkIs, LeafIs, InsertNothing
  <1>3. /\ u.height = Leaf.height + (IF "red" = "black" THEN 1 ELSE 0)
        /\ Ok(u) <=> /\ Ok(Leaf) /\ Ok(Leaf) /\ Leaf.height = Leaf.height /\ Black(Leaf)
                     /\ "red" = "red" => Black(Leaf)
    BY MkShape, ColorsAre
  <1>4. Ok(u) /\ u.height = Leaf.height
    BY <1>3, LeafIs
  <1> HIDE DEF u
  <1>5. Grown(Leaf, u)
    BY <1>4, LeafIs DEF Grown
  <1>6. Inserts(u, Leaf, p, 0)
    BY <1>1, <1>2, <1>5 DEF Inserts
  <1> QED BY <1>6 DEF u

LEMMA InsertsLeft ==
  ASSUME NEW t, Good(t), Ok(t), t.kind = "node", NEW p \in Pieces, NEW at \in Nat,
         at <= t.left.value.length, NEW s, Inserts(s, t.left, p, at)
  PROVE  Inserts(RejoinedL(t, s), t, p, at)
  <1> DEFINE x == Mk(t.color, s, t.piece, t.right)
             u == RejoinedL(t, s)
             l == t.left.value
             r == t.right.value
             q == t.piece
  <1>1. /\ t.color \in Colors /\ t.piece \in Pieces /\ Good(t.left) /\ Good(t.right)
        /\ t.value = JoinedValue(l, q, r) /\ GoodValue(l) /\ GoodValue(r)
    BY GoodNode
  <1>2. Good(s) /\ Grown(t.left, s) /\ s.value = Values!InsertPiece(l, p, at) /\ GoodValue(s.value)
    BY GoodIs DEF Inserts
  <1>3. Grown(t, u)
    BY <1>2, GrownLeft
  <1>4. Good(x) /\ x.kind = "node"
    BY <1>1, <1>2, MkIsGood, MkKind
  <1>5. x.value = JoinedValue(s.value, q, r)
    BY MkIs
  <1> HIDE DEF x
  <1>6. Sound(FixUp(x), x)
    BY <1>4, FixUpIsSound
  <1>7. u = FixUp(x)
    BY DEF RejoinedL, x
  <1> HIDE DEF u, l, r, q
  <1>8. JoinedValue(s.value, q, r) = Values!InsertPiece(JoinedValue(l, q, r), p, at)
    BY <1>1, <1>2, InsertLeft DEF l, q
  <1>9. Inserts(u, t, p, at)
    BY <1>1, <1>3, <1>5, <1>6, <1>7, <1>8 DEF Sound, Inserts
  <1> QED BY <1>9 DEF u

LEMMA InsertsRight ==
  ASSUME NEW t, Good(t), Ok(t), t.kind = "node", NEW p \in Pieces, NEW at \in Nat,
         NEW b \in Nat, at = t.left.value.length + t.piece.length + b,
         NEW s, Inserts(s, t.right, p, b)
  PROVE  Inserts(RejoinedR(t, s), t, p, at)
  <1> DEFINE x == Mk(t.color, t.left, t.piece, s)
             u == RejoinedR(t, s)
             l == t.left.value
             r == t.right.value
             q == t.piece
  <1>1. /\ t.color \in Colors /\ t.piece \in Pieces /\ Good(t.left) /\ Good(t.right)
        /\ t.value = JoinedValue(l, q, r) /\ GoodValue(l) /\ GoodValue(r)
    BY GoodNode
  <1>2. Good(s) /\ Grown(t.right, s) /\ s.value = Values!InsertPiece(r, p, b) /\ GoodValue(s.value)
    BY GoodIs DEF Inserts
  <1>3. Grown(t, u)
    BY <1>2, GrownRight
  <1>4. Good(x) /\ x.kind = "node"
    BY <1>1, <1>2, MkIsGood, MkKind
  <1>5. x.value = JoinedValue(l, q, s.value)
    BY MkIs
  <1> HIDE DEF x
  <1>6. Sound(FixUp(x), x)
    BY <1>4, FixUpIsSound
  <1>7. u = FixUp(x)
    BY DEF RejoinedR, x
  <1>8. JoinedValue(l, q, s.value) = Values!InsertPiece(JoinedValue(l, q, r), p, at)
    <2> HIDE DEF u, l, r
    <2>1. at = l.length + q.length + b
      BY DEF l
    <2> HIDE DEF q
    <2> QED BY <2>1, <1>1, <1>2, InsertRight DEF q
  <1> HIDE DEF u, l, r, q
  <1>9. Inserts(u, t, p, at)
    BY <1>1, <1>3, <1>5, <1>6, <1>7, <1>8 DEF Sound, Inserts
  <1> QED BY <1>9 DEF u

-----------------------------------------------------------------------------
(* Insertion *)

LEMMA YieldsNull ==
  ASSUME NEW ns, NEW own \in Owned, NEW o, NEW t, Yields(ns, own, o, t)
  PROVE  Yields(ns, Plus(own, NULL), o, t)
  <1>1. Heap(o.nodes, Plus(own, o.node)) /\ o.node \in Nat
    BY DEF Yields
  <1>2. NULL \in Nat /\ Plus(own, o.node) \in Owned
    BY <1>1, PlusIs DEF NULL
  <1>3. Heap(o.nodes, Plus(Plus(own, o.node), NULL))
    BY <1>1, <1>2, NullOwned
  <1>4. Plus(Plus(own, o.node), NULL) = Plus(Plus(own, NULL), o.node)
    BY <1>1, <1>2, PlusCommutes, Zenon
  <1>5. Heap(o.nodes, Plus(Plus(own, NULL), o.node))
    BY <1>3, <1>4
  <1> QED BY <1>5, Zenon DEF Yields

(* The offsets at which a value is cut. *)
Boundaries(v) == DOMAIN v.pieces \cup {v.length}

LEMMA BoundariesAre ==
  ASSUME NEW l, GoodValue(l), NEW q \in Pieces, NEW r, GoodValue(r), NEW m,
         m = JoinedValue(l, q, r), NEW at \in Boundaries(m)
  PROVE  /\ at \in Nat /\ l.length \in Nat /\ q.length \in Nat
         /\ at <= l.length => at \in Boundaries(l)
         /\ ~(at <= l.length) => /\ at - l.length - q.length \in Boundaries(r)
                                 /\ at - l.length - q.length \in Nat
  <1> DEFINE x == l.length
             y == q.length
             z == r.length
  <1>1. IsJoined(m, l, q, r) /\ GoodValue(m)
    BY JoinedIs, Zenon
  <1>2. x \in Nat /\ y \in Nat /\ y > 0 /\ z \in Nat
    BY PieceIs DEF GoodValue
  <1>3. m.length = x + y + z
    BY <1>1 DEF IsJoined
  <1>4. at \in Nat
    BY <1>1 DEF GoodValue, Boundaries
  <1>5. \A t \in DOMAIN r.pieces : t \in Nat
    BY DEF GoodValue
  <1>6. \/ at \in DOMAIN l.pieces /\ at < x
        \/ at = x
        \/ \E t \in DOMAIN r.pieces : at = x + y + t
        \/ at = x + y + z
    BY <1>1, <1>3 DEF IsJoined, Boundaries
  <1> HIDE DEF x, y, z
  <1>7. CASE at \in DOMAIN l.pieces /\ at < x
    BY <1>2, <1>4, <1>7 DEF Boundaries, x, y
  <1>8. CASE at = x
    BY <1>2, <1>4, <1>8 DEF Boundaries, x, y
  <1>9. CASE \E t \in DOMAIN r.pieces : at = x + y + t
    <2>1. PICK t \in DOMAIN r.pieces : at = x + y + t
      BY <1>9
    <2>2. at - x - y = t /\ ~(at <= x) /\ t \in Nat
      BY <2>1, <1>2, <1>5
    <2> QED BY <2>2, <1>2, <1>4 DEF Boundaries, x, y
  <1>10. CASE at = x + y + z
    <2>1. at - x - y = z /\ ~(at <= x)
      BY <1>10, <1>2
    <2> QED BY <2>1, <1>2, <1>4 DEF Boundaries, x, y, z
  <1> QED BY <1>6, <1>7, <1>8, <1>9, <1>10

LEMMA NothingIsCutAtZero ==
  ASSUME NEW at \in Boundaries(Nothing)
  PROVE  at = 0
  BY NothingIsGood DEF Boundaries

(* An insertion gives an owned node of the tree with the piece. *)
LEMMA InsertYields ==
  ASSUME NEW ns, NEW own, Heap(ns, own), NEW n, InUse(ns, n), Ok(Tree(ns, n)),
         NEW piece \in Pieces, NEW offset \in Boundaries(Tree(ns, n).value)
  PROVE  \E u : /\ Yields(ns, own, insert_node(ns, n, piece, offset), u)
                /\ Inserts(u, Tree(ns, n), piece, offset)
  <1> DEFINE f == CHOOSE f : InsertsUp(f, ns, piece, Len(ns))
  <1>1. insert_node(ns, n, piece, offset) = f[n][offset]
    BY Zenon DEF insert_node, InsertsUp, InsertStep, Addresses
  <1>2. /\ WellMade(ns) /\ ns \in Store /\ own \in Owned /\ Len(ns) \in Nat /\ Older(ns)
        /\ \A a : InUse(ns, a) => a \in 0 .. Len(ns)
    BY HeapIs, ChildrenAreOlder
  <1>3. InsertsUp(f, ns, piece, Len(ns))
    BY <1>2, FunctionsExist, Zenon
  <1> HIDE DEF f
  <1>4. \A m \in 0 .. Len(ns), at \in Int :
           f[m][at] =
              LET here == node_length(ns, ns[m].left)
              IN  IF m = NULL THEN make_node(ns, "red", NULL, piece, NULL)
                  ELSE IF at <= here
                  THEN RebuiltLeft(m, f[ns[m].left][at], FALSE)
                  ELSE RebuiltRight(m, f[ns[m].right][at - here - ns[m].piece.length], FALSE)
    <2> DEFINE cell(m, at) ==
                  LET here == node_length(ns, ns[m].left)
                  IN  IF m = NULL THEN make_node(ns, "red", NULL, piece, NULL)
                      ELSE IF at <= here
                      THEN RebuiltLeft(m, f[ns[m].left][at], FALSE)
                      ELSE RebuiltRight(m, f[ns[m].right][at - here - ns[m].piece.length], FALSE)
               row(m) == [at \in Int |-> cell(m, at)]
    <2>1. f = [m \in 0 .. Len(ns) |-> row(m)]
      BY <1>3, Zenon DEF InsertsUp, InsertStep
    <2> HIDE DEF cell
    <2>2. \A m, at : at \in Int => row(m)[at] = cell(m, at)
      OBVIOUS
    <2> HIDE DEF row
    <2>3. \A m \in 0 .. Len(ns) : f[m] = row(m)
      BY <2>1
    <2>4. \A m \in 0 .. Len(ns), at \in Int : f[m][at] = cell(m, at)
      BY <2>2, <2>3
    <2> QED BY <2>4, Zenon DEF cell
  <1> DEFINE Done(m, at) == \E u : Yields(ns, own, f[m][at], u) /\ Inserts(u, Tree(ns, m), piece, at)
             S == {m \in 0 .. Len(ns) :
                      InUse(ns, m) /\ Ok(Tree(ns, m))
                        => \A at \in Boundaries(Tree(ns, m).value) : Done(m, at)}
  <1>5. ASSUME NEW m \in 0 .. Len(ns), \A b \in 0 .. Len(ns) : b < m => b \in S,
               InUse(ns, m), Ok(Tree(ns, m)), NEW at \in Boundaries(Tree(ns, m).value)
        PROVE  Done(m, at)
    <2> DEFINE t == Tree(ns, m)
    <2>1. Good(t)
      BY <1>2, <1>5, TreesAreGood
    <2>2. CASE m = NULL
      <3>1. t = Leaf
        BY <2>2, <1>2, TreeAt
      <3>2. at = 0
        BY <3>1, <1>5, LeafIs, NothingIsCutAtZero
      <3>3. f[m][at] = make_node(ns, "red", NULL, piece, NULL)
        <4>1. 0 \in Int /\ at \in Int
          BY <3>2
        <4> QED BY <4>1, <2>2, <1>4, Zenon
      <3>4. Yields(ns, own, make_node(ns, "red", NULL, piece, NULL),
                   Mk("red", Tree(ns, NULL), piece, Tree(ns, NULL)))
        BY HeapIs, MakeYields, ColorsAre
      <3>5. Yields(ns, own, f[m][at], Mk("red", Leaf, piece, Leaf))
        BY <3>3, <3>4, <3>1, <2>2
      <3>6. Inserts(Mk("red", Leaf, piece, Leaf), t, piece, at)
        BY <3>1, <3>2, InsertsNode
      <3> QED BY <3>5, <3>6
    <2>3. CASE m # NULL
      <3>1. IsRootOf(ns, m, t) /\ t.kind = "node"
        <4>1. t = Tree(ns, m)
          OBVIOUS
        <4> HIDE DEF t
        <4>2. IsRootOf(ns, m, t)
          BY <4>1, <2>3, <1>2, <1>5, RootIs, Zenon
        <4> QED BY <4>2 DEF IsRootOf
      <3> DEFINE l == ns[m].left
                 r == ns[m].right
                 q == ns[m].piece
                 here == node_length(ns, l)
                 b == at - here - q.length
      <3>2. /\ m \in Live(ns) /\ InUse(ns, l) /\ InUse(ns, r) /\ Tree(ns, l) = t.left
            /\ Tree(ns, r) = t.right /\ q = t.piece
        BY <3>1 DEF IsRootOf
      <3>3. l \in 0 .. Len(ns) /\ r \in 0 .. Len(ns) /\ l < m /\ r < m
        BY <3>2, <1>2 DEF WellMade, Linked
      <3>4. here = t.left.value.length
        BY <3>2, <1>2, TreesAreGood
      <3>5. Ok(t.left) /\ Ok(t.right)
        BY <2>1, <3>1, <1>5, OkIs
      <3>6. /\ GoodValue(t.left.value) /\ GoodValue(t.right.value) /\ t.piece \in Pieces
            /\ t.value = JoinedValue(t.left.value, t.piece, t.right.value)
        BY <2>1, <3>1, GoodNode
      <3>7. f[m][at] = IF at <= here THEN RebuiltLeft(m, f[l][at], FALSE)
                       ELSE RebuiltRight(m, f[r][b], FALSE)
        <4>1. at \in Int
          BY <3>6, <1>5, BoundariesAre
        <4> QED BY <4>1, <1>4, <2>3
      <3>8. l \in S /\ r \in S
        <4> HIDE DEF S, l, r
        <4> QED BY <3>3, <1>5
      <3>9. Heap(ns, Plus(own, NULL))
        BY <1>2, NullOwned
      <3> HIDE DEF l, r, q
      <3>10. CASE at <= here
        <4>1. at \in Nat /\ at \in Boundaries(t.left.value)
          BY <3>4, <3>6, <3>10, <1>5, BoundariesAre
        <4>2. PICK s : Yields(ns, own, f[l][at], s) /\ Inserts(s, t.left, piece, at)
          BY <4>1, <3>2, <3>5, <3>8
        <4> DEFINE o == f[l][at]
        <4>3. Yields(ns, Plus(own, NULL), o, s)
          BY <4>2, <1>2, YieldsNull
        <4> HIDE DEF o
        <4>4. Yields(ns, own, RebuiltLeft(m, o, FALSE), RejoinedL(t, s))
          <5>1. FALSE \in BOOLEAN /\ NULL = (IF FALSE THEN m ELSE NULL) /\ Same(ns, ns) /\ m \in Nat
            BY <1>2, SameIsReflexive
          <5> HIDE DEF t
          <5> QED BY <5>1, <4>3, <3>1, <3>9, <1>2, RebuiltYields
        <4>5. Inserts(RejoinedL(t, s), t, piece, at)
          BY <4>1, <4>2, <2>1, <3>1, <3>4, <3>10, <1>5, InsertsLeft
        <4>6. f[m][at] = RebuiltLeft(m, o, FALSE)
          BY <3>7, <3>10 DEF o
        <4> QED BY <4>4, <4>5, <4>6
      <3>11. CASE ~(at <= here)
        <4>1. at \in Nat /\ b \in Nat /\ b \in Boundaries(t.right.value) /\ here \in Nat /\ q.length \in Nat
          BY <3>2, <3>4, <3>6, <3>11, <1>5, BoundariesAre
        <4>2. at = here + q.length + b
          BY <4>1
        <4> HIDE DEF b
        <4>3. PICK s : Yields(ns, own, f[r][b], s) /\ Inserts(s, t.right, piece, b)
          BY <4>1, <3>2, <3>5, <3>8
        <4> DEFINE o == f[r][b]
        <4>4. Yields(ns, Plus(own, NULL), o, s)
          BY <4>3, <1>2, YieldsNull
        <4> HIDE DEF o
        <4>5. Yields(ns, own, RebuiltRight(m, o, FALSE), RejoinedR(t, s))
          <5>1. FALSE \in BOOLEAN /\ NULL = (IF FALSE THEN m ELSE NULL) /\ Same(ns, ns) /\ m \in Nat
            BY <1>2, SameIsReflexive
          <5> HIDE DEF t
          <5> QED BY <5>1, <4>4, <3>1, <3>9, <1>2, RebuiltYields
        <4>6. Inserts(RejoinedR(t, s), t, piece, at)
          <5>1. at = t.left.value.length + t.piece.length + b
            BY <4>2, <3>2, <3>4
          <5> HIDE DEF t, here
          <5> QED BY <5>1, <4>1, <4>3, <2>1, <3>1, <1>5, InsertsRight DEF t
        <4>7. f[m][at] = RebuiltRight(m, o, FALSE)
          BY <3>7, <3>11 DEF o
        <4> QED BY <4>5, <4>6, <4>7
      <3> QED BY <3>10, <3>11
    <2> QED BY <2>2, <2>3
  <1>6. \A m \in 0 .. Len(ns) : (\A b \in 0 .. Len(ns) : b < m => b \in S) => m \in S
    BY <1>5
  <1> HIDE DEF S
  <1>7. 0 .. Len(ns) \subseteq S
    BY <1>2, <1>6, AddressInduction, Zenon
  <1>8. n \in S
    BY <1>2, <1>7
  <1>9. Done(n, offset)
    BY <1>8 DEF S
  <1> QED BY <1>1, <1>9


-----------------------------------------------------------------------------
(* Removal: the smallest piece of a tree *)

MinimaUp(f, ns, n) ==
    f = [m \in 1 .. n |-> IF ns[m].left = NULL THEN m ELSE f[ns[m].left]]

LEMMA MinimaExist ==
  ASSUME NEW ns, Older(ns), Len(ns) \in Nat
  PROVE  \E f : MinimaUp(f, ns, Len(ns))
  <1> DEFINE S == {n \in Nat : n <= Len(ns) => \E f : MinimaUp(f, ns, n)}
             next(m, x) == IF ns[m].left = NULL THEN m ELSE x
  <1>1. 0 \in S
    <2> DEFINE g == [m \in 1 .. 0 |-> m]
    <2>1. g = [m \in 1 .. 0 |-> next(m, g[ns[m].left])]
      OBVIOUS
    <2> HIDE DEF g
    <2>2. MinimaUp(g, ns, 0)
      BY <2>1 DEF MinimaUp
    <2> QED BY <2>2
  <1>2. ASSUME NEW n \in Nat, n \in S PROVE n + 1 \in S
    <2> SUFFICES ASSUME n + 1 <= Len(ns) PROVE \E f : MinimaUp(f, ns, n + 1)
      OBVIOUS
    <2>1. PICK f : MinimaUp(f, ns, n)
      BY <1>2
    <2>2. \A m \in 1 .. n : f[m] = next(m, f[ns[m].left])
      BY <2>1 DEF MinimaUp
    <2> DEFINE y == next(n + 1, f[ns[n + 1].left])
               g == [m \in 1 .. n + 1 |-> IF m = n + 1 THEN y ELSE f[m]]
    <2>3. ASSUME NEW m \in 1 .. n + 1 PROVE g[m] = next(m, g[ns[m].left])
      <3> HIDE DEF y
      <3>1. ns[m].left # NULL => ns[m].left \in 1 .. n
        BY DEF Older, NULL
      <3>2. \A b \in 1 .. n : g[b] = f[b]
        OBVIOUS
      <3>3. ns[m].left # NULL => g[ns[m].left] = f[ns[m].left]
        BY <3>1, <3>2
      <3>4. g[m] = next(m, f[ns[m].left])
        <4>1. CASE m = n + 1
          BY <4>1 DEF y
        <4>2. CASE m # n + 1
          <5>1. m \in 1 .. n
            BY <4>2
          <5> HIDE DEF g, next
          <5> QED BY <5>1, <3>2, <2>2
        <4> QED BY <4>1, <4>2
      <3> HIDE DEF g
      <3> QED BY <3>3, <3>4
    <2> HIDE DEF next, y
    <2>4. g = [m \in 1 .. n + 1 |-> g[m]]
      OBVIOUS
    <2> HIDE DEF g
    <2>5. g = [m \in 1 .. n + 1 |-> next(m, g[ns[m].left])]
      BY <2>3, <2>4
    <2>6. MinimaUp(g, ns, n + 1)
      BY <2>5 DEF MinimaUp, next
    <2> QED BY <2>6
  <1> HIDE DEF S
  <1>3. Len(ns) \in S
    BY <1>1, <1>2, Induction
  <1> QED BY <1>3 DEF S

(* The leftmost node has the first piece. *)
LEMMA MinimumIs ==
  ASSUME NEW ns, WellMade(ns), NEW n, n \in Live(ns), NEW least, least = minimum_node(ns, n)
  PROVE  /\ least \in Live(ns) /\ 0 \in DOMAIN Tree(ns, n).value.pieces
         /\ ns[least].piece = Tree(ns, n).value.pieces[0]
  <1> DEFINE f == CHOOSE f : MinimaUp(f, ns, Len(ns))
  <1>1. /\ ns \in Store /\ Len(ns) \in Nat /\ Older(ns) /\ DOMAIN ns = 1 .. Len(ns)
        /\ \A a : a \in Live(ns) => a \in 1 .. Len(ns)
    BY ChildrenAreOlder, LiveIs
  <1>2. least = f[n]
    BY <1>1, Zenon DEF minimum_node, MinimaUp
  <1>3. MinimaUp(f, ns, Len(ns))
    BY <1>1, MinimaExist, Zenon
  <1> HIDE DEF f
  <1>4. \A m \in 1 .. Len(ns) : f[m] = IF ns[m].left = NULL THEN m ELSE f[ns[m].left]
    BY <1>3 DEF MinimaUp
  <1> DEFINE Fine(m) == /\ f[m] \in Live(ns) /\ 0 \in DOMAIN Tree(ns, m).value.pieces
                        /\ ns[f[m]].piece = Tree(ns, m).value.pieces[0]
             S == {m \in 0 .. Len(ns) : m \in Live(ns) => Fine(m)}
  <1>5. ASSUME NEW m \in 0 .. Len(ns), \A b \in 0 .. Len(ns) : b < m => b \in S, m \in Live(ns)
        PROVE  Fine(m)
    <2> DEFINE t == Tree(ns, m)
               l == ns[m].left
    <2>1. m # NULL /\ m \in 1 .. Len(ns) /\ InUse(ns, m)
      BY <1>1, <1>5 DEF InUse, NULL
    <2>2. IsRootOf(ns, m, t) /\ Good(t)
      BY <2>1, RootIs, TreesAreGood
    <2> DEFINE v == t.value
               lv == t.left.value
               q == t.piece
    <2>3. /\ InUse(ns, l) /\ Tree(ns, l) = t.left /\ ns[m].piece = q /\ q \in Pieces
          /\ GoodValue(lv) /\ GoodValue(t.right.value) /\ v = JoinedValue(lv, q, t.right.value)
      <3> HIDE DEF t
      <3>1. t.kind = "node" /\ InUse(ns, l) /\ Tree(ns, l) = t.left /\ ns[m].piece = q
        BY <2>2 DEF IsRootOf
      <3> QED BY <3>1, <2>2, GoodNode
    <2>4. IsJoined(v, lv, q, t.right.value) /\ GoodValue(v)
      BY <2>3, JoinedIs
    <2>5. f[m] = IF l = NULL THEN m ELSE f[l]
      BY <2>1, <1>4
    <2>6. CASE l = NULL
      <3>1. lv = Nothing
        BY <2>3, <2>6, TreeAt, LeafIs
      <3>2. lv.length = 0
        BY <3>1, NothingIsGood
      <3> HIDE DEF v, lv, q, l, t
      <3>3. 0 \in DOMAIN v.pieces /\ v.pieces[0] = q
        BY <3>2, <2>4 DEF IsJoined
      <3>4. f[m] = m
        BY <2>5, <2>6
      <3> QED BY <3>3, <3>4, <2>3, <1>5 DEF v, t
    <2>7. CASE l # NULL
      <3>1. l \in Live(ns) /\ l < m
        BY <2>3, <2>7, <1>5 DEF InUse, WellMade, Linked
      <3>2. l \in 0 .. Len(ns)
        BY <3>1, <1>1
      <3>3. Fine(l)
        <4>1. l \in S
          <5> HIDE DEF S
          <5> QED BY <3>1, <3>2, <1>5
        <4> QED BY <3>1, <4>1
      <3>4. f[l] \in Live(ns) /\ 0 \in DOMAIN lv.pieces /\ ns[f[l]].piece = lv.pieces[0]
        BY <3>3, <2>3
      <3> HIDE DEF v, lv, q, l, t
      <3>5. 0 \in DOMAIN v.pieces /\ v.pieces[0] = lv.pieces[0]
        BY <3>4, <2>4 DEF IsJoined
      <3>6. f[m] = f[l]
        BY <2>5, <2>7
      <3> QED BY <3>4, <3>5, <3>6 DEF v, t
    <2> QED BY <2>6, <2>7
  <1>6. \A m \in 0 .. Len(ns) : (\A b \in 0 .. Len(ns) : b < m => b \in S) => m \in S
    BY <1>5
  <1> HIDE DEF S
  <1>7. 0 .. Len(ns) \subseteq S
    BY <1>1, <1>6, AddressInduction, Zenon
  <1>8. n \in S
    BY <1>1, <1>7
  <1>9. Fine(n)
    BY <1>8 DEF S
  <1> QED BY <1>2, <1>9

-----------------------------------------------------------------------------
(* Removal: the trees on the way down can spare a node.                    *)

RedRoot(t) == t.kind = "node" /\ Red(t) /\ Ok(t)

RedOnLeft(t) == t.kind = "node" /\ Black(t) /\ Ok(t) /\ Red(t.left)

RedOnRight(t) ==
    /\ t.kind = "node" /\ Black(t) /\ Black(t.left) /\ Ok(t.left) /\ Red(t.right) /\ Ok(t.right)
    /\ t.left.height = t.right.height

(* Only the root of a whole tree may have none to spare. *)
AllBlack(t) == t.kind = "node" /\ Black(t) /\ Ok(t) /\ Black(t.left)

(* u may be what is left of t. *)
Shrunk(t, u) ==
    IF AllBlack(t) THEN Ok(u) \/ HalfOk(u, u.left.height)
    ELSE /\ Ok(u) /\ u.height = t.left.height + (IF Black(t) THEN 1 ELSE 0)
         /\ Black(t) => Black(u)

LEMMA ColorsDiffer ==
  ASSUME NEW t, Good(t)
  PROVE  Red(t) <=> ~Black(t)
  BY GoodIs

LEMMA ShrunkIs ==
  ASSUME NEW t, Good(t), NEW u
  PROVE  /\ RedRoot(t) => (Shrunk(t, u) <=> Ok(u) /\ u.height = t.left.height)
         /\ RedOnLeft(t) \/ RedOnRight(t)
              => (Shrunk(t, u) <=> Ok(u) /\ u.height = t.left.height + 1 /\ Black(u))
         /\ AllBlack(t) => (Shrunk(t, u) <=> Ok(u) \/ HalfOk(u, u.left.height))
  <1>1. Red(t) <=> ~Black(t)
    BY ColorsDiffer
  <1>2. ASSUME RedRoot(t) PROVE Shrunk(t, u) <=> Ok(u) /\ u.height = t.left.height
    <2>1. t.kind = "node" /\ Red(t) /\ Ok(t) /\ ~Black(t) /\ ~AllBlack(t)
      BY <1>1, <1>2 DEF RedRoot, AllBlack
    <2>2. t.left.height \in Nat
      BY <2>1, OkIs
    <2> QED BY <2>1, <2>2 DEF Shrunk
  <1>3. ASSUME RedOnLeft(t) \/ RedOnRight(t)
        PROVE  Shrunk(t, u) <=> Ok(u) /\ u.height = t.left.height + 1 /\ Black(u)
    <2>1. Black(t) /\ t.kind = "node" /\ (Red(t.left) \/ Red(t.right))
      BY <1>3 DEF RedOnLeft, RedOnRight
    <2>2. ~AllBlack(t)
      <3>1. ASSUME Ok(t) /\ Black(t.left) PROVE FALSE
        <4>1. ~Red(t.right) /\ Good(t.left)
          BY <3>1, <2>1, OkIs
        <4> QED BY <4>1, <3>1, <2>1, ColorsDiffer
      <3> QED BY <3>1 DEF AllBlack
    <2> QED BY <2>1, <2>2 DEF Shrunk
  <1>4. ASSUME AllBlack(t) PROVE Shrunk(t, u) <=> Ok(u) \/ HalfOk(u, u.left.height)
    BY <1>4 DEF Shrunk
  <1> QED BY <1>2, <1>3, <1>4

(* A black tree that leans and has no height is empty. *)
LEMMA NoHeight ==
  ASSUME NEW t, Good(t), Black(t)
  PROVE  /\ t.height = 0 => t = Leaf
         /\ t.height # 0 => t.kind = "node"
         /\ t.kind = "node" => t.height # 0
  <1>1. t.kind \in {"leaf", "node"} /\ (t.kind = "leaf" => t = Leaf)
    BY GoodIs
  <1>2. ASSUME t.kind = "node" PROVE t.height # 0
    <2>1. t.height = t.left.height + (IF Black(t) THEN 1 ELSE 0) /\ t.left.height \in Nat
      BY <1>2, GoodNode
    <2>2. t.height = t.left.height + 1
      BY <2>1
    <2> QED BY <2>1, <2>2
  <1> QED BY <1>1, <1>2, LeafIs

LEMMA BorrowRIsSound ==
  ASSUME NEW f, Good(f), f.kind = "node"
  PROVE  f.left.kind = "node" => Sound(BorrowR(f), f)
  <1> SUFFICES ASSUME f.left.kind = "node" PROVE Sound(BorrowR(f), f)
    OBVIOUS
  <1>1. CASE ~(f.right.kind = "node" /\ Red(f.right.left))
    BY <1>1, SoundIsReflexive DEF BorrowR
  <1>2. CASE f.right.kind = "node" /\ Red(f.right.left)
    <2> DEFINE l == f.left
               r == f.right
               p == f.piece
               c == f.color
               rr == RotR(r)
               m == Mk(c, l, p, rr)
               x == RotL(m)
    <2>1. /\ c \in Colors /\ p \in Pieces /\ Good(l) /\ Good(r)
          /\ f.value = JoinedValue(l.value, p, r.value)
      BY GoodNode
    <2>2. Sound(rr, r)
      BY <1>2, <2>1, RedAreNodes, RotRIsSound
    <2> HIDE DEF l, r, p, c
    <2>3. Good(rr) /\ rr.kind = "node" /\ rr.value = r.value /\ rr.right.kind = "node"
      BY <2>2, RotatedKinds DEF Sound
    <2> HIDE DEF rr
    <2>4. Good(m) /\ m.kind = "node" /\ m.right = rr /\ m.value = JoinedValue(l.value, p, rr.value)
      BY <2>1, <2>3, MkIsGood, MkIs
    <2> HIDE DEF m
    <2>5. Sound(m, f)
      BY <2>1, <2>3, <2>4 DEF Sound
    <2>6. Sound(x, m)
      BY <2>3, <2>4, RotLIsSound
    <2>7. x.left.kind = "node" /\ x.right.kind = "node"
      BY <2>3, <2>4, RotatedKinds
    <2> HIDE DEF x
    <2>8. Sound(Flip(x), x)
      BY <2>6, <2>7, FlipIsSound DEF Sound
    <2>9. BorrowR(f) = Flip(x)
      BY <1>2 DEF BorrowR, x, m, rr, l, r, p, c
    <2> QED BY <2>5, <2>6, <2>8, <2>9, SoundIsTransitive
  <1> QED BY <1>1, <1>2

LEMMA BorrowLIsSound ==
  ASSUME NEW f, Good(f), f.kind = "node"
  PROVE  Sound(BorrowL(f), f)
  <1>1. CASE ~(f.left.kind = "node" /\ Red(f.left.left))
    BY <1>1, SoundIsReflexive DEF BorrowL
  <1>2. CASE f.left.kind = "node" /\ Red(f.left.left)
    <2> DEFINE x == RotR(f)
    <2>1. Sound(x, f)
      BY <1>2, RotRIsSound
    <2>2. x.left = f.left.left /\ x.right.kind = "node"
      BY RotatedKinds
    <2>3. f.left.left.kind = "node"
      BY <1>2, GoodNode, RedAreNodes
    <2> HIDE DEF x
    <2>4. Sound(Flip(x), x)
      BY <2>1, <2>2, <2>3, FlipIsSound DEF Sound
    <2>5. BorrowL(f) = Flip(x)
      BY <1>2 DEF BorrowL, x
    <2> QED BY <2>1, <2>4, <2>5, SoundIsTransitive
  <1> QED BY <1>1, <1>2

LEMMA MoveLIsSound ==
  ASSUME NEW t, Good(t), t.kind = "node", Two(t.left) => t.right.kind = "node"
  PROVE  Sound(MoveL(t), t)
  <1>1. CASE ~Two(t.left)
    BY <1>1, SoundIsReflexive DEF MoveL
  <1>2. CASE Two(t.left)
    <2>1. Sound(Flip(t), t) /\ Flip(t).left.kind = "node"
      BY <1>2, TwoKind, FlipIsSound, RotatedKinds
    <2>2. Sound(BorrowR(Flip(t)), Flip(t))
      BY <2>1, BorrowRIsSound DEF Sound
    <2>3. MoveL(t) = BorrowR(Flip(t))
      BY <1>2 DEF MoveL
    <2> QED BY <2>1, <2>2, <2>3, SoundIsTransitive
  <1> QED BY <1>1, <1>2

LEMMA MoveRIsSound ==
  ASSUME NEW t, Good(t), t.kind = "node", Two(t.right) => t.left.kind = "node"
  PROVE  Sound(MoveR(t), t)
  <1>1. CASE ~Two(t.right)
    BY <1>1, SoundIsReflexive DEF MoveR
  <1>2. CASE Two(t.right)
    <2>1. Sound(Flip(t), t)
      BY <1>2, TwoKind, FlipIsSound
    <2>2. Sound(BorrowL(Flip(t)), Flip(t))
      BY <2>1, BorrowLIsSound DEF Sound
    <2>3. MoveR(t) = BorrowL(Flip(t))
      BY <1>2 DEF MoveR
    <2> QED BY <2>1, <2>2, <2>3, SoundIsTransitive
  <1> QED BY <1>1, <1>2

(* Two black children of the same height, painted red: if the one has no   *)
(* red child, it leans as before.                                         *)
LEMMA PaintedRed ==
  ASSUME NEW t, Good(t), Ok(t), t.kind = "node", Black(t), NEW u, u = Repainted(t, "red")
  PROVE  /\ Good(u) /\ u.kind = "node" /\ Red(u) /\ u.left = t.left /\ u.right = t.right
         /\ u.piece = t.piece /\ u.value = t.value
         /\ t.left.height \in Nat /\ u.height = t.left.height /\ t.height = u.height + 1
         /\ ~Red(t.left) => RedRoot(u)
  <1>1. Good(u) /\ u.kind = "node" /\ u.value = t.value
    BY RepaintedIsSound, ColorsAre DEF Sound
  <1>2. /\ u.left = t.left /\ u.right = t.right /\ (Red(u) <=> "red" = "red")
        /\ u.height = t.left.height + (IF "red" = "black" THEN 1 ELSE 0)
        /\ Ok(t) /\ ("red" = "red" => Black(t.left)) => Ok(u)
    BY RepaintedShape, ColorsAre
  <1>3. t.left.height \in Nat /\ t.height = t.left.height + 1 /\ Good(t.left)
    BY OkIs
  <1>4. u.piece = t.piece
    BY MkIs DEF Repainted
  <1>5. Red(t.left) <=> ~Black(t.left)
    BY <1>3, ColorsDiffer
  <1> QED BY <1>1, <1>2, <1>3, <1>4, <1>5 DEF RedRoot


LEMMA RepaintedNode ==
  ASSUME NEW c \in Colors, NEW d, NEW l, NEW p, NEW r
  PROVE  Repainted(Mk(d, l, p, r), c) = Mk(c, l, p, r)
  BY MkIs DEF Repainted

LEMMA BorrowedRight ==
  ASSUME NEW d, NEW l, NEW p, NEW r, NEW x, x = r.left, r.kind = "node", Red(x),
         NEW f, f = Mk(d, l, p, r)
  PROVE  BorrowR(f) = Mk(Flipped(d), Mk("black", l, p, x.left), x.piece,
                         Mk("black", x.right, r.piece, r.right))
  <1> DEFINE rr == RotR(r)
             y == Mk("red", x.right, r.piece, r.right)
             m == Mk(d, l, p, rr)
             z == Mk("red", l, p, x.left)
             w == Mk(d, z, x.piece, y)
  <1>1. f.kind = "node" /\ f.left = l /\ f.right = r /\ f.piece = p /\ f.color = d
    BY MkIs
  <1>2. rr.left = x.left /\ rr.piece = x.piece /\ rr.right = y
    BY MkIs DEF RotR
  <1> HIDE DEF rr, y
  <1>3. BorrowR(f) = Flip(RotL(m))
    BY <1>1 DEF BorrowR, rr
  <1>4. m.color = d /\ m.left = l /\ m.piece = p /\ m.right = rr
    BY MkIs
  <1> HIDE DEF m
  <1>5. RotL(m) = w
    BY <1>2, <1>4 DEF RotL
  <1>6. y.color = "red" /\ z.color = "red"
    BY MkIs DEF y
  <1>7. Repainted(y, "black") = Mk("black", x.right, r.piece, r.right)
        /\ Repainted(z, "black") = Mk("black", l, p, x.left)
    BY RepaintedNode, ColorsAre DEF y
  <1> HIDE DEF z
  <1>8. w.color = d /\ w.left = z /\ w.piece = x.piece /\ w.right = y
    BY MkIs
  <1> HIDE DEF w
  <1>9. Flip(w) = Mk(Flipped(d), Repainted(z, "black"), x.piece, Repainted(y, "black"))
    BY <1>6, <1>8, FlippedIs DEF Flip
  <1> QED BY <1>3, <1>5, <1>7, <1>9

LEMMA BorrowedLeft ==
  ASSUME NEW d, NEW l, NEW p, NEW r, NEW x, x = l.left, l.kind = "node", Red(x),
         NEW f, f = Mk(d, l, p, r)
  PROVE  BorrowL(f) = Mk(Flipped(d), Repainted(x, "black"), l.piece, Mk("black", l.right, p, r))
  <1> DEFINE y == Mk("red", l.right, p, r)
             w == Mk(d, x, l.piece, y)
  <1>1. f.kind = "node" /\ f.left = l /\ f.right = r /\ f.piece = p /\ f.color = d
    BY MkIs
  <1>2. BorrowL(f) = Flip(RotR(f))
    BY <1>1 DEF BorrowL
  <1>3. RotR(f) = w
    BY <1>1 DEF RotR
  <1>4. y.color = "red" /\ x.color = "red"
    BY MkIs DEF Red
  <1>5. Repainted(y, "black") = Mk("black", l.right, p, r)
    BY RepaintedNode, ColorsAre
  <1> HIDE DEF y
  <1>6. w.color = d /\ w.left = x /\ w.piece = l.piece /\ w.right = y
    BY MkIs
  <1> HIDE DEF w
  <1>7. Flip(w) = Mk(Flipped(d), Repainted(x, "black"), l.piece, Repainted(y, "black"))
    BY <1>4, <1>6, FlippedIs DEF Flip
  <1> QED BY <1>2, <1>3, <1>5, <1>7

(* The node that goes on with its left child. *)
LeftReady(t, s) ==
    /\ Sound(s, t)
    /\ t.left.value.length <= s.left.value.length
    /\ RedRoot(s.left) \/ RedOnLeft(s.left)
    /\ \A u : Good(u) /\ Shrunk(s.left, u) => Shrunk(t, RejoinedL(s, u))

LEMMA GoingLeft ==
  ASSUME NEW t, Good(t), RedRoot(t) \/ RedOnLeft(t) \/ AllBlack(t), t.left.kind = "node"
  PROVE  /\ Two(t.left) => t.right.kind = "node"
         /\ LeftReady(t, MoveL(t))
  <1> DEFINE l == t.left
             r == t.right
             c == t.color
             p == t.piece
             s == MoveL(t)
  <1>1. t.kind = "node" /\ Ok(t) /\ (Red(t) <=> ~Black(t))
    BY ColorsDiffer DEF RedRoot, RedOnLeft, AllBlack
  <1>2. /\ Ok(l) /\ Ok(r) /\ l.height = r.height /\ Black(r) /\ Good(l) /\ Good(r)
        /\ l.height \in Nat
        /\ Red(t) => Black(l)
    BY <1>1, OkIs
  <1>3. /\ c \in Colors /\ p \in Pieces /\ t = Mk(c, l, p, r)
        /\ (c = "red" <=> Red(t)) /\ (c = "black" <=> Black(t))
        /\ GoodValue(l.value)
    BY <1>1, GoodNode DEF Red, Black
  <1>4. Red(l) <=> ~Black(l)
    BY <1>2, ColorsDiffer
  <1>5. /\ RedRoot(t) => \A u : Shrunk(t, u) <=> Ok(u) /\ u.height = l.height
        /\ RedOnLeft(t) => \A u : Shrunk(t, u) <=> Ok(u) /\ u.height = l.height + 1 /\ Black(u)
        /\ AllBlack(t) => \A u : Shrunk(t, u) <=> Ok(u) \/ HalfOk(u, u.left.height)
    BY ShrunkIs
  <1>6. Two(l) => r.kind = "node"
    <2>1. ASSUME Two(l) PROVE r.kind = "node"
      <3>1. Black(l)
        BY <1>4, <2>1 DEF Two
      <3>2. l.height # 0
        BY <3>1, <1>2, NoHeight
      <3> QED BY <3>2, <1>2, NoHeight
    <2> QED BY <2>1
  <1>7. Sound(s, t)
    BY <1>1, <1>6, MoveLIsSound
  <1>8. \A u : RejoinedL(s, u) = FixUp(Mk(s.color, u, s.piece, s.right))
    BY DEF RejoinedL
  <1> HIDE DEF s
  <1>9. CASE ~Two(l)
    <2>1. s = t
      BY <1>9 DEF MoveL, s
    <2>2. RedRoot(l) \/ RedOnLeft(l)
      BY <1>2, <1>4, <1>9 DEF Two, RedRoot, RedOnLeft
    <2>3. ASSUME NEW u, Good(u), Shrunk(l, u) PROVE Shrunk(t, RejoinedL(s, u))
      <3> DEFINE v == FixUp(Mk(c, u, p, r))
      <3>1. RejoinedL(s, u) = v
        BY <1>8, <2>1
      <3>2. Ok(u) /\ u.height = l.height /\ (RedOnLeft(l) => Black(u))
        <4>1. /\ RedRoot(l) => (Shrunk(l, u) <=> Ok(u) /\ u.height = l.left.height)
              /\ RedOnLeft(l) => (Shrunk(l, u) <=> Ok(u) /\ u.height = l.left.height + 1 /\ Black(u))
          BY <1>2, ShrunkIs
        <4>2. (Red(l) => l.height = l.left.height) /\ (Black(l) => l.height = l.left.height + 1)
          BY <1>2, OkIs
        <4> QED BY <2>2, <2>3, <4>1, <4>2 DEF RedRoot, RedOnLeft
      <3>3. FixedUp(v, c, u, r)
        BY <1>2, <1>3, <2>3, <3>2, FixUpIs
      <3>4. (Red(r) <=> ~Black(r)) /\ (Red(u) <=> ~Black(u))
        BY <1>2, <2>3, ColorsDiffer
      <3> HIDE DEF v, l, r, c, p
      <3>5. CASE RedRoot(t)
        <4>1. c = "red" /\ Black(u)
          BY <3>5, <1>2, <1>3, <1>4, <2>2, <3>2 DEF RedRoot
        <4>2. Ok(v) /\ v.height = u.height
          BY <3>3, <4>1, <1>2 DEF FixedUp
        <4> QED BY <4>2, <3>1, <3>2, <3>5, <1>5
      <3>6. CASE RedOnLeft(t)
        <4>1. c = "black"
          BY <3>6, <1>3 DEF RedOnLeft
        <4>2. Ok(v) /\ v.height = u.height + 1 /\ Black(v)
          BY <3>3, <3>4, <4>1, <1>2 DEF FixedUp
        <4> QED BY <4>2, <3>1, <3>2, <3>6, <1>5
      <3>7. CASE AllBlack(t)
        <4>1. c = "black"
          BY <3>7, <1>3 DEF AllBlack
        <4>2. Ok(v)
          BY <3>3, <4>1 DEF FixedUp
        <4> QED BY <4>2, <3>1, <3>7, <1>5
      <3> QED BY <3>5, <3>6, <3>7
    <2>4. l.value.length <= s.left.value.length
      BY <2>1, <1>3 DEF GoodValue
    <2>5. LeftReady(t, s)
      BY <1>7, <2>1, <2>2, <2>3, <2>4 DEF LeftReady
    <2> QED BY <2>5, <1>6 DEF s
  <1>10. CASE Two(l)
    <2> DEFINE d == Flipped(c)
               nl == Repainted(l, "red")
               nr == Repainted(r, "red")
               f == Mk(d, nl, p, nr)
    <2>1. r.kind = "node" /\ l.kind = "node" /\ Black(l) /\ ~Red(l.left)
      BY <1>4, <1>6, <1>10 DEF Two
    <2>2. ~RedOnLeft(t)
      BY <2>1, <1>4 DEF RedOnLeft
    <2>3. /\ Good(nl) /\ Red(nl) /\ nl.value = l.value /\ l.height = nl.height + 1
          /\ nl.height \in Nat /\ RedRoot(nl) /\ nl.left = l.left /\ nl.height = l.left.height
      BY <1>2, <2>1, PaintedRed
    <2>4. /\ Good(nr) /\ Red(nr) /\ nr.left = r.left /\ nr.right = r.right /\ nr.piece = r.piece
          /\ r.height = nr.height + 1 /\ nr.height \in Nat /\ nr.kind = "node"
          /\ ~Red(r.left) => RedRoot(nr)
      BY <1>2, <2>1, PaintedRed
    <2>5. l.color = "black" /\ r.color = "black"
      BY <1>2, <2>1 DEF Black
    <2>6. Flip(t) = f
      BY <2>5, FlippedIs DEF Flip
    <2>7. s = BorrowR(f)
      BY <1>10, <2>6 DEF MoveL, s
    <2>8. d \in Colors /\ (c = "red" <=> d = "black") /\ (c = "black" <=> d = "red")
      BY <1>3, ColorsAre, FlippedIs DEF Colors
    <2>9. f.kind = "node" /\ f.color = d /\ f.left = nl /\ f.piece = p /\ f.right = nr
      BY MkIs
    <2>10. nl.height = nr.height
      <3>1. nl.height + 1 = nr.height + 1
        BY <1>2, <2>3, <2>4
      <3>2. nl.height \in Nat /\ nr.height \in Nat
        BY <2>3, <2>4
      <3> HIDE DEF nl, nr
      <3> QED BY <3>1, <3>2
    <2> HIDE DEF d, nl, nr
    <2>11. CASE ~Red(r.left)
      <3>1. s = f
        BY <2>4, <2>7, <2>9, <2>11 DEF BorrowR
      <3>2. Ok(nr) /\ Red(nr)
        BY <2>4, <2>11 DEF RedRoot
      <3> HIDE DEF f
      <3>3. ASSUME NEW u, Good(u), Shrunk(s.left, u) PROVE Shrunk(t, RejoinedL(s, u))
        <4> DEFINE v == FixUp(Mk(d, u, p, nr))
        <4>1. RejoinedL(s, u) = v
          BY <1>8, <2>9, <3>1
        <4>2. Ok(u) /\ u.height = nl.height
          <5>1. Shrunk(nl, u) <=> Ok(u) /\ u.height = nl.left.height
            BY <2>3, ShrunkIs
          <5> QED BY <5>1, <2>3, <2>9, <3>1, <3>3
        <4>3. FixedUp(v, d, u, nr)
          BY <1>3, <2>4, <2>8, <2>10, <3>2, <3>3, <4>2, FixUpIs
        <4> HIDE DEF v, l, r, c, p
        <4>4. CASE RedRoot(t)
          <5>1. d = "black"
            BY <4>4, <1>3, <2>8 DEF RedRoot
          <5>2. Ok(v) /\ v.height = u.height + 1
            BY <4>3, <5>1 DEF FixedUp
          <5> QED BY <5>2, <4>1, <4>2, <4>4, <2>3, <1>5
        <4>5. CASE AllBlack(t)
          <5>1. d = "red"
            BY <4>5, <1>3, <2>8 DEF AllBlack
          <5>2. Ok(v) \/ HalfOk(v, u.height)
            BY <4>3, <5>1 DEF FixedUp
          <5>3. Ok(v) \/ HalfOk(v, v.left.height)
            BY <5>2 DEF HalfOk
          <5> QED BY <5>3, <4>1, <4>5, <1>5
        <4> QED BY <4>4, <4>5, <2>2
      <3>4. l.value.length <= s.left.value.length
        BY <3>1, <2>3, <2>9, <1>3 DEF GoodValue
      <3>5. LeftReady(t, s)
        BY <1>7, <2>3, <2>9, <3>1, <3>3, <3>4 DEF LeftReady
      <3> QED BY <3>5, <1>6 DEF s
    <2>12. CASE Red(r.left)
      <3> DEFINE x == r.left
                 a == Mk("black", nl, p, x.left)
                 b == Mk("black", x.right, r.piece, r.right)
                 y == Mk(c, a, x.piece, b)
      <3>1. Flipped(d) = c
        BY <1>3, FlippedIs DEF d, Colors
      <3>2. s = y
        <4>1. BorrowR(f) = Mk(Flipped(d), Mk("black", nl, p, x.left), x.piece,
                              Mk("black", x.right, nr.piece, nr.right))
          BY <2>4, <2>12, BorrowedRight
        <4> QED BY <4>1, <3>1, <2>4, <2>7
      <3>3. /\ Good(x) /\ Ok(x) /\ r.height = x.height + 1 /\ Ok(r.right) /\ Black(r.right)
            /\ r.right.height = x.height /\ Good(r.right) /\ x.height \in Nat
        <4>1. /\ Good(x) /\ Ok(x) /\ (Black(r) => r.height = x.height + 1)
              /\ Ok(r.right) /\ Black(r.right) /\ x.height = r.right.height /\ Good(r.right)
              /\ x.height \in Nat
          BY <1>2, <2>1, OkIs
        <4> QED BY <4>1, <1>2
      <3>4. x.kind = "node"
        BY <3>3, <2>12, ColorsDiffer, GoodIs
      <3>5. /\ Good(x.left) /\ Good(x.right) /\ Ok(x.left) /\ Ok(x.right) /\ Black(x.left)
            /\ Black(x.right) /\ x.left.height = x.height /\ x.right.height = x.height
        BY <3>3, <3>4, <2>12, OkIs
      <3>6. r.piece \in Pieces /\ x.piece \in Pieces
        BY <1>2, <2>1, <3>3, <3>4, GoodNode
      <3> HIDE DEF x
      <3>7. /\ a.kind = "node" /\ a.left = nl
            /\ Ok(a) <=> /\ Ok(nl) /\ Ok(x.left) /\ nl.height = x.left.height /\ Black(x.left)
                         /\ "black" = "red" => Black(nl)
            /\ Black(a) <=> "black" = "black"
        BY MkShape, ColorsAre
      <3>8. /\ Ok(b) <=> /\ Ok(x.right) /\ Ok(r.right) /\ x.right.height = r.right.height
                         /\ Black(r.right)
                         /\ "black" = "red" => Black(x.right)
            /\ Black(b) <=> "black" = "black"
            /\ b.height = x.right.height + (IF "black" = "black" THEN 1 ELSE 0)
        BY MkShape, ColorsAre
      <3>9. Good(a) /\ Good(b)
        BY <1>2, <1>3, <2>3, <3>3, <3>5, <3>6, MkIsGood, ColorsAre
      <3>10. a.value.length = nl.value.length + p.length + x.left.value.length
        <4>1. a.value = JoinedValue(nl.value, p, x.left.value)
          BY MkIs
        <4> QED BY <4>1 DEF JoinedValue
      <3>11. y.color = c /\ y.left = a /\ y.piece = x.piece /\ y.right = b
        BY MkIs
      <3> HIDE DEF a, b, y
      <3>12. RedOnLeft(a)
        <4>1. Ok(nl) /\ nl.height = x.left.height
          <5>1. Ok(nl) /\ nl.height + 1 = x.height + 1
            BY <1>2, <2>3, <3>3 DEF RedRoot
          <5>2. nl.height = x.height
            BY <5>1, <2>3, <3>3
          <5> QED BY <5>1, <5>2, <3>5
        <4> QED BY <4>1, <2>3, <3>5, <3>7 DEF RedOnLeft
      <3>13. Ok(b) /\ Black(b) /\ b.height = l.height
        BY <1>2, <3>3, <3>5, <3>8
      <3>14. ASSUME NEW u, Good(u), Shrunk(s.left, u) PROVE Shrunk(t, RejoinedL(s, u))
        <4> DEFINE v == FixUp(Mk(c, u, x.piece, b))
        <4>1. RejoinedL(s, u) = v
          BY <1>8, <3>2, <3>11
        <4>2. Ok(u) /\ Black(u) /\ u.height = l.height
          <5>1. Shrunk(a, u) <=> Ok(u) /\ u.height = a.left.height + 1 /\ Black(u)
            BY <3>9, <3>12, ShrunkIs
          <5> QED BY <5>1, <2>3, <3>2, <3>7, <3>11, <3>14
        <4>3. FixedUp(v, c, u, b)
          BY <1>3, <3>6, <3>9, <3>13, <3>14, <4>2, FixUpIs
        <4> HIDE DEF v, l, r, c, p
        <4>4. CASE RedRoot(t)
          <5>1. c = "red"
            BY <4>4, <1>3 DEF RedRoot
          <5>2. Ok(v) /\ v.height = u.height
            BY <4>2, <4>3, <5>1, <3>13 DEF FixedUp
          <5> QED BY <5>2, <4>1, <4>2, <4>4, <1>5
        <4>5. CASE AllBlack(t)
          <5>1. c = "black"
            BY <4>5, <1>3 DEF AllBlack
          <5>2. Ok(v)
            BY <4>3, <5>1 DEF FixedUp
          <5> QED BY <5>2, <4>1, <4>5, <1>5
        <4> QED BY <4>4, <4>5, <2>2
      <3>15. l.value.length <= s.left.value.length
        <4>1. l.value.length \in Nat /\ p.length \in Nat /\ x.left.value.length \in Nat
          BY <1>3, <3>5, GoodIs, PieceIs DEF GoodValue
        <4> QED BY <4>1, <2>3, <3>2, <3>10, <3>11
      <3>16. LeftReady(t, s)
        BY <1>7, <3>2, <3>11, <3>12, <3>14, <3>15 DEF LeftReady
      <3> QED BY <3>16, <1>6 DEF s
    <2> QED BY <2>11, <2>12
  <1> QED BY <1>9, <1>10


(* The node that goes on with its right child, or loses its own piece. *)
RightReady(t, s) ==
    /\ Sound(s, t)
    /\ s.left.value.length <= t.left.value.length
    /\ s.right.kind = "leaf" => s.left = Leaf /\ Shrunk(t, Leaf)
    /\ s.right.kind = "node" =>
          /\ \/ RedRoot(s.right) \/ RedOnLeft(s.right)
             \/ /\ RedOnRight(s.right)
                /\ t.left.value.length =
                      s.left.value.length + s.piece.length + s.right.left.value.length
          /\ \A u : \A q \in Pieces : Good(u) /\ Shrunk(s.right, u)
                                        => Shrunk(t, FixUp(Mk(s.color, s.left, q, u)))

(* A node that has a red child on its left: that one goes over. *)
LEMMA GoingRightLeaning ==
  ASSUME NEW t, Good(t), RedOnLeft(t), NEW s, s = MoveR(Lean(t))
  PROVE  RightReady(t, s) /\ ~Two(Lean(t).right)
  <1> DEFINE l == t.left
             r == t.right
             p == t.piece
             in == Mk("red", l.right, p, r)
             y == Mk("black", l.left, l.piece, in)
  <1>1. t.kind = "node" /\ Ok(t) /\ Black(t) /\ Red(l) /\ t.color = "black"
    BY DEF RedOnLeft, Black
  <1>2. /\ Ok(l) /\ Ok(r) /\ l.height = r.height /\ Black(r) /\ Good(l) /\ Good(r)
        /\ l.height \in Nat
    BY <1>1, OkIs
  <1>3. l.kind = "node"
    BY <1>1, <1>2, GoodIs
  <1>4. /\ Ok(l.left) /\ Ok(l.right) /\ l.left.height = l.right.height /\ Black(l.right)
        /\ Black(l.left) /\ l.height = l.left.height /\ Good(l.left) /\ Good(l.right)
    BY <1>1, <1>2, <1>3, OkIs
  <1>5. p \in Pieces /\ l.piece \in Pieces
    BY <1>1, <1>2, <1>3, GoodNode
  <1>6. Lean(t) = y
    BY <1>1 DEF Lean, RotR
  <1>7. /\ in.kind = "node" /\ in.left = l.right
        /\ Ok(in) <=> /\ Ok(l.right) /\ Ok(r) /\ l.right.height = r.height /\ Black(r)
                      /\ "red" = "red" => Black(l.right)
        /\ Red(in) <=> "red" = "red"
    BY MkShape, ColorsAre
  <1>8. RedRoot(in)
    BY <1>2, <1>4, <1>7 DEF RedRoot
  <1>9. Good(in)
    BY <1>2, <1>4, <1>5, MkIsGood, ColorsAre
  <1>10. y.kind = "node" /\ y.color = "black" /\ y.left = l.left /\ y.piece = l.piece /\ y.right = in
    BY MkIs
  <1>11. Sound(y, t)
    BY <1>1, <1>6, LeanIsSound
  <1> HIDE DEF in, y
  <1>12. ~Two(y.right) /\ MoveR(y) = y
    BY <1>7, <1>10 DEF Two, MoveR
  <1>13. s = y
    BY <1>6, <1>12
  <1>14. ASSUME NEW u, NEW q \in Pieces, Good(u), Shrunk(in, u)
         PROVE  Shrunk(t, FixUp(Mk("black", l.left, q, u)))
    <2> DEFINE v == FixUp(Mk("black", l.left, q, u))
    <2>1. Ok(u) /\ u.height = l.left.height
      <3>1. Shrunk(in, u) <=> Ok(u) /\ u.height = in.left.height
        BY <1>8, <1>9, ShrunkIs
      <3> QED BY <3>1, <1>4, <1>7, <1>14
    <2>2. FixedUp(v, "black", l.left, u)
      BY <1>4, <1>14, <2>1, ColorsAre, FixUpIs
    <2>3. ~Red(l.left)
      BY <1>4, ColorsDiffer
    <2>4. Shrunk(t, v) <=> Ok(v) /\ v.height = l.height + 1 /\ Black(v)
      BY ShrunkIs
    <2> HIDE DEF v
    <2>5. Ok(v) /\ v.height = l.left.height + 1 /\ Black(v)
      BY <2>2, <2>3 DEF FixedUp
    <2>6. Shrunk(t, v)
      BY <2>4, <2>5, <1>4
    <2> QED BY <2>6 DEF v
  <1>15. l.left.value.length <= l.value.length
    <2>1. /\ l.value.length = l.left.value.length + l.piece.length + l.right.value.length
          /\ GoodValue(l.left.value) /\ GoodValue(l.right.value)
      BY <1>2, <1>3, GoodNode
    <2>2. l.left.value.length \in Nat /\ l.right.value.length \in Nat /\ l.piece.length \in Nat
      BY <2>1, <1>5, PieceIs DEF GoodValue
    <2> QED BY <2>1, <2>2
  <1>16. RightReady(t, y)
    BY <1>7, <1>8, <1>10, <1>11, <1>14, <1>15 DEF RightReady
  <1> QED BY <1>6, <1>12, <1>13, <1>16

(* A node whose red child came over before. *)
LEMMA GoingRightAgain ==
  ASSUME NEW t, Good(t), RedOnRight(t), NEW s, s = MoveR(Lean(t))
  PROVE  RightReady(t, s) /\ ~Two(Lean(t).right)
  <1> DEFINE l == t.left
             r == t.right
             p == t.piece
  <1>1. /\ t.kind = "node" /\ Black(t) /\ t.color = "black" /\ Black(l) /\ Ok(l) /\ Red(r) /\ Ok(r)
        /\ l.height = r.height
    BY DEF RedOnRight, Black
  <1>2. Good(l) /\ Good(r) /\ t = Mk("black", l, p, r) /\ p \in Pieces /\ GoodValue(l.value)
    BY <1>1, GoodNode
  <1>3. ~Red(l) /\ r.kind = "node"
    BY <1>1, <1>2, ColorsDiffer, GoodIs
  <1>4. Lean(t) = t /\ ~Two(t.right) /\ s = t
    BY <1>1, <1>3 DEF Lean, Two, MoveR
  <1>5. RedRoot(r)
    BY <1>1, <1>3 DEF RedRoot
  <1>6. r.left.height = r.height
    BY <1>1, <1>2, <1>3, OkIs
  <1>7. ASSUME NEW u, NEW q \in Pieces, Good(u), Shrunk(r, u)
        PROVE  Shrunk(t, FixUp(Mk("black", l, q, u)))
    <2> DEFINE v == FixUp(Mk("black", l, q, u))
    <2>1. Ok(u) /\ u.height = l.height
      <3>1. Shrunk(r, u) <=> Ok(u) /\ u.height = r.left.height
        BY <1>2, <1>5, ShrunkIs
      <3> QED BY <3>1, <1>1, <1>6, <1>7
    <2>2. FixedUp(v, "black", l, u)
      BY <1>1, <1>2, <1>7, <2>1, ColorsAre, FixUpIs
    <2>3. Shrunk(t, v) <=> Ok(v) /\ v.height = l.height + 1 /\ Black(v)
      BY ShrunkIs
    <2> HIDE DEF v
    <2>4. Ok(v) /\ v.height = l.height + 1 /\ Black(v)
      BY <2>2, <1>3 DEF FixedUp
    <2>5. Shrunk(t, v)
      BY <2>3, <2>4
    <2> QED BY <2>5 DEF v
  <1>8. l.value.length <= l.value.length
    BY <1>2 DEF GoodValue
  <1>9. Sound(t, t)
    BY <1>1, SoundIsReflexive
  <1>10. RightReady(t, t)
    BY <1>1, <1>3, <1>5, <1>7, <1>8, <1>9 DEF RightReady
  <1> QED BY <1>4, <1>10

(* A node whose left child is black, and which leans. *)
LEMMA GoingRightBlack ==
  ASSUME NEW t, Good(t), RedRoot(t) \/ AllBlack(t), NEW s, s = MoveR(Lean(t))
  PROVE  /\ RightReady(t, s)
         /\ Two(Lean(t).right) => Lean(t).left.kind = "node"
  <1> DEFINE l == t.left
             r == t.right
             c == t.color
             p == t.piece
  <1>1. t.kind = "node" /\ Ok(t) /\ (Red(t) <=> ~Black(t))
    BY ColorsDiffer DEF RedRoot, AllBlack
  <1>2. /\ Ok(l) /\ Ok(r) /\ l.height = r.height /\ Black(r) /\ Good(l) /\ Good(r)
        /\ l.height \in Nat /\ Black(l) /\ ~Red(r)
    BY <1>1, OkIs DEF RedRoot, AllBlack
  <1>3. /\ c \in Colors /\ p \in Pieces /\ t = Mk(c, l, p, r)
        /\ (c = "red" <=> Red(t)) /\ (c = "black" <=> Black(t))
        /\ GoodValue(l.value)
    BY <1>1, GoodNode DEF Red, Black
  <1>4. ~Red(l)
    BY <1>2, ColorsDiffer
  <1>5. /\ RedRoot(t) => \A u : Shrunk(t, u) <=> Ok(u) /\ u.height = l.height
        /\ AllBlack(t) => \A u : Shrunk(t, u) <=> Ok(u) \/ HalfOk(u, u.left.height)
    BY ShrunkIs
  <1>6. Lean(t) = t
    BY <1>4 DEF Lean
  <1>7. Two(r) => l.kind = "node"
    <2>1. ASSUME Two(r) PROVE l.kind = "node"
      <3>1. r.height # 0
        BY <2>1, <1>2, NoHeight DEF Two
      <3> QED BY <3>1, <1>2, NoHeight
    <2> QED BY <2>1
  <1>8. Sound(s, t)
    BY <1>1, <1>6, <1>7, MoveRIsSound
  <1>9. CASE ~Two(r)
    <2>1. s = t
      BY <1>6, <1>9 DEF MoveR
    <2>2. r.kind = "node" => RedOnLeft(r)
      BY <1>2, <1>9 DEF Two, RedOnLeft
    <2>3. ASSUME NEW u, NEW q \in Pieces, r.kind = "node", Good(u), Shrunk(r, u)
          PROVE  Shrunk(t, FixUp(Mk(c, l, q, u)))
      <3> DEFINE v == FixUp(Mk(c, l, q, u))
      <3>1. Ok(u) /\ Black(u) /\ u.height = l.height
        <4>1. Shrunk(r, u) <=> Ok(u) /\ u.height = r.left.height + 1 /\ Black(u)
          BY <1>2, <2>2, <2>3, ShrunkIs
        <4>2. r.height = r.left.height + 1
          BY <1>2, <2>3, OkIs
        <4> QED BY <4>1, <4>2, <2>3, <1>2
      <3>2. FixedUp(v, c, l, u)
        BY <1>2, <1>3, <2>3, <3>1, FixUpIs
      <3> HIDE DEF v, l, r, c, p
      <3>3. CASE RedRoot(t)
        <4>1. c = "red"
          BY <3>3, <1>3 DEF RedRoot
        <4>2. Ok(v) /\ v.height = l.height
          BY <3>1, <3>2, <4>1, <1>2 DEF FixedUp
        <4>3. Shrunk(t, v)
          BY <4>2, <3>3, <1>5
        <4> QED BY <4>3 DEF v
      <3>4. CASE AllBlack(t)
        <4>1. c = "black"
          BY <3>4, <1>3 DEF AllBlack
        <4>2. Ok(v)
          BY <3>2, <4>1 DEF FixedUp
        <4>3. Shrunk(t, v)
          BY <4>2, <3>4, <1>5
        <4> QED BY <4>3 DEF v
      <3> QED BY <3>3, <3>4
    <2>4. r.kind = "leaf" => l = Leaf /\ Shrunk(t, Leaf)
      <3>1. ASSUME r.kind = "leaf" PROVE l = Leaf /\ Shrunk(t, Leaf)
        <4>1. l.height = 0
          BY <3>1, <1>2, GoodIs, LeafIs
        <4>2. l = Leaf
          BY <4>1, <1>2, NoHeight
        <4> QED BY <4>1, <4>2, <1>5, LeafIs
      <3> QED BY <3>1
    <2>5. l.value.length <= l.value.length
      BY <1>3 DEF GoodValue
    <2>6. RightReady(t, t)
      BY <1>8, <2>1, <2>2, <2>3, <2>4, <2>5 DEF RightReady
    <2> QED BY <2>1, <2>6, <1>6, <1>9
  <1>10. CASE Two(r)
    <2> DEFINE d == Flipped(c)
               nl == Repainted(l, "red")
               nr == Repainted(r, "red")
               f == Mk(d, nl, p, nr)
    <2>1. r.kind = "node" /\ l.kind = "node" /\ ~Red(r.left)
      BY <1>7, <1>10 DEF Two
    <2>3. /\ Good(nl) /\ Red(nl) /\ nl.value = l.value /\ l.height = nl.height + 1
          /\ nl.height \in Nat /\ nl.left = l.left /\ nl.height = l.left.height
          /\ nl.right = l.right /\ nl.piece = l.piece /\ nl.kind = "node"
          /\ ~Red(l.left) => RedRoot(nl)
      BY <1>2, <2>1, PaintedRed
    <2>4. /\ Good(nr) /\ Red(nr) /\ nr.left = r.left /\ RedRoot(nr)
          /\ r.height = nr.height + 1 /\ nr.height \in Nat /\ nr.kind = "node"
          /\ nr.height = r.left.height
      BY <1>2, <2>1, PaintedRed
    <2>5. l.color = "black" /\ r.color = "black"
      BY <1>2 DEF Black
    <2>6. Flip(t) = f
      BY <2>5, FlippedIs DEF Flip
    <2>7. s = BorrowL(f)
      BY <1>6, <1>10, <2>6 DEF MoveR
    <2>8. d \in Colors /\ (c = "red" <=> d = "black") /\ (c = "black" <=> d = "red")
      BY <1>3, ColorsAre, FlippedIs DEF Colors
    <2>9. f.kind = "node" /\ f.color = d /\ f.left = nl /\ f.piece = p /\ f.right = nr
      BY MkIs
    <2>10. nl.height = nr.height
      <3>1. nl.height + 1 = nr.height + 1
        BY <1>2, <2>3, <2>4
      <3>2. nl.height \in Nat /\ nr.height \in Nat
        BY <2>3, <2>4
      <3> HIDE DEF nl, nr
      <3> QED BY <3>1, <3>2
    <2>11. Ok(nr) /\ ~Red(nr.left)
      BY <2>1, <2>4 DEF RedRoot
    <2> HIDE DEF d, nl, nr
    <2>12. CASE ~Red(l.left)
      <3>1. s = f
        BY <2>3, <2>7, <2>9, <2>12 DEF BorrowL
      <3>2. Ok(nl)
        BY <2>3, <2>12 DEF RedRoot
      <3> HIDE DEF f
      <3>3. ASSUME NEW u, NEW q \in Pieces, Good(u), Shrunk(nr, u)
            PROVE  Shrunk(t, FixUp(Mk(d, nl, q, u)))
        <4> DEFINE v == FixUp(Mk(d, nl, q, u))
        <4>2. Ok(u) /\ u.height = nl.height
          <5>1. Shrunk(nr, u) <=> Ok(u) /\ u.height = nr.left.height
            BY <2>4, ShrunkIs
          <5> QED BY <5>1, <2>4, <2>10, <3>3
        <4>3. FixedUp(v, d, nl, u)
          BY <2>3, <2>8, <3>2, <3>3, <4>2, FixUpIs
        <4> HIDE DEF v, l, r, c, p
        <4>4. CASE RedRoot(t)
          <5>1. d = "black"
            BY <4>4, <1>3, <2>8 DEF RedRoot
          <5>2. Ok(v) /\ v.height = nl.height + 1
            BY <4>3, <5>1 DEF FixedUp
          <5>3. Shrunk(t, v)
            BY <5>2, <4>4, <2>3, <1>5
          <5> QED BY <5>3 DEF v
        <4>5. CASE AllBlack(t)
          <5>1. d = "red"
            BY <4>5, <1>3, <2>8 DEF AllBlack
          <5>2. Ok(v) \/ HalfOk(v, nl.height)
            BY <4>3, <5>1 DEF FixedUp
          <5>3. Ok(v) \/ HalfOk(v, v.left.height)
            BY <5>2 DEF HalfOk
          <5>4. Shrunk(t, v)
            BY <5>3, <4>5, <1>5
          <5> QED BY <5>4 DEF v
        <4> QED BY <4>4, <4>5
      <3>4. nl.value.length <= l.value.length
        BY <2>3, <1>3 DEF GoodValue
      <3>5. RightReady(t, s)
        BY <1>8, <2>4, <2>9, <3>1, <3>3, <3>4 DEF RightReady
      <3> QED BY <3>5, <1>6, <1>7
    <2>13. CASE Red(l.left)
      <3> DEFINE x == l.left
                 a == Repainted(x, "black")
                 b == Mk("black", l.right, p, nr)
                 y == Mk(c, a, l.piece, b)
      <3>1. Flipped(d) = c
        BY <1>3, FlippedIs DEF d, Colors
      <3>2. s = y
        <4>1. BorrowL(f) = Mk(Flipped(d), Repainted(x, "black"), nl.piece,
                              Mk("black", nl.right, p, nr))
          BY <2>3, <2>13, BorrowedLeft
        <4> QED BY <4>1, <3>1, <2>3, <2>7
      <3>3. /\ Good(x) /\ Ok(x) /\ l.height = x.height + 1 /\ Ok(l.right) /\ Black(l.right)
            /\ l.right.height = x.height /\ Good(l.right) /\ x.height \in Nat
        <4>1. /\ Good(x) /\ Ok(x) /\ (Black(l) => l.height = x.height + 1)
              /\ Ok(l.right) /\ Black(l.right) /\ x.height = l.right.height /\ Good(l.right)
              /\ x.height \in Nat
          BY <1>2, <2>1, OkIs
        <4> QED BY <4>1, <1>2
      <3>4. x.kind = "node"
        BY <3>3, <2>13, ColorsDiffer, GoodIs
      <3>5. x.left.height = x.height
        BY <3>3, <3>4, <2>13, OkIs
      <3>6. l.piece \in Pieces /\ l.value.length = x.value.length + l.piece.length + l.right.value.length
        BY <1>2, <2>1, GoodNode
      <3>7. /\ a.height = x.left.height + (IF "black" = "black" THEN 1 ELSE 0)
            /\ Black(a) <=> "black" = "black"
            /\ Ok(x) /\ ("black" = "red" => Black(x.left)) => Ok(a)
        BY <3>3, <3>4, RepaintedShape, ColorsAre
      <3>8. Good(a) /\ a.value = x.value
        BY <3>3, <3>4, RepaintedIsSound, ColorsAre DEF Sound
      <3> HIDE DEF x
      <3>9. /\ b.kind = "node" /\ b.left = l.right /\ b.right = nr
            /\ Black(b) <=> "black" = "black"
        BY MkShape, ColorsAre
      <3>10. Good(b)
        BY <1>3, <2>4, <3>3, MkIsGood, ColorsAre
      <3>11. y.color = c /\ y.left = a /\ y.piece = l.piece /\ y.right = b
        BY MkIs
      <3> HIDE DEF a, b, y
      <3>12. Ok(a) /\ Black(a) /\ a.height = l.height
        BY <3>3, <3>5, <3>7
      <3>13. l.right.height = nr.height
        <4>1. nl.height + 1 = x.height + 1 /\ nl.height \in Nat
          BY <2>3, <3>3
        <4>2. nl.height = x.height
          BY <4>1, <3>3
        <4> QED BY <4>2, <2>10, <3>3
      <3>14. RedOnRight(b)
        BY <3>3, <3>9, <3>13, <2>4, <2>11 DEF RedOnRight
      <3>15. ASSUME NEW u, NEW q \in Pieces, Good(u), Shrunk(b, u)
             PROVE  Shrunk(t, FixUp(Mk(c, a, q, u)))
        <4> DEFINE v == FixUp(Mk(c, a, q, u))
        <4>2. Ok(u) /\ Black(u) /\ u.height = a.height
          <5>1. Shrunk(b, u) <=> Ok(u) /\ u.height = b.left.height + 1 /\ Black(u)
            BY <3>10, <3>14, ShrunkIs
          <5> QED BY <5>1, <3>3, <3>9, <3>12, <3>15
        <4>3. FixedUp(v, c, a, u)
          BY <1>3, <3>8, <3>12, <3>15, <4>2, FixUpIs
        <4> HIDE DEF v, l, r, c, p
        <4>4. CASE RedRoot(t)
          <5>1. c = "red"
            BY <4>4, <1>3 DEF RedRoot
          <5>2. Ok(v) /\ v.height = a.height
            BY <4>2, <4>3, <5>1, <3>12 DEF FixedUp
          <5>3. Shrunk(t, v)
            BY <5>2, <4>4, <3>12, <1>5
          <5> QED BY <5>3 DEF v
        <4>5. CASE AllBlack(t)
          <5>1. c = "black"
            BY <4>5, <1>3 DEF AllBlack
          <5>2. Ok(v)
            BY <4>3, <5>1 DEF FixedUp
          <5>3. Shrunk(t, v)
            BY <5>2, <4>5, <1>5
          <5> QED BY <5>3 DEF v
        <4> QED BY <4>4, <4>5
      <3>16. a.value.length <= l.value.length
             /\ l.value.length = a.value.length + l.piece.length + b.left.value.length
        <4>1. x.value.length \in Nat /\ l.piece.length \in Nat /\ l.right.value.length \in Nat
          BY <3>3, <3>6, GoodIs, PieceIs DEF GoodValue
        <4>2. l.value.length = a.value.length + l.piece.length + b.left.value.length
          BY <3>6, <3>8, <3>9
        <4> QED BY <4>1, <4>2, <3>6, <3>8
      <3>17. RightReady(t, y)
        BY <1>8, <3>2, <3>9, <3>11, <3>14, <3>15, <3>16 DEF RightReady
      <3> QED BY <3>2, <3>17, <1>6, <1>7
    <2> QED BY <2>12, <2>13
  <1> QED BY <1>9, <1>10

LEMMA GoingRight ==
  ASSUME NEW t, Good(t), RedRoot(t) \/ RedOnLeft(t) \/ RedOnRight(t) \/ AllBlack(t),
         NEW s, s = MoveR(Lean(t))
  PROVE  /\ RightReady(t, s)
         /\ Two(Lean(t).right) => Lean(t).left.kind = "node"
  BY GoingRightLeaning, GoingRightAgain, GoingRightBlack

-----------------------------------------------------------------------------
(* Removal, on the way back: o is an owned node of what is left of the tree *)
(* of n without the piece at `at'.                                        *)
Gives(ns, own, n, at, o) ==
    \E u : /\ Yields(ns, own, o, u) /\ Good(u) /\ Shrunk(Tree(ns, n), u)
           /\ u.value = Values!RemovePiece(Tree(ns, n).value, at)

(* A call that goes on with the left child, and gets what is left of it. *)
LEMMA GivesLeft ==
  ASSUME NEW ns, NEW own, Heap(ns, own), NEW n, NEW t, t = Tree(ns, n), Good(t),
         NEW owned, NEW s, Yields(ns, own, owned, s), LeftReady(t, s),
         NEW hs, hs = owned.nodes, NEW a, a = owned.node, NEW child, child = hs[a].left,
         NEW at, at \in DOMAIN s.left.value.pieces,
         NEW o, Gives(hs, Plus(own, a), child, at, o)
  PROVE  Gives(ns, own, n, at, RebuiltLeft(a, o, TRUE))
  <1>1. Sound(s, t) /\ s.kind = "node" /\ Good(s) /\ s.value = t.value
    BY DEF LeftReady, Sound
  <1>2. own \in Owned
    BY HeapIs
  <1>3. Holds(ns, own, owned, s, hs, a, Plus(own, a))
    BY <1>1, <1>2, YieldsHolds, Zenon
  <1>4. /\ Heap(hs, Plus(own, a)) /\ ns \in Store /\ Same(ns, hs) /\ a \in Nat /\ IsRootOf(hs, a, s)
        /\ WellMade(hs)
    BY <1>3 DEF Holds
  <1>5. Tree(hs, child) = s.left
    BY <1>4 DEF IsRootOf
  <1>6. PICK u : /\ Yields(hs, Plus(own, a), o, u) /\ Good(u) /\ Shrunk(s.left, u)
                 /\ u.value = Values!RemovePiece(s.left.value, at)
    BY <1>5 DEF Gives
  <1>7. Yields(ns, own, RebuiltLeft(a, o, TRUE), RejoinedL(s, u))
    <2>1. a = IF TRUE THEN a ELSE NULL
      OBVIOUS
    <2> QED BY <2>1, <1>2, <1>4, <1>6, RebuiltYields
  <1>8. Shrunk(t, RejoinedL(s, u))
    BY <1>6 DEF LeftReady
  <1>9. /\ s.color \in Colors /\ s.piece \in Pieces /\ Good(s.left) /\ Good(s.right)
        /\ s.value = JoinedValue(s.left.value, s.piece, s.right.value)
    BY <1>1, GoodNode
  <1>10. Good(RejoinedL(s, u)) /\ RejoinedL(s, u).value = Values!RemovePiece(t.value, at)
    <2> DEFINE x == Mk(s.color, u, s.piece, s.right)
    <2>1. Good(x) /\ x.kind = "node"
      BY <1>6, <1>9, MkIsGood, MkKind
    <2>2. x.value = JoinedValue(u.value, s.piece, s.right.value)
      BY MkIs
    <2> HIDE DEF x
    <2>3. Good(FixUp(x)) /\ FixUp(x).value = x.value
      BY <2>1, FixUpIsSound DEF Sound
    <2>4. GoodValue(u.value) /\ GoodValue(s.left.value) /\ GoodValue(s.right.value)
      BY <1>6, <1>9, GoodIs
    <2>5. JoinedValue(u.value, s.piece, s.right.value)
            = Values!RemovePiece(JoinedValue(s.left.value, s.piece, s.right.value), at)
      BY <2>4, <1>6, <1>9, RemoveLeft
    <2> QED BY <2>2, <2>3, <2>5, <1>1, <1>9 DEF RejoinedL, x
  <1> QED BY <1>7, <1>8, <1>10 DEF Gives

(* A call that goes on with the right child. *)
LEMMA GivesRight ==
  ASSUME NEW ns, NEW own, Heap(ns, own), NEW n, NEW t, t = Tree(ns, n), Good(t),
         NEW owned, NEW s, Yields(ns, own, owned, s), RightReady(t, s), s.right.kind = "node",
         NEW hs, hs = owned.nodes, NEW a, a = owned.node, NEW child, child = hs[a].right,
         NEW at, at \in DOMAIN s.right.value.pieces,
         NEW o, Gives(hs, Plus(own, a), child, at, o)
  PROVE  Gives(ns, own, n, s.left.value.length + s.piece.length + at, RebuiltRight(a, o, TRUE))
  <1>1. Sound(s, t) /\ s.kind = "node" /\ Good(s) /\ s.value = t.value
    BY DEF RightReady, Sound
  <1>2. own \in Owned
    BY HeapIs
  <1>3. Holds(ns, own, owned, s, hs, a, Plus(own, a))
    BY <1>1, <1>2, YieldsHolds, Zenon
  <1>4. /\ Heap(hs, Plus(own, a)) /\ ns \in Store /\ Same(ns, hs) /\ a \in Nat /\ IsRootOf(hs, a, s)
        /\ WellMade(hs)
    BY <1>3 DEF Holds
  <1>5. Tree(hs, child) = s.right
    BY <1>4 DEF IsRootOf
  <1>6. PICK u : /\ Yields(hs, Plus(own, a), o, u) /\ Good(u) /\ Shrunk(s.right, u)
                 /\ u.value = Values!RemovePiece(s.right.value, at)
    BY <1>5 DEF Gives
  <1>7. Yields(ns, own, RebuiltRight(a, o, TRUE), RejoinedR(s, u))
    <2>1. a = IF TRUE THEN a ELSE NULL
      OBVIOUS
    <2> QED BY <2>1, <1>2, <1>4, <1>6, RebuiltYields
  <1>9. /\ s.color \in Colors /\ s.piece \in Pieces /\ Good(s.left) /\ Good(s.right)
        /\ s.value = JoinedValue(s.left.value, s.piece, s.right.value)
    BY <1>1, GoodNode
  <1>8. Shrunk(t, RejoinedR(s, u))
    BY <1>6, <1>9 DEF RightReady, RejoinedR
  <1>10. Good(RejoinedR(s, u))
         /\ RejoinedR(s, u).value
              = Values!RemovePiece(t.value, s.left.value.length + s.piece.length + at)
    <2> DEFINE x == Mk(s.color, s.left, s.piece, u)
    <2>1. Good(x) /\ x.kind = "node"
      BY <1>6, <1>9, MkIsGood, MkKind
    <2>2. x.value = JoinedValue(s.left.value, s.piece, u.value)
      BY MkIs
    <2> HIDE DEF x
    <2>3. Good(FixUp(x)) /\ FixUp(x).value = x.value
      BY <2>1, FixUpIsSound DEF Sound
    <2>4. GoodValue(u.value) /\ GoodValue(s.left.value) /\ GoodValue(s.right.value)
      BY <1>6, <1>9, GoodIs
    <2>5. JoinedValue(s.left.value, s.piece, u.value)
            = Values!RemovePiece(JoinedValue(s.left.value, s.piece, s.right.value),
                                 s.left.value.length + s.piece.length + at)
      BY <2>4, <1>6, <1>9, RemoveRight
    <2> QED BY <2>2, <2>3, <2>5, <1>1, <1>9 DEF RejoinedR, x
  <1> QED BY <1>7, <1>8, <1>10 DEF Gives

-----------------------------------------------------------------------------
(* Removal of the smallest piece *)

(* A call of delete_min_node on a tree that can spare a node. *)
MinReady(c, own) ==
    /\ c = MinCall(c.nodes, c.node)
    /\ Heap(c.nodes, own)
    /\ IsRootOf(c.nodes, c.node, Tree(c.nodes, c.node))
    /\ RedRoot(Tree(c.nodes, c.node)) \/ RedOnLeft(Tree(c.nodes, c.node))

LEMMA MinCallIs ==
  ASSUME NEW ns, NEW n
  PROVE  /\ MinCall(ns, n).nodes = ns /\ MinCall(ns, n).node = n
         /\ MinCall(ns, n).owned = MoveRedLeftIf(Copy(ns, n))
  BY DEF MinCall

LEMMA MinRejoined ==
  ASSUME NEW ns, NEW n, NEW o
  PROVE  Rejoined(MinCall(ns, n), o) = RebuiltLeft(MinCall(ns, n).owned.node, o, TRUE)
  BY DEF MinCall, Rejoined

(* What is left at the smallest piece. *)
LEMMA AtMinimumGives ==
  ASSUME NEW c, NEW own, MinReady(c, own), AtMinimum(c)
  PROVE  Gives(c.nodes, own, c.node, 0, [nodes |-> c.nodes, node |-> NULL])
  <1> DEFINE ns == c.nodes
             t == Tree(ns, c.node)
             last == [nodes |-> ns, node |-> NULL]
  <1>1. Heap(ns, own) /\ WellMade(ns) /\ ns \in Store /\ own \in Owned
    BY HeapIs DEF MinReady
  <1>2. IsRootOf(ns, c.node, t) /\ ns[c.node].left = NULL
    BY DEF MinReady, AtMinimum
  <1>3. Good(t) /\ t.kind = "node"
    <2>1. InUse(ns, c.node)
      BY <1>2 DEF IsRootOf, InUse
    <2> QED BY <1>1, <1>2, <2>1, TreesAreGood DEF IsRootOf
  <1>4. t.left = Leaf
    BY <1>1, <1>2, TreeAt DEF IsRootOf
  <1> HIDE DEF t
  <1>5. RedRoot(t)
    <2>1. ~Red(t.left)
      BY <1>4, LeafIs
    <2> QED BY <2>1 DEF MinReady, RedOnLeft, t
  <1>6. t.right = Leaf /\ t.left.height = 0
    <2>1. t.left.height = t.right.height /\ Black(t.right) /\ Good(t.right)
      BY <1>3, <1>5, OkIs DEF RedRoot
    <2> QED BY <2>1, <1>4, LeafIs, NoHeight
  <1>7. t.piece \in Pieces /\ t.value = JoinedValue(t.left.value, t.piece, t.right.value)
    BY <1>3, GoodNode
  <1>8. Leaf.value = Values!RemovePiece(t.value, 0)
    BY <1>4, <1>6, <1>7, LeafIs, RemoveNothing
  <1>9. Shrunk(t, Leaf)
    <2>1. Shrunk(t, Leaf) <=> Ok(Leaf) /\ Leaf.height = t.left.height
      BY <1>3, <1>5, ShrunkIs
    <2> QED BY <2>1, <1>6, LeafIs
  <1>10. Yields(ns, own, last, Leaf)
    <2>1. last.nodes = ns /\ last.node = NULL /\ last = [nodes |-> last.nodes, node |-> last.node]
      OBVIOUS
    <2>2. Heap(ns, Plus(own, NULL)) /\ Same(ns, ns) /\ Tree(ns, NULL) = Leaf /\ NULL \in Nat
      BY <1>1, NullOwned, SameIsReflexive, TreeAt DEF NULL
    <2> HIDE DEF last, ns
    <2> QED BY <1>1, <2>1, <2>2 DEF Yields
  <1> QED BY <1>8, <1>9, <1>10, LeafIsGood DEF Gives, t

(* One more step down to it. *)
LEMMA MinGoesOn ==
  ASSUME NEW c, NEW own, MinReady(c, own), ~AtMinimum(c),
         NEW d, d = NextMinCall(c), NEW more, more = Plus(own, c.owned.node)
  PROVE  /\ MinReady(d, more)
         /\ Tree(d.nodes, d.node).value.length < Tree(c.nodes, c.node).value.length
         /\ Tree(d.nodes, d.node).value.length \in Nat
         /\ \A o : Gives(d.nodes, more, d.node, 0, o) => Gives(c.nodes, own, c.node, 0, Rejoined(c, o))
  <1> DEFINE ns == c.nodes
             n == c.node
             t == Tree(ns, n)
             s == MoveL(t)
             hs == c.owned.nodes
             a == c.owned.node
             child == hs[a].left
  <1>1. Heap(ns, own) /\ WellMade(ns) /\ ns \in Store /\ own \in Owned
    BY HeapIs DEF MinReady
  <1>2. IsRootOf(ns, n, t) /\ ns[n].left # NULL /\ (RedRoot(t) \/ RedOnLeft(t))
    BY DEF MinReady, AtMinimum
  <1>3. Good(t) /\ t.kind = "node"
    <2>1. InUse(ns, n)
      BY <1>2 DEF IsRootOf, InUse
    <2> QED BY <1>1, <1>2, <2>1, TreesAreGood DEF IsRootOf
  <1>4. t.left.kind = "node"
    BY <1>1, <1>2, ChildrenAre
  <1>5. c.owned = MoveRedLeftIf(Copy(ns, n))
    <2>1. c = MinCall(ns, n)
      BY DEF MinReady
    <2> HIDE DEF ns, n
    <2> QED BY <2>1, MinCallIs
  <1>6. (Two(t.left) => t.right.kind = "node") /\ LeftReady(t, s)
    BY <1>2, <1>3, <1>4, GoingLeft
  <1>7. Yields(ns, own, c.owned, s) /\ s.kind = "node"
    <2>1. Yields(ns, own, Copy(ns, n), t)
      BY <1>1, <1>2, CopyYields
    <2> QED BY <2>1, <1>1, <1>3, <1>5, <1>6, MoveLYields
  <1>8. Holds(ns, own, c.owned, s, hs, a, Plus(own, a))
    BY <1>1, <1>7, YieldsHolds, Zenon
  <1>9. Heap(hs, Plus(own, a)) /\ IsRootOf(hs, a, s) /\ WellMade(hs)
    BY <1>8 DEF Holds
  <1>10. InUse(hs, child) /\ Tree(hs, child) = s.left
    BY <1>9 DEF IsRootOf
  <1> HIDE DEF t, s
  <1>11. Good(s) /\ s.value = t.value /\ (RedRoot(s.left) \/ RedOnLeft(s.left))
    BY <1>6 DEF LeftReady, Sound
  <1>12. /\ s.value.length = s.left.value.length + s.piece.length + s.right.value.length
         /\ GoodValue(s.left.value) /\ GoodValue(s.right.value) /\ s.piece \in Pieces
    BY <1>7, <1>11, GoodNode
  <1>13. d.nodes = hs /\ d.node = child /\ d = MinCall(hs, child)
    <2>1. d = MinCall(hs, child)
      BY DEF NextMinCall, Node
    <2> HIDE DEF hs, child
    <2> QED BY <2>1, MinCallIs
  <1>14. s.left.kind = "node"
    BY <1>11 DEF RedRoot, RedOnLeft
  <1>15. IsRootOf(hs, child, s.left)
    BY <1>9, <1>10, <1>14, RootIs
  <1>16. s.left.value.length < t.value.length /\ s.left.value.length \in Nat
    <2>1. s.piece.length \in Nat /\ s.piece.length > 0 /\ s.left.value.length \in Nat
          /\ s.right.value.length \in Nat
      BY <1>12, PieceIs DEF GoodValue
    <2> QED BY <2>1, <1>11, <1>12
  <1>17. more = Plus(own, a)
    OBVIOUS
  <1> HIDE DEF hs, a, child
  <1>18. MinReady(d, more)
    BY <1>9, <1>10, <1>11, <1>13, <1>15, <1>17 DEF MinReady
  <1>19. 0 \in DOMAIN s.left.value.pieces
    <2>1. s.left.value.length # 0
      BY <1>11, <1>14, GoodNode, <1>7
    <2> QED BY <2>1, <1>12 DEF GoodValue
  <1>20. ASSUME NEW o, Gives(d.nodes, more, d.node, 0, o)
         PROVE  Gives(ns, own, n, 0, Rejoined(c, o))
    <2>1. Gives(hs, Plus(own, a), child, 0, o)
      BY <1>13, <1>17, <1>20
    <2>2. Rejoined(c, o) = RebuiltLeft(a, o, TRUE)
      BY MinRejoined DEF MinReady, a
    <2>3. Gives(ns, own, n, 0, RebuiltLeft(a, o, TRUE))
      <3>1. hs = c.owned.nodes /\ a = c.owned.node /\ child = hs[a].left /\ t = Tree(ns, n)
        BY DEF hs, a, child, t
      <3> QED BY <2>1, <3>1, <1>1, <1>3, <1>6, <1>7, <1>19, GivesLeft
    <2> QED BY <2>2, <2>3
  <1> QED BY <1>10, <1>13, <1>16, <1>18, <1>20 DEF t

(* The calls on the way down, and what they give on the way up. *)
MinDown(f, first, n) ==
    f = [j \in 0 .. n |-> IF j = 0 THEN first ELSE NextMinCall(f[j - 1])]

LEMMA MinDownExists ==
  ASSUME NEW first, NEW n \in Nat
  PROVE  \E f : MinDown(f, first, n)
  <1> DEFINE S == {m \in Nat : \E f : MinDown(f, first, m)}
             next(j, x) == NextMinCall(x)
  <1>1. 0 \in S
    <2> DEFINE g == [j \in 0 .. 0 |-> first]
    <2>1. g = [j \in 0 .. 0 |-> IF j = 0 THEN first ELSE next(j, g[j - 1])]
      OBVIOUS
    <2> HIDE DEF g
    <2>2. MinDown(g, first, 0)
      BY <2>1 DEF MinDown
    <2> QED BY <2>2
  <1>2. ASSUME NEW m \in Nat, m \in S PROVE m + 1 \in S
    <2>1. PICK f : MinDown(f, first, m)
      BY <1>2
    <2> DEFINE y == next(m + 1, f[m])
               g == [j \in 0 .. m + 1 |-> IF j = m + 1 THEN y ELSE f[j]]
    <2>2. ASSUME NEW j \in 0 .. m + 1
          PROVE  g[j] = IF j = 0 THEN first ELSE next(j, g[j - 1])
      <3>1. CASE j = m + 1
        <4>1. j # 0 /\ j - 1 = m /\ m \in 0 .. m + 1 /\ m # m + 1
          BY <3>1
        <4> HIDE DEF y
        <4>2. g[m] = f[m] /\ g[j] = y
          BY <3>1, <4>1
        <4>3. g[j - 1] = f[m]
          BY <4>1, <4>2
        <4> HIDE DEF g, next
        <4> QED BY <3>1, <4>1, <4>2, <4>3 DEF y
      <3>2. CASE j # m + 1
        <4> HIDE DEF y
        <4>1. j \in 0 .. m /\ (j # 0 => j - 1 \in 0 .. m + 1 /\ j - 1 # m + 1)
          BY <3>2
        <4>2. g[j] = f[j] /\ (j # 0 => g[j - 1] = f[j - 1])
          BY <3>2, <4>1
        <4>3. f[j] = IF j = 0 THEN first ELSE next(j, f[j - 1])
          BY <2>1, <4>1 DEF MinDown
        <4> HIDE DEF g, next
        <4> QED BY <4>2, <4>3
      <3> QED BY <3>1, <3>2
    <2> HIDE DEF next, y
    <2>3. g = [j \in 0 .. m + 1 |-> g[j]]
      OBVIOUS
    <2> HIDE DEF g
    <2>4. g = [j \in 0 .. m + 1 |-> IF j = 0 THEN first ELSE next(j, g[j - 1])]
      BY <2>2, <2>3
    <2>5. MinDown(g, first, m + 1)
      BY <2>4 DEF MinDown, next
    <2> QED BY <2>5
  <1> HIDE DEF S
  <1>3. n \in S
    BY <1>1, <1>2, Induction
  <1> QED BY <1>3 DEF S

WayUp(f, last, down, depth, n) ==
    f = [j \in 0 .. n |-> IF j = 0 THEN last ELSE Rejoined(down[depth - j], f[j - 1])]

LEMMA WayUpExists ==
  ASSUME NEW last, NEW down, NEW depth, NEW n \in Nat
  PROVE  \E f : WayUp(f, last, down, depth, n)
  <1> DEFINE S == {m \in Nat : \E f : WayUp(f, last, down, depth, m)}
             next(j, x) == Rejoined(down[depth - j], x)
  <1>1. 0 \in S
    <2> DEFINE g == [j \in 0 .. 0 |-> last]
    <2>1. g = [j \in 0 .. 0 |-> IF j = 0 THEN last ELSE next(j, g[j - 1])]
      OBVIOUS
    <2> HIDE DEF g
    <2>2. WayUp(g, last, down, depth, 0)
      BY <2>1 DEF WayUp
    <2> QED BY <2>2
  <1>2. ASSUME NEW m \in Nat, m \in S PROVE m + 1 \in S
    <2>1. PICK f : WayUp(f, last, down, depth, m)
      BY <1>2
    <2> DEFINE y == next(m + 1, f[m])
               g == [j \in 0 .. m + 1 |-> IF j = m + 1 THEN y ELSE f[j]]
    <2>2. ASSUME NEW j \in 0 .. m + 1
          PROVE  g[j] = IF j = 0 THEN last ELSE next(j, g[j - 1])
      <3>1. CASE j = m + 1
        <4>1. j # 0 /\ j - 1 = m /\ m \in 0 .. m + 1 /\ m # m + 1
          BY <3>1
        <4> HIDE DEF y
        <4>2. g[m] = f[m] /\ g[j] = y
          BY <3>1, <4>1
        <4>3. g[j - 1] = f[m]
          BY <4>1, <4>2
        <4> HIDE DEF g, next
        <4> QED BY <3>1, <4>1, <4>2, <4>3 DEF y
      <3>2. CASE j # m + 1
        <4> HIDE DEF y
        <4>1. j \in 0 .. m /\ (j # 0 => j - 1 \in 0 .. m + 1 /\ j - 1 # m + 1)
          BY <3>2
        <4>2. g[j] = f[j] /\ (j # 0 => g[j - 1] = f[j - 1])
          BY <3>2, <4>1
        <4>3. f[j] = IF j = 0 THEN last ELSE next(j, f[j - 1])
          BY <2>1, <4>1 DEF WayUp
        <4> HIDE DEF g, next
        <4> QED BY <4>2, <4>3
      <3> QED BY <3>1, <3>2
    <2> HIDE DEF next, y
    <2>3. g = [j \in 0 .. m + 1 |-> g[j]]
      OBVIOUS
    <2> HIDE DEF g
    <2>4. g = [j \in 0 .. m + 1 |-> IF j = 0 THEN last ELSE next(j, g[j - 1])]
      BY <2>2, <2>3
    <2>5. WayUp(g, last, down, depth, m + 1)
      BY <2>4 DEF WayUp, next
    <2> QED BY <2>5
  <1> HIDE DEF S
  <1>3. n \in S
    BY <1>1, <1>2, Induction
  <1> QED BY <1>3 DEF S

LEMMA ReturnedIs ==
  ASSUME NEW down, NEW depth \in Nat, NEW last
  PROVE  \E f : /\ Returned(down, depth, last) = f[depth] /\ f[0] = last
                /\ \A j \in 1 .. depth : f[j] = Rejoined(down[depth - j], f[j - 1])
  <1> DEFINE f == CHOOSE f : WayUp(f, last, down, depth, depth)
  <1>1. WayUp(f, last, down, depth, depth)
    BY WayUpExists
  <1>2. Returned(down, depth, last) = f[depth]
    BY Zenon DEF Returned, WayUp
  <1> HIDE DEF f
  <1>3. f[0] = last
    BY <1>1 DEF WayUp
  <1>4. ASSUME NEW j \in 1 .. depth PROVE f[j] = Rejoined(down[depth - j], f[j - 1])
    BY <1>1 DEF WayUp
  <1> QED BY <1>2, <1>3, <1>4


(* The tree gets smaller with every call, so there is a last one. *)
LEMMA MinDepth ==
  ASSUME NEW first, NEW own, MinReady(first, own), NEW n \in Nat,
         n = Tree(first.nodes, first.node).value.length,
         NEW f, MinDown(f, first, n)
  PROVE  \E i \in 0 .. n : AtMinimum(f[i]) /\ \A k \in 0 .. i - 1 : ~AtMinimum(f[k])
  <1> SUFFICES ASSUME \A i \in 0 .. n : AtMinimum(f[i]) => \E k \in 0 .. i - 1 : AtMinimum(f[k])
               PROVE  FALSE
    OBVIOUS
  <1> DEFINE TreeSize(c) == Tree(c.nodes, c.node).value.length
             S == {i \in Nat : i <= n => /\ \A k \in 0 .. i - 1 : ~AtMinimum(f[k])
                                         /\ \E more : MinReady(f[i], more)
                                         /\ TreeSize(f[i]) <= n - i /\ TreeSize(f[i]) \in Nat}
  <1>1. f[0] = first /\ \A i \in 1 .. n : f[i] = NextMinCall(f[i - 1])
    BY DEF MinDown
  <1> HIDE DEF TreeSize
  <1>2. 0 \in S
    <2>1. TreeSize(f[0]) = n
      BY <1>1 DEF TreeSize
    <2> QED BY <1>1, <2>1
  <1>3. ASSUME NEW i \in Nat, i \in S PROVE i + 1 \in S
    <2> SUFFICES ASSUME i + 1 <= n
                 PROVE  /\ \A k \in 0 .. i : ~AtMinimum(f[k])
                        /\ \E more : MinReady(f[i + 1], more)
                        /\ TreeSize(f[i + 1]) <= n - (i + 1) /\ TreeSize(f[i + 1]) \in Nat
      OBVIOUS
    <2>1. /\ \A k \in 0 .. i - 1 : ~AtMinimum(f[k])
          /\ TreeSize(f[i]) <= n - i /\ TreeSize(f[i]) \in Nat
      BY <1>3
    <2>2. PICK more : MinReady(f[i], more)
      BY <1>3
    <2>3. ~AtMinimum(f[i])
      <3>1. i \in 0 .. n
        OBVIOUS
      <3> QED BY <2>1, <3>1
    <2>4. f[i + 1] = NextMinCall(f[i])
      <3>1. i + 1 \in 1 .. n /\ i + 1 - 1 = i
        OBVIOUS
      <3> QED BY <1>1, <3>1
    <2>5. /\ MinReady(f[i + 1], Plus(more, f[i].owned.node))
          /\ TreeSize(f[i + 1]) < TreeSize(f[i]) /\ TreeSize(f[i + 1]) \in Nat
      BY <2>2, <2>3, <2>4, MinGoesOn DEF TreeSize
    <2>6. \A k \in 0 .. i : ~AtMinimum(f[k])
      BY <2>1, <2>3
    <2> QED BY <2>1, <2>5, <2>6
  <1>4. n \in S
    <2> HIDE DEF S
    <2> QED BY <1>2, <1>3, Induction
  <1>5. \A k \in 0 .. n - 1 : ~AtMinimum(f[k])
    BY <1>4
  <1>6. PICK more : MinReady(f[n], more)
    BY <1>4
  <1>7. TreeSize(f[n]) <= 0 /\ TreeSize(f[n]) \in Nat
    BY <1>4
  <1>8. ~AtMinimum(f[n])
    BY <1>5
  <1>9. TreeSize(NextMinCall(f[n])) < TreeSize(f[n]) /\ TreeSize(NextMinCall(f[n])) \in Nat
    BY <1>6, <1>8, MinGoesOn DEF TreeSize
  <1> QED BY <1>7, <1>9

(* What the calls give, from the last one to the first. *)
LEMMA MinBack ==
  ASSUME NEW down, NEW depth \in Nat, NEW last, NEW own, MinReady(down[0], own),
         \A i \in 1 .. depth : down[i] = NextMinCall(down[i - 1]),
         \A i \in 0 .. depth - 1 : ~AtMinimum(down[i]),
         \A more : MinReady(down[depth], more)
                      => Gives(down[depth].nodes, more, down[depth].node, 0, last)
  PROVE  Gives(down[0].nodes, own, down[0].node, 0, Returned(down, depth, last))
  <1>1. PICK f : /\ Returned(down, depth, last) = f[depth] /\ f[0] = last
                 /\ \A j \in 1 .. depth : f[j] = Rejoined(down[depth - j], f[j - 1])
    BY ReturnedIs
  <1> DEFINE Fine(c, o) == \A more : MinReady(c, more) => Gives(c.nodes, more, c.node, 0, o)
             S == {i \in Nat : i <= depth => Fine(down[depth - i], f[i])}
  <1>2. 0 \in S
    <2>1. Fine(down[depth], f[0])
      BY <1>1
    <2>2. depth - 0 = depth
      OBVIOUS
    <2> HIDE DEF Fine
    <2> QED BY <2>1, <2>2
  <1>3. ASSUME NEW i \in Nat, i \in S PROVE i + 1 \in S
    <2> SUFFICES ASSUME i + 1 <= depth PROVE Fine(down[depth - (i + 1)], f[i + 1])
      <3> HIDE DEF Fine
      <3> QED OBVIOUS
    <2> DEFINE k == depth - (i + 1)
               c == down[k]
               d == down[depth - i]
    <2>1. k \in 0 .. depth - 1 /\ k + 1 \in 1 .. depth /\ k + 1 - 1 = k /\ k + 1 = depth - i
          /\ i + 1 \in 1 .. depth /\ i + 1 - 1 = i /\ i <= depth
      OBVIOUS
    <2>2. d = NextMinCall(c) /\ ~AtMinimum(c)
      <3> HIDE DEF k
      <3> QED BY <2>1
    <2>3. f[i + 1] = Rejoined(c, f[i])
      <3> HIDE DEF k
      <3>1. f[i + 1] = Rejoined(down[depth - (i + 1)], f[i + 1 - 1])
        BY <1>1, <2>1
      <3> QED BY <3>1, <2>1 DEF k
    <2>4. Fine(d, f[i])
      <3> HIDE DEF Fine
      <3> QED BY <1>3, <2>1
    <2> HIDE DEF c, d, S
    <2>5. ASSUME NEW more, MinReady(c, more)
          PROVE  Gives(c.nodes, more, c.node, 0, f[i + 1])
      <3>1. MinReady(d, Plus(more, c.owned.node))
        BY <2>2, <2>5, MinGoesOn
      <3>2. Gives(d.nodes, Plus(more, c.owned.node), d.node, 0, f[i])
        BY <2>4, <3>1
      <3>3. Gives(c.nodes, more, c.node, 0, Rejoined(c, f[i]))
        BY <2>2, <2>5, <3>2, MinGoesOn
      <3> QED BY <2>3, <3>3
    <2> QED BY <2>5 DEF c, k
  <1>4. depth \in S
    <2> HIDE DEF S
    <2> QED BY <1>2, <1>3, Induction
  <1>5. Fine(down[0], f[depth])
    <2>1. depth - depth = 0
      OBVIOUS
    <2> HIDE DEF Fine
    <2> QED BY <1>4, <2>1
  <1> QED BY <1>1, <1>5

(* delete_min_node gives an owned node of the tree without its first piece. *)
LEMMA DeleteMinGives ==
  ASSUME NEW ns, NEW own, Heap(ns, own), NEW n, IsRootOf(ns, n, Tree(ns, n)),
         RedRoot(Tree(ns, n)) \/ RedOnLeft(Tree(ns, n))
  PROVE  Gives(ns, own, n, 0, delete_min_node(ns, n))
  <1> DEFINE first == MinCall(ns, n)
             enough == node_length(ns, n)
             down == CHOOSE f : MinDown(f, first, enough)
             Ends(i) == AtMinimum(down[i]) /\ \A k \in 0 .. i - 1 : ~AtMinimum(down[k])
             depth == CHOOSE i \in 0 .. enough : Ends(i)
             last == [nodes |-> down[depth].nodes, node |-> NULL]
  <1>1. WellMade(ns) /\ InUse(ns, n)
    BY HeapIs DEF IsRootOf, InUse
  <1>2. enough = Tree(ns, n).value.length /\ enough \in Nat
    <2>1. Good(Tree(ns, n)) /\ enough = Tree(ns, n).value.length
      BY <1>1, TreesAreGood
    <2>2. GoodValue(Tree(ns, n).value)
      BY <2>1, GoodIs
    <2> QED BY <2>1, <2>2 DEF GoodValue
  <1>3. first.nodes = ns /\ first.node = n
    BY MinCallIs
  <1>4. MinReady(first, own)
    <2>1. first = MinCall(first.nodes, first.node)
      BY <1>3
    <2> HIDE DEF first
    <2> QED BY <1>3, <2>1 DEF MinReady
  <1>5. MinDown(down, first, enough)
    BY <1>2, MinDownExists
  <1>6. delete_min_node(ns, n) = Returned(down, depth, last)
    BY Zenon DEF delete_min_node, MinDown
  <1> HIDE DEF first, enough, down
  <1>7. depth \in 0 .. enough /\ Ends(depth)
    <2>1. \E i \in 0 .. enough : Ends(i)
      BY <1>2, <1>3, <1>4, <1>5, MinDepth
    <2> HIDE DEF Ends
    <2> QED BY <2>1
  <1> HIDE DEF depth
  <1>8. /\ down[0] = first /\ depth \in Nat
        /\ \A i \in 1 .. depth : down[i] = NextMinCall(down[i - 1])
    BY <1>2, <1>5, <1>7 DEF MinDown
  <1>9. \A more : MinReady(down[depth], more)
                    => Gives(down[depth].nodes, more, down[depth].node, 0, last)
    BY <1>7, AtMinimumGives
  <1>10. \A i \in 0 .. depth - 1 : ~AtMinimum(down[i])
    BY <1>7
  <1> HIDE DEF last
  <1>11. Gives(down[0].nodes, own, down[0].node, 0, Returned(down, depth, last))
    BY <1>4, <1>8, <1>9, <1>10, MinBack
  <1> QED BY <1>3, <1>6, <1>8, <1>11

-----------------------------------------------------------------------------
(* Removal at an offset *)

(* A call of delete_node on a tree that has a piece at the offset, and can  *)
(* spare a node where it is.                                              *)
DeleteReady(c, own) ==
    LET t == Tree(c.nodes, c.node)
    IN  /\ c = Call(c.nodes, c.node, c.offset)
        /\ Heap(c.nodes, own)
        /\ IsRootOf(c.nodes, c.node, t)
        /\ c.offset \in DOMAIN t.value.pieces
        /\ \/ RedRoot(t) \/ RedOnLeft(t) \/ AllBlack(t)
           \/ RedOnRight(t) /\ c.offset >= t.left.value.length

LEMMA CallIs ==
  ASSUME NEW ns, NEW n, NEW offset
  PROVE  LET c == Call(ns, n, offset)
         IN  c.nodes = ns /\ c.node = n /\ c.offset = offset
  BY DEF Call

LEMMA CallLeft ==
  ASSUME NEW ns, NEW n, NEW offset, offset < node_length(ns, ns[n].left)
  PROVE  LET c == Call(ns, n, offset)
         IN  /\ c.owned = MoveRedLeftIf(Copy(ns, n))
             /\ NextCall(c) = Call(c.owned.nodes, c.owned.nodes[c.owned.node].left, offset)
             /\ ~AtPiece(c)
  BY DEF Call, NextCall, AtPiece, Node

LEMMA RejoinedLeft ==
  ASSUME NEW ns, NEW n, NEW offset, offset < node_length(ns, ns[n].left), NEW o
  PROVE  LET c == Call(ns, n, offset) IN Rejoined(c, o) = RebuiltLeft(c.owned.node, o, TRUE)
  BY DEF Call, Rejoined

LEMMA CallRight ==
  ASSUME NEW ns, NEW n, NEW offset, ~(offset < node_length(ns, ns[n].left))
  PROVE  LET c  == Call(ns, n, offset)
             hs == c.owned.nodes
             a  == c.owned.node
         IN  /\ c.owned = PreparedRight(LeanRight(Copy(ns, n)), offset)
             /\ NextCall(c) = Call(hs, hs[a].right,
                                   offset - node_length(hs, hs[a].left) - hs[a].piece.length)
             /\ AtPiece(c) <=> offset = node_length(hs, hs[a].left)
  BY DEF Call, NextCall, AtPiece, Here, Node

LEMMA RejoinedRight ==
  ASSUME NEW ns, NEW n, NEW offset, ~(offset < node_length(ns, ns[n].left)), NEW o
  PROVE  LET c == Call(ns, n, offset) IN Rejoined(c, o) = RebuiltRight(c.owned.node, o, TRUE)
  BY DEF Call, Rejoined

(* The part of a value in which a piece starts. *)
LEMMA StartsIn ==
  ASSUME NEW l, GoodValue(l), NEW p \in Pieces, NEW r, GoodValue(r), NEW v,
         v = JoinedValue(l, p, r), NEW at \in DOMAIN v.pieces
  PROVE  /\ at \in Nat /\ l.length \in Nat /\ p.length \in Nat /\ p.length > 0
         /\ at < l.length => at \in DOMAIN l.pieces
         /\ at > l.length => at - l.length - p.length \in DOMAIN r.pieces
  <1>1. IsJoined(v, l, p, r) /\ GoodValue(v)
    BY JoinedIs
  <1>2. at \in Nat /\ l.length \in Nat /\ p.length \in Nat /\ p.length > 0
    BY <1>1, PieceIs DEF GoodValue
  <1>3. DOMAIN r.pieces \subseteq Nat
    BY DEF GoodValue
  <1>4. \/ at \in DOMAIN l.pieces
        \/ at = l.length
        \/ \E t \in DOMAIN r.pieces : at = l.length + p.length + t
    BY <1>1 DEF IsJoined
  <1>5. CASE at \in DOMAIN l.pieces
    <2>1. at < l.length
      BY <1>5, StartsBefore
    <2> QED BY <1>2, <1>5, <2>1
  <1>6. CASE at = l.length
    BY <1>2, <1>6
  <1>7. ASSUME NEW t \in DOMAIN r.pieces, at = l.length + p.length + t
        PROVE  ~(at < l.length) /\ at - l.length - p.length \in DOMAIN r.pieces
    <2>1. at - l.length - p.length = t /\ ~(at < l.length)
      BY <1>2, <1>3, <1>7
    <2> QED BY <2>1
  <1> QED BY <1>2, <1>4, <1>5, <1>6, <1>7

(* A call and the node it is on. *)
CallAt(c, own, ns, n, t, at) ==
    /\ ns = c.nodes /\ n = c.node /\ at = c.offset /\ t = Tree(ns, n)
    /\ c = Call(ns, n, at)
    /\ Heap(ns, own) /\ WellMade(ns) /\ ns \in Store /\ own \in Owned
    /\ IsRootOf(ns, n, t) /\ Good(t) /\ t.kind = "node"
    /\ at \in DOMAIN t.value.pieces /\ at \in Nat
    /\ node_length(ns, ns[n].left) = t.left.value.length /\ t.left.value.length \in Nat
    /\ \/ RedRoot(t) \/ RedOnLeft(t) \/ AllBlack(t)
       \/ RedOnRight(t) /\ at >= t.left.value.length

LEMMA DeleteReadyIs ==
  ASSUME NEW c, NEW own, DeleteReady(c, own)
  PROVE  CallAt(c, own, c.nodes, c.node, Tree(c.nodes, c.node), c.offset)
  <1> DEFINE ns == c.nodes
             n == c.node
             t == Tree(ns, n)
             at == c.offset
  <1>1. /\ Heap(ns, own) /\ IsRootOf(ns, n, t) /\ at \in DOMAIN t.value.pieces
        /\ \/ RedRoot(t) \/ RedOnLeft(t) \/ AllBlack(t)
           \/ RedOnRight(t) /\ at >= t.left.value.length
    BY DEF DeleteReady
  <1>2. c = Call(ns, n, at)
    BY DEF DeleteReady
  <1>3. WellMade(ns) /\ ns \in Store /\ own \in Owned
    BY <1>1, HeapIs
  <1>4. InUse(ns, n) /\ t.kind = "node" /\ InUse(ns, ns[n].left) /\ Tree(ns, ns[n].left) = t.left
    BY <1>1 DEF IsRootOf, InUse
  <1>5. Good(t)
    BY <1>3, <1>4, TreesAreGood
  <1>6. node_length(ns, ns[n].left) = t.left.value.length
    BY <1>3, <1>4, TreesAreGood
  <1>7. GoodValue(t.value) /\ GoodValue(t.left.value)
    BY <1>4, <1>5, GoodNode
  <1>8. at \in Nat /\ t.left.value.length \in Nat
    BY <1>1, <1>7 DEF GoodValue
  <1> QED BY <1>1, <1>2, <1>3, <1>4, <1>5, <1>6, <1>8, Zenon DEF CallAt


(* The call goes on with its left child. *)
LEMMA DeleteGoesLeft ==
  ASSUME NEW c, NEW own, NEW ns, NEW n, NEW t, NEW at, CallAt(c, own, ns, n, t, at),
         at < t.left.value.length,
         NEW d, d = NextCall(c), NEW more, more = Plus(own, c.owned.node)
  PROVE  /\ ~AtPiece(c)
         /\ DeleteReady(d, more)
         /\ Tree(d.nodes, d.node).value.length < t.value.length
         /\ Tree(d.nodes, d.node).value.length \in Nat
         /\ \A o : Gives(d.nodes, more, d.node, d.offset, o) => Gives(ns, own, n, at, Rejoined(c, o))
  <1> DEFINE s == MoveL(t)
             owned == c.owned
             hs == owned.nodes
             a == owned.node
             child == hs[a].left
  <1>1. Heap(ns, own) /\ own \in Owned /\ t = Tree(ns, n) /\ Good(t) /\ t.kind = "node"
        /\ IsRootOf(ns, n, t) /\ WellMade(ns) /\ at \in Nat /\ at \in DOMAIN t.value.pieces
    BY DEF CallAt
  <1>2. RedRoot(t) \/ RedOnLeft(t) \/ AllBlack(t)
    BY DEF CallAt
  <1>3. at < node_length(ns, ns[n].left) /\ c = Call(ns, n, at)
    BY DEF CallAt
  <1>4. t.left.kind = "node"
    <2>1. t.left # Leaf
      BY <1>1, LeafIs, NothingIsGood
    <2>2. Good(t.left)
      BY <1>1, GoodNode
    <2> QED BY <2>1, <2>2, GoodIs
  <1>5. (Two(t.left) => t.right.kind = "node") /\ LeftReady(t, s)
    BY <1>1, <1>2, <1>4, GoingLeft
  <1>6. owned = MoveRedLeftIf(Copy(ns, n)) /\ d = Call(hs, child, at) /\ ~AtPiece(c)
    BY <1>3, CallLeft
  <1>7. Yields(ns, own, owned, s) /\ s.kind = "node"
    <2>1. Yields(ns, own, Copy(ns, n), t)
      BY <1>1, CopyYields
    <2> HIDE DEF s, owned
    <2>2. Yields(ns, own, MoveRedLeftIf(Copy(ns, n)), MoveL(t)) /\ MoveL(t).kind = "node"
      BY <2>1, <1>1, <1>5, MoveLYields
    <2> QED BY <2>2, <1>6 DEF s
  <1> HIDE DEF s
  <1>8. Holds(ns, own, owned, s, hs, a, Plus(own, a))
    BY <1>1, <1>7, YieldsHolds, Zenon
  <1>9. Heap(hs, Plus(own, a)) /\ IsRootOf(hs, a, s) /\ WellMade(hs)
    BY <1>8 DEF Holds
  <1>10. InUse(hs, child) /\ Tree(hs, child) = s.left
    BY <1>9 DEF IsRootOf
  <1>11. Good(s) /\ s.value = t.value /\ (RedRoot(s.left) \/ RedOnLeft(s.left))
         /\ t.left.value.length <= s.left.value.length
    BY <1>5 DEF LeftReady, Sound
  <1>12. /\ s.value.length = s.left.value.length + s.piece.length + s.right.value.length
         /\ GoodValue(s.left.value) /\ GoodValue(s.right.value) /\ s.piece \in Pieces
         /\ s.value = JoinedValue(s.left.value, s.piece, s.right.value)
    BY <1>7, <1>11, GoodNode
  <1>13. d.nodes = hs /\ d.node = child /\ d.offset = at
    <2> HIDE DEF hs, child
    <2> QED BY <1>6, CallIs
  <1>14. s.left.kind = "node"
    BY <1>11 DEF RedRoot, RedOnLeft
  <1>15. IsRootOf(hs, child, s.left)
    BY <1>9, <1>10, <1>14, RootIs
  <1>16. s.left.value.length < t.value.length /\ s.left.value.length \in Nat
    <2>1. s.piece.length \in Nat /\ s.piece.length > 0 /\ s.left.value.length \in Nat
          /\ s.right.value.length \in Nat
      BY <1>12, PieceIs DEF GoodValue
    <2> QED BY <2>1, <1>11, <1>12
  <1>17. more = Plus(own, a) /\ hs = owned.nodes /\ a = owned.node /\ child = hs[a].left
    OBVIOUS
  <1>18. at \in DOMAIN s.left.value.pieces
    <2>1. t.left.value.length \in Nat
      BY DEF CallAt
    <2>2. at < s.left.value.length
      BY <2>1, <1>1, <1>11, <1>16
    <2> QED BY <2>2, <1>1, <1>11, <1>12, StartsIn
  <1>19. \A o : Rejoined(c, o) = RebuiltLeft(a, o, TRUE)
    BY <1>3, RejoinedLeft
  <1> HIDE DEF owned, hs, a, child
  <1>20. DeleteReady(d, more)
    BY <1>6, <1>9, <1>10, <1>11, <1>13, <1>15, <1>17, <1>18 DEF DeleteReady
  <1>21. ASSUME NEW o, Gives(d.nodes, more, d.node, d.offset, o)
         PROVE  Gives(ns, own, n, at, Rejoined(c, o))
    <2>1. Gives(hs, Plus(own, a), child, at, o)
      BY <1>13, <1>17, <1>21
    <2>2. Gives(ns, own, n, at, RebuiltLeft(a, o, TRUE))
      BY <2>1, <1>1, <1>5, <1>7, <1>17, <1>18, GivesLeft
    <2> QED BY <2>2, <1>19
  <1> QED BY <1>6, <1>10, <1>13, <1>16, <1>20, <1>21

(* What the call owns if its piece is not on the left. *)
RightCall(c, own, t, at, s) ==
    /\ ~(at < t.left.value.length)
    /\ Yields(c.nodes, own, c.owned, s) /\ s.kind = "node"
    /\ RightReady(t, s) /\ Good(s) /\ s.value = t.value
    /\ Heap(c.owned.nodes, Plus(own, c.owned.node)) /\ WellMade(c.owned.nodes)
    /\ IsRootOf(c.owned.nodes, c.owned.node, s)
    /\ Same(c.nodes, c.owned.nodes) /\ c.owned.node \in Nat
    /\ node_length(c.owned.nodes, c.owned.nodes[c.owned.node].left) = s.left.value.length
    /\ AtPiece(c) <=> at = s.left.value.length
    /\ s.left.value.length \in Nat /\ s.left.value.length <= at

LEMMA RightCallIs ==
  ASSUME NEW c, NEW own, NEW ns, NEW n, NEW t, NEW at, CallAt(c, own, ns, n, t, at),
         ~(at < t.left.value.length)
  PROVE  RightCall(c, own, t, at, MoveR(Lean(t)))
  <1> DEFINE s == MoveR(Lean(t))
             owned == c.owned
             hs == owned.nodes
             a == owned.node
  <1>1. Heap(ns, own) /\ own \in Owned /\ t = Tree(ns, n) /\ Good(t) /\ t.kind = "node"
        /\ IsRootOf(ns, n, t) /\ WellMade(ns) /\ at \in Nat /\ at \in DOMAIN t.value.pieces
        /\ ns = c.nodes
    BY DEF CallAt
  <1>2. RedRoot(t) \/ RedOnLeft(t) \/ RedOnRight(t) \/ AllBlack(t)
    BY DEF CallAt
  <1>3. ~(at < node_length(ns, ns[n].left)) /\ c = Call(ns, n, at)
    BY DEF CallAt
  <1>4. RightReady(t, s) /\ (Two(Lean(t).right) => Lean(t).left.kind = "node")
    BY <1>1, <1>2, GoingRight
  <1>5. /\ owned = PreparedRight(LeanRight(Copy(ns, n)), at)
        /\ AtPiece(c) <=> at = node_length(hs, hs[a].left)
    BY <1>3, CallRight
  <1>6. Yields(ns, own, owned, s) /\ s.kind = "node"
    <2>1. Yields(ns, own, Copy(ns, n), t)
      BY <1>1, CopyYields
    <2>2. Yields(ns, own, LeanRight(Copy(ns, n)), Lean(t)) /\ Lean(t).kind = "node"
      BY <2>1, <1>1, LeanYields
    <2> HIDE DEF s, owned
    <2>3. Yields(ns, own, PreparedRight(LeanRight(Copy(ns, n)), at), MoveR(Lean(t)))
          /\ MoveR(Lean(t)).kind = "node"
      BY <2>2, <1>1, <1>4, MoveRYields
    <2> QED BY <2>3, <1>5 DEF s
  <1> HIDE DEF s
  <1>7. Holds(ns, own, owned, s, hs, a, Plus(own, a))
    BY <1>1, <1>6, YieldsHolds, Zenon
  <1>8. Heap(hs, Plus(own, a)) /\ IsRootOf(hs, a, s) /\ WellMade(hs) /\ Same(ns, hs) /\ a \in Nat
    BY <1>7 DEF Holds
  <1>9. Good(s) /\ s.value = t.value /\ s.left.value.length <= t.left.value.length
    BY <1>4 DEF RightReady, Sound
  <1>10. node_length(hs, hs[a].left) = s.left.value.length
    <2>1. InUse(hs, hs[a].left) /\ Tree(hs, hs[a].left) = s.left
      BY <1>8 DEF IsRootOf
    <2> QED BY <2>1, <1>8, TreesAreGood
  <1>11. s.left.value.length \in Nat /\ s.left.value.length <= at
    <2>1. GoodValue(s.left.value)
      BY <1>6, <1>9, GoodNode
    <2>2. s.left.value.length \in Nat /\ t.left.value.length \in Nat
      BY <2>1 DEF GoodValue, CallAt
    <2> QED BY <2>2, <1>1, <1>9
  <1>12. RightCall(c, own, t, at, s)
    BY <1>1, <1>4, <1>5, <1>6, <1>8, <1>9, <1>10, <1>11, Zenon DEF RightCall
  <1> QED BY <1>12 DEF s

(* The call goes on with its right child. *)
LEMMA DeleteGoesRight ==
  ASSUME NEW c, NEW own, NEW ns, NEW n, NEW t, NEW at, CallAt(c, own, ns, n, t, at),
         ~(at < t.left.value.length), ~AtPiece(c),
         NEW d, d = NextCall(c), NEW more, more = Plus(own, c.owned.node)
  PROVE  /\ DeleteReady(d, more)
         /\ Tree(d.nodes, d.node).value.length < t.value.length
         /\ Tree(d.nodes, d.node).value.length \in Nat
         /\ \A o : Gives(d.nodes, more, d.node, d.offset, o) => Gives(ns, own, n, at, Rejoined(c, o))
  <1> DEFINE s == MoveR(Lean(t))
             owned == c.owned
             hs == owned.nodes
             a == owned.node
             child == hs[a].right
             b == at - s.left.value.length - s.piece.length
  <1>1. Heap(ns, own) /\ own \in Owned /\ t = Tree(ns, n) /\ Good(t) /\ t.kind = "node"
        /\ IsRootOf(ns, n, t) /\ WellMade(ns) /\ at \in Nat /\ at \in DOMAIN t.value.pieces
        /\ ns = c.nodes
    BY DEF CallAt
  <1>2. ~(at < node_length(ns, ns[n].left)) /\ c = Call(ns, n, at)
    BY DEF CallAt
  <1>3. RightCall(c, own, t, at, s)
    BY RightCallIs
  <1> HIDE DEF s
  <1>4. /\ Yields(ns, own, owned, s) /\ s.kind = "node" /\ RightReady(t, s) /\ Good(s)
        /\ s.value = t.value /\ Heap(hs, Plus(own, a)) /\ WellMade(hs) /\ IsRootOf(hs, a, s)
        /\ node_length(hs, hs[a].left) = s.left.value.length
        /\ at # s.left.value.length /\ s.left.value.length \in Nat /\ s.left.value.length <= at
    BY <1>1, <1>3 DEF RightCall
  <1>5. hs[a].piece = s.piece /\ InUse(hs, child) /\ Tree(hs, child) = s.right
    BY <1>4 DEF IsRootOf
  <1>6. d = Call(hs, child, b)
    <2>1. d = Call(hs, hs[a].right, at - node_length(hs, hs[a].left) - hs[a].piece.length)
      BY <1>2, CallRight
    <2> HIDE DEF hs, a
    <2> QED BY <2>1, <1>4, <1>5
  <1>7. /\ s.value.length = s.left.value.length + s.piece.length + s.right.value.length
        /\ GoodValue(s.left.value) /\ GoodValue(s.right.value) /\ s.piece \in Pieces
        /\ s.value = JoinedValue(s.left.value, s.piece, s.right.value) /\ Good(s.right)
    BY <1>4, GoodNode
  <1>8. b \in DOMAIN s.right.value.pieces
    <2>1. at > s.left.value.length
      BY <1>1, <1>4
    <2>2. at \in DOMAIN s.value.pieces
      BY <1>1, <1>4
    <2> QED BY <2>1, <2>2, <1>7, StartsIn
  <1>9. s.right.kind = "node"
    <2>1. s.right # Leaf
      BY <1>8, LeafIs, NothingIsGood
    <2> QED BY <2>1, <1>7, GoodIs
  <1>10. d.nodes = hs /\ d.node = child /\ d.offset = b
    <2> HIDE DEF hs, child, b
    <2> QED BY <1>6, CallIs
  <1>11. IsRootOf(hs, child, s.right)
    BY <1>4, <1>5, <1>9, RootIs
  <1>12. /\ s.piece.length \in Nat /\ s.piece.length > 0 /\ s.left.value.length \in Nat
         /\ s.right.value.length \in Nat /\ b \in Nat
    BY <1>7, <1>8, PieceIs DEF GoodValue
  <1>13. s.right.value.length < t.value.length
    <2> HIDE DEF b
    <2> QED BY <1>4, <1>7, <1>12
  <1>14. \/ RedRoot(s.right) \/ RedOnLeft(s.right)
         \/ RedOnRight(s.right) /\ b >= s.right.left.value.length
    <2>1. \/ RedRoot(s.right) \/ RedOnLeft(s.right)
          \/ /\ RedOnRight(s.right)
             /\ t.left.value.length = s.left.value.length + s.piece.length + s.right.left.value.length
      BY <1>4, <1>9 DEF RightReady
    <2>2. s.right.left.value.length \in Nat
      <3>1. GoodValue(s.right.left.value)
        BY <1>7, <1>9, GoodNode
      <3> QED BY <3>1 DEF GoodValue
    <2>3. t.left.value.length = s.left.value.length + s.piece.length + s.right.left.value.length
            => b >= s.right.left.value.length
      BY <2>2, <1>1, <1>12
    <2> HIDE DEF b
    <2> QED BY <2>1, <2>3
  <1>15. more = Plus(own, a) /\ hs = owned.nodes /\ a = owned.node /\ child = hs[a].right
    OBVIOUS
  <1>16. \A o : Rejoined(c, o) = RebuiltRight(a, o, TRUE)
    BY <1>2, RejoinedRight
  <1>17. s.left.value.length + s.piece.length + b = at
    BY <1>1, <1>12
  <1> HIDE DEF owned, hs, a, child, b
  <1>18. DeleteReady(d, more)
    BY <1>4, <1>5, <1>6, <1>8, <1>10, <1>11, <1>14, <1>15 DEF DeleteReady
  <1>19. ASSUME NEW o, Gives(d.nodes, more, d.node, d.offset, o)
         PROVE  Gives(ns, own, n, at, Rejoined(c, o))
    <2>1. Gives(hs, Plus(own, a), child, b, o)
      BY <1>10, <1>15, <1>19
    <2>2. Gives(ns, own, n, s.left.value.length + s.piece.length + b, RebuiltRight(a, o, TRUE))
      BY <2>1, <1>1, <1>4, <1>8, <1>9, <1>15, GivesRight
    <2> QED BY <2>2, <1>16, <1>17
  <1> QED BY <1>5, <1>10, <1>12, <1>13, <1>18, <1>19


LEMMA DeleteGoesOn ==
  ASSUME NEW c, NEW own, DeleteReady(c, own), ~AtPiece(c),
         NEW d, d = NextCall(c), NEW more, more = Plus(own, c.owned.node)
  PROVE  /\ DeleteReady(d, more)
         /\ Tree(d.nodes, d.node).value.length < Tree(c.nodes, c.node).value.length
         /\ Tree(d.nodes, d.node).value.length \in Nat
         /\ \A o : Gives(d.nodes, more, d.node, d.offset, o)
                    => Gives(c.nodes, own, c.node, c.offset, Rejoined(c, o))
  <1>1. CallAt(c, own, c.nodes, c.node, Tree(c.nodes, c.node), c.offset)
    BY DeleteReadyIs
  <1>2. CASE c.offset < Tree(c.nodes, c.node).left.value.length
    BY <1>1, <1>2, DeleteGoesLeft
  <1>3. CASE ~(c.offset < Tree(c.nodes, c.node).left.value.length)
    BY <1>1, <1>3, DeleteGoesRight
  <1> QED BY <1>2, <1>3

(* The last piece of a tree is taken out: nothing was on its left. *)
LEMMA TakenOutLast ==
  ASSUME NEW c, NEW own, NEW ns, NEW n, NEW t, NEW at, CallAt(c, own, ns, n, t, at),
         NEW s, RightCall(c, own, t, at, s), at = s.left.value.length, s.right.kind = "leaf"
  PROVE  Gives(ns, own, n, at, TakenOut(c.owned))
  <1> DEFINE owned == c.owned
             hs == owned.nodes
             a == owned.node
             o == [nodes |-> dec_node_ref(hs, a), node |-> NULL]
  <1>1. Heap(ns, own) /\ own \in Owned /\ t = Tree(ns, n) /\ ns = c.nodes /\ ns \in Store
    BY DEF CallAt
  <1>2. /\ RightReady(t, s) /\ Good(s) /\ s.kind = "node" /\ s.value = t.value
        /\ Heap(hs, Plus(own, a)) /\ WellMade(hs) /\ IsRootOf(hs, a, s) /\ Same(ns, hs) /\ a \in Nat
    BY <1>1 DEF RightCall
  <1>3. /\ s.piece \in Pieces /\ Good(s.right)
        /\ s.value = JoinedValue(s.left.value, s.piece, s.right.value)
    BY <1>2, GoodNode
  <1>4. s.right = Leaf /\ s.left = Leaf /\ Shrunk(t, Leaf)
    BY <1>2, <1>3, GoodIs DEF RightReady
  <1>5. at = 0
    BY <1>4, LeafIs, NothingIsGood
  <1>6. Leaf.value = Values!RemovePiece(t.value, at)
    BY <1>2, <1>3, <1>4, <1>5, LeafIs, RemoveNothing
  <1>7. TakenOut(owned) = o
    <2>1. hs[a].right = NULL
      BY <1>2, <1>4, ChildrenAre, LeafIs
    <2> QED BY <2>1 DEF TakenOut, Node
  <1>8. Heap(dec_node_ref(hs, a), own) /\ Same(hs, dec_node_ref(hs, a))
    <2> HIDE DEF hs, a
    <2> QED BY <1>1, <1>2, DropRef
  <1>9. Yields(ns, own, o, Leaf)
    <2> DEFINE after == dec_node_ref(hs, a)
    <2>1. o.nodes = after /\ o.node = NULL /\ o = [nodes |-> o.nodes, node |-> o.node]
      OBVIOUS
    <2>2. WellMade(after) /\ after \in Store /\ hs \in Store
      BY <1>2, <1>8, HeapIs
    <2> HIDE DEF o, after
    <2>3. Heap(after, Plus(own, NULL)) /\ Tree(after, NULL) = Leaf /\ NULL \in Nat
      BY <1>1, <1>8, <2>2, NullOwned, TreeAt DEF after, NULL
    <2>4. Same(ns, after)
      BY <1>1, <1>2, <1>8, <2>2, SameIsTransitive DEF after
    <2> QED BY <1>1, <2>1, <2>3, <2>4 DEF Yields
  <1> HIDE DEF o
  <1> QED BY <1>1, <1>4, <1>6, <1>7, <1>9, LeafIsGood DEF Gives

(* A piece is taken out, and its successor takes its place. *)
LEMMA TakenOutBefore ==
  ASSUME NEW c, NEW own, NEW ns, NEW n, NEW t, NEW at, CallAt(c, own, ns, n, t, at),
         NEW s, RightCall(c, own, t, at, s), at = s.left.value.length, s.right.kind = "node"
  PROVE  Gives(ns, own, n, at, TakenOut(c.owned))
  <1> DEFINE owned == c.owned
             hs == owned.nodes
             a == owned.node
             right == hs[a].right
             least == minimum_node(hs, right)
             rest == delete_min_node(hs, right)
             q == s.right.value.pieces[0]
  <1>1. /\ Heap(ns, own) /\ own \in Owned /\ t = Tree(ns, n) /\ ns = c.nodes /\ ns \in Store
        /\ at \in Nat
    BY DEF CallAt
  <1>2. /\ RightReady(t, s) /\ Good(s) /\ s.kind = "node" /\ s.value = t.value
        /\ Heap(hs, Plus(own, a)) /\ WellMade(hs) /\ IsRootOf(hs, a, s) /\ Same(ns, hs) /\ a \in Nat
        /\ ~(at < t.left.value.length) /\ s.left.value.length \in Nat
    BY <1>1 DEF RightCall
  <1>3. /\ s.color \in Colors /\ s.piece \in Pieces /\ Good(s.left) /\ Good(s.right)
        /\ s.value = JoinedValue(s.left.value, s.piece, s.right.value)
    BY <1>2, GoodNode
  <1>4. InUse(hs, right) /\ Tree(hs, right) = s.right /\ right # NULL
    <2>1. InUse(hs, right) /\ Tree(hs, right) = s.right
      BY <1>2 DEF IsRootOf
    <2>2. s.right # Leaf
      BY LeafIs
    <2> HIDE DEF hs, a, right
    <2> QED BY <1>2, <2>1, <2>2, TreeAt
  <1>5. IsRootOf(hs, right, s.right) /\ right \in Live(hs)
    BY <1>2, <1>4, RootIs DEF InUse
  <1>6. RedRoot(s.right) \/ RedOnLeft(s.right)
    <2>1. ASSUME RedOnRight(s.right),
                 t.left.value.length = s.left.value.length + s.piece.length + s.right.left.value.length
          PROVE  FALSE
      <3>1. GoodValue(s.right.left.value)
        BY <1>3, GoodNode
      <3>2. s.right.left.value.length \in Nat /\ s.piece.length \in Nat /\ s.piece.length > 0
        BY <1>3, <3>1, PieceIs DEF GoodValue
      <3> QED BY <1>2, <2>1, <3>2
    <2> QED BY <1>2, <2>1 DEF RightReady
  <1>7. least \in Live(hs) /\ 0 \in DOMAIN s.right.value.pieces /\ hs[least].piece = q
    BY <1>2, <1>4, <1>5, MinimumIs
  <1>8. Gives(hs, Plus(own, a), right, 0, rest)
    BY <1>2, <1>4, <1>5, <1>6, DeleteMinGives
  <1>9. PICK u : /\ Yields(hs, Plus(own, a), rest, u) /\ Good(u) /\ Shrunk(s.right, u)
                 /\ u.value = Values!RemovePiece(s.right.value, 0)
    BY <1>4, <1>8 DEF Gives
  <1>10. TakenOut(owned) = fix_up_owned(Drop(Drop(
            make_node(rest.nodes, rest.nodes[a].color, rest.nodes[a].left,
                      rest.nodes[least].piece, rest.node), rest.node), a))
    BY <1>4, Zenon DEF TakenOut, Succeeded, Node
  <1> HIDE DEF rest, least
  <1>11. rest.nodes[least].piece = q
    <2>1. InUse(hs, least) /\ least # NULL
      <3>1. hs \in Store
        BY <1>2, HeapIs
      <3> QED BY <1>7, <3>1, LiveIs DEF InUse, NULL
    <2>2. Keeps(hs, rest.nodes, least)
      BY <1>2, <1>9, <2>1, YieldsKeeps
    <2> QED BY <1>7, <2>1, <2>2 DEF Keeps, Kept
  <1>12. IsRootOf(rest.nodes, a, s)
    <2>1. InUse(hs, a)
      BY <1>2 DEF IsRootOf, InUse
    <2> HIDE DEF hs, a
    <2> QED BY <1>2, <1>9, <2>1, RootKept
  <1>13. /\ rest.nodes[a].color = s.color
         /\ InUse(rest.nodes, rest.nodes[a].left) /\ Tree(rest.nodes, rest.nodes[a].left) = s.left
    BY <1>12 DEF IsRootOf
  <1>14. Plus(own, a) \in Owned
    BY <1>2, HeapIs
  <1>15. InUse(rest.nodes, rest.node) /\ Tree(rest.nodes, rest.node) = u
    <2> HIDE DEF hs, a
    <2> QED BY <1>9, <1>14, YieldsIs
  <1>16. q \in Pieces
    <2>1. GoodValue(s.right.value)
      BY <1>3, GoodIs
    <2> QED BY <1>7, <2>1 DEF GoodValue
  <1> HIDE DEF hs, a, q, right
  <1> DEFINE x == Mk(s.color, s.left, q, u)
             made == Drop(Drop(make_node(rest.nodes, s.color, rest.nodes[a].left, q, rest.node),
                               rest.node), a)
  <1>17. Yields(ns, own, made, x)
    BY <1>1, <1>2, <1>3, <1>9, <1>13, <1>15, <1>16, ReplaceYields
  <1>18. Yields(ns, own, fix_up_owned(made), FixUp(x))
    <2>1. x.kind = "node"
      BY MkKind
    <2> HIDE DEF x, made
    <2> QED BY <1>1, <1>17, <2>1, FixUpYields
  <1>19. TakenOut(owned) = fix_up_owned(made)
    BY <1>10, <1>11, <1>13
  <1>20. Shrunk(t, FixUp(x))
    BY <1>2, <1>9, <1>16 DEF RightReady
  <1>21. Good(FixUp(x)) /\ FixUp(x).value = Values!RemovePiece(t.value, at)
    <2>1. Good(x) /\ x.kind = "node"
      BY <1>3, <1>9, <1>16, MkIsGood, MkKind
    <2>2. x.value = JoinedValue(s.left.value, q, u.value)
      BY MkIs
    <2> HIDE DEF x
    <2>3. Good(FixUp(x)) /\ FixUp(x).value = x.value
      BY <2>1, FixUpIsSound DEF Sound
    <2>4. GoodValue(u.value) /\ GoodValue(s.left.value) /\ GoodValue(s.right.value)
      BY <1>3, <1>9, GoodIs
    <2>5. JoinedValue(s.left.value, s.right.value.pieces[0], u.value)
            = Values!RemovePiece(JoinedValue(s.left.value, s.piece, s.right.value), s.left.value.length)
      BY <2>4, <1>3, <1>7, <1>9, RemoveHere
    <2> QED BY <2>2, <2>3, <2>5, <1>2, <1>3 DEF q
  <1> HIDE DEF made, x
  <1> QED BY <1>1, <1>18, <1>19, <1>20, <1>21 DEF Gives

(* What is left at the piece. *)
LEMMA AtPieceGives ==
  ASSUME NEW c, NEW own, DeleteReady(c, own), AtPiece(c)
  PROVE  Gives(c.nodes, own, c.node, c.offset, TakenOut(c.owned))
  <1> DEFINE t == Tree(c.nodes, c.node)
             at == c.offset
             s == MoveR(Lean(t))
  <1>1. CallAt(c, own, c.nodes, c.node, t, at)
    BY DeleteReadyIs
  <1>2. ~(at < t.left.value.length)
    BY <1>1, DeleteGoesLeft
  <1>3. RightCall(c, own, t, at, s)
    BY <1>1, <1>2, RightCallIs
  <1>4. at = s.left.value.length /\ Good(s) /\ s.kind = "node"
    BY <1>3 DEF RightCall
  <1>5. s.right.kind \in {"leaf", "node"}
    BY <1>4, GoodNode, GoodIs
  <1> HIDE DEF t, at, s
  <1>6. Gives(c.nodes, own, c.node, at, TakenOut(c.owned))
    BY <1>1, <1>3, <1>4, <1>5, TakenOutLast, TakenOutBefore
  <1> QED BY <1>6 DEF at

DeleteDown(f, first, n) ==
    f = [j \in 0 .. n |-> IF j = 0 THEN first ELSE NextCall(f[j - 1])]

LEMMA DeleteDownExists ==
  ASSUME NEW first, NEW n \in Nat
  PROVE  \E f : DeleteDown(f, first, n)
  <1> DEFINE S == {m \in Nat : \E f : DeleteDown(f, first, m)}
             next(j, x) == NextCall(x)
  <1>1. 0 \in S
    <2> DEFINE g == [j \in 0 .. 0 |-> first]
    <2>1. g = [j \in 0 .. 0 |-> IF j = 0 THEN first ELSE next(j, g[j - 1])]
      OBVIOUS
    <2> HIDE DEF g
    <2>2. DeleteDown(g, first, 0)
      BY <2>1 DEF DeleteDown
    <2> QED BY <2>2
  <1>2. ASSUME NEW m \in Nat, m \in S PROVE m + 1 \in S
    <2>1. PICK f : DeleteDown(f, first, m)
      BY <1>2
    <2> DEFINE y == next(m + 1, f[m])
               g == [j \in 0 .. m + 1 |-> IF j = m + 1 THEN y ELSE f[j]]
    <2>2. ASSUME NEW j \in 0 .. m + 1
          PROVE  g[j] = IF j = 0 THEN first ELSE next(j, g[j - 1])
      <3>1. CASE j = m + 1
        <4>1. j # 0 /\ j - 1 = m /\ m \in 0 .. m + 1 /\ m # m + 1
          BY <3>1
        <4> HIDE DEF y
        <4>2. g[m] = f[m] /\ g[j] = y
          BY <3>1, <4>1
        <4>3. g[j - 1] = f[m]
          BY <4>1, <4>2
        <4> HIDE DEF g, next
        <4> QED BY <3>1, <4>1, <4>2, <4>3 DEF y
      <3>2. CASE j # m + 1
        <4> HIDE DEF y
        <4>1. j \in 0 .. m /\ (j # 0 => j - 1 \in 0 .. m + 1 /\ j - 1 # m + 1)
          BY <3>2
        <4>2. g[j] = f[j] /\ (j # 0 => g[j - 1] = f[j - 1])
          BY <3>2, <4>1
        <4>3. f[j] = IF j = 0 THEN first ELSE next(j, f[j - 1])
          BY <2>1, <4>1 DEF DeleteDown
        <4> HIDE DEF g, next
        <4> QED BY <4>2, <4>3
      <3> QED BY <3>1, <3>2
    <2> HIDE DEF next, y
    <2>3. g = [j \in 0 .. m + 1 |-> g[j]]
      OBVIOUS
    <2> HIDE DEF g
    <2>4. g = [j \in 0 .. m + 1 |-> IF j = 0 THEN first ELSE next(j, g[j - 1])]
      BY <2>2, <2>3
    <2>5. DeleteDown(g, first, m + 1)
      BY <2>4 DEF DeleteDown, next
    <2> QED BY <2>5
  <1> HIDE DEF S
  <1>3. n \in S
    BY <1>1, <1>2, Induction
  <1> QED BY <1>3 DEF S

(* The tree gets smaller with every call, so there is a last one. *)
LEMMA DeleteDepth ==
  ASSUME NEW first, NEW own, DeleteReady(first, own), NEW n \in Nat,
         n = Tree(first.nodes, first.node).value.length,
         NEW f, DeleteDown(f, first, n)
  PROVE  \E i \in 0 .. n : AtPiece(f[i]) /\ \A k \in 0 .. i - 1 : ~AtPiece(f[k])
  <1> SUFFICES ASSUME \A i \in 0 .. n : AtPiece(f[i]) => \E k \in 0 .. i - 1 : AtPiece(f[k])
               PROVE  FALSE
    OBVIOUS
  <1> DEFINE TreeSize(c) == Tree(c.nodes, c.node).value.length
             S == {i \in Nat : i <= n => /\ \A k \in 0 .. i - 1 : ~AtPiece(f[k])
                                         /\ \E more : DeleteReady(f[i], more)
                                         /\ TreeSize(f[i]) <= n - i /\ TreeSize(f[i]) \in Nat}
  <1>1. f[0] = first /\ \A i \in 1 .. n : f[i] = NextCall(f[i - 1])
    BY DEF DeleteDown
  <1> HIDE DEF TreeSize
  <1>2. 0 \in S
    <2>1. TreeSize(f[0]) = n
      BY <1>1 DEF TreeSize
    <2> QED BY <1>1, <2>1
  <1>3. ASSUME NEW i \in Nat, i \in S PROVE i + 1 \in S
    <2> SUFFICES ASSUME i + 1 <= n
                 PROVE  /\ \A k \in 0 .. i : ~AtPiece(f[k])
                        /\ \E more : DeleteReady(f[i + 1], more)
                        /\ TreeSize(f[i + 1]) <= n - (i + 1) /\ TreeSize(f[i + 1]) \in Nat
      OBVIOUS
    <2>1. /\ \A k \in 0 .. i - 1 : ~AtPiece(f[k])
          /\ TreeSize(f[i]) <= n - i /\ TreeSize(f[i]) \in Nat
      BY <1>3
    <2>2. PICK more : DeleteReady(f[i], more)
      BY <1>3
    <2>3. ~AtPiece(f[i])
      <3>1. i \in 0 .. n
        OBVIOUS
      <3> QED BY <2>1, <3>1
    <2>4. f[i + 1] = NextCall(f[i])
      <3>1. i + 1 \in 1 .. n /\ i + 1 - 1 = i
        OBVIOUS
      <3> QED BY <1>1, <3>1
    <2>5. /\ DeleteReady(f[i + 1], Plus(more, f[i].owned.node))
          /\ TreeSize(f[i + 1]) < TreeSize(f[i]) /\ TreeSize(f[i + 1]) \in Nat
      BY <2>2, <2>3, <2>4, DeleteGoesOn DEF TreeSize
    <2>6. \A k \in 0 .. i : ~AtPiece(f[k])
      BY <2>1, <2>3
    <2> QED BY <2>1, <2>5, <2>6
  <1>4. n \in S
    <2> HIDE DEF S
    <2> QED BY <1>2, <1>3, Induction
  <1>5. \A k \in 0 .. n - 1 : ~AtPiece(f[k])
    BY <1>4
  <1>6. PICK more : DeleteReady(f[n], more)
    BY <1>4
  <1>7. TreeSize(f[n]) <= 0 /\ TreeSize(f[n]) \in Nat
    BY <1>4
  <1>8. ~AtPiece(f[n])
    BY <1>5
  <1>9. TreeSize(NextCall(f[n])) < TreeSize(f[n]) /\ TreeSize(NextCall(f[n])) \in Nat
    BY <1>6, <1>8, DeleteGoesOn DEF TreeSize
  <1> QED BY <1>7, <1>9

(* What the calls give, from the last one to the first. *)
LEMMA DeleteBack ==
  ASSUME NEW down, NEW depth \in Nat, NEW last, NEW own, DeleteReady(down[0], own),
         \A i \in 1 .. depth : down[i] = NextCall(down[i - 1]),
         \A i \in 0 .. depth - 1 : ~AtPiece(down[i]),
         \A more : DeleteReady(down[depth], more)
                      => Gives(down[depth].nodes, more, down[depth].node, down[depth].offset, last)
  PROVE  Gives(down[0].nodes, own, down[0].node, down[0].offset, Returned(down, depth, last))
  <1>1. PICK f : /\ Returned(down, depth, last) = f[depth] /\ f[0] = last
                 /\ \A j \in 1 .. depth : f[j] = Rejoined(down[depth - j], f[j - 1])
    BY ReturnedIs
  <1> DEFINE Fine(c, o) == \A more : DeleteReady(c, more) => Gives(c.nodes, more, c.node, c.offset, o)
             S == {i \in Nat : i <= depth => Fine(down[depth - i], f[i])}
  <1>2. 0 \in S
    <2>1. Fine(down[depth], f[0])
      BY <1>1
    <2>2. depth - 0 = depth
      OBVIOUS
    <2> HIDE DEF Fine
    <2> QED BY <2>1, <2>2
  <1>3. ASSUME NEW i \in Nat, i \in S PROVE i + 1 \in S
    <2> SUFFICES ASSUME i + 1 <= depth PROVE Fine(down[depth - (i + 1)], f[i + 1])
      <3> HIDE DEF Fine
      <3> QED OBVIOUS
    <2> DEFINE k == depth - (i + 1)
               c == down[k]
               d == down[depth - i]
    <2>1. k \in 0 .. depth - 1 /\ k + 1 \in 1 .. depth /\ k + 1 - 1 = k /\ k + 1 = depth - i
          /\ i + 1 \in 1 .. depth /\ i + 1 - 1 = i /\ i <= depth
      OBVIOUS
    <2>2. d = NextCall(c) /\ ~AtPiece(c)
      <3> HIDE DEF k
      <3> QED BY <2>1
    <2>3. f[i + 1] = Rejoined(c, f[i])
      <3> HIDE DEF k
      <3>1. f[i + 1] = Rejoined(down[depth - (i + 1)], f[i + 1 - 1])
        BY <1>1, <2>1
      <3> QED BY <3>1, <2>1 DEF k
    <2>4. Fine(d, f[i])
      <3> HIDE DEF Fine
      <3> QED BY <1>3, <2>1
    <2> HIDE DEF c, d, S
    <2>5. ASSUME NEW more, DeleteReady(c, more)
          PROVE  Gives(c.nodes, more, c.node, c.offset, f[i + 1])
      <3>1. DeleteReady(d, Plus(more, c.owned.node))
        BY <2>2, <2>5, DeleteGoesOn
      <3>2. Gives(d.nodes, Plus(more, c.owned.node), d.node, d.offset, f[i])
        BY <2>4, <3>1
      <3>3. Gives(c.nodes, more, c.node, c.offset, Rejoined(c, f[i]))
        BY <2>2, <2>5, <3>2, DeleteGoesOn
      <3> QED BY <2>3, <3>3
    <2> QED BY <2>5 DEF c, k
  <1>4. depth \in S
    <2> HIDE DEF S
    <2> QED BY <1>2, <1>3, Induction
  <1>5. Fine(down[0], f[depth])
    <2>1. depth - depth = 0
      OBVIOUS
    <2> HIDE DEF Fine
    <2> QED BY <1>4, <2>1
  <1> QED BY <1>1, <1>5

(* delete_node gives an owned node of the tree without the piece. *)
LEMMA DeleteGives ==
  ASSUME NEW ns, NEW own, Heap(ns, own), NEW n, IsRootOf(ns, n, Tree(ns, n)), Ok(Tree(ns, n)),
         NEW offset, offset \in DOMAIN Tree(ns, n).value.pieces
  PROVE  Gives(ns, own, n, offset, delete_node(ns, n, offset))
  <1> DEFINE first == Call(ns, n, offset)
             enough == node_length(ns, n)
             down == CHOOSE f : DeleteDown(f, first, enough)
             Ends(i) == AtPiece(down[i]) /\ \A k \in 0 .. i - 1 : ~AtPiece(down[k])
             depth == CHOOSE i \in 0 .. enough : Ends(i)
             last == TakenOut(down[depth].owned)
  <1>1. WellMade(ns) /\ InUse(ns, n)
    BY HeapIs DEF IsRootOf, InUse
  <1>2. Good(Tree(ns, n)) /\ enough = Tree(ns, n).value.length
    BY <1>1, TreesAreGood
  <1>3. enough \in Nat
    <2>1. GoodValue(Tree(ns, n).value)
      BY <1>2, GoodIs
    <2> QED BY <1>2, <2>1 DEF GoodValue
  <1>4. first.nodes = ns /\ first.node = n /\ first.offset = offset
    BY CallIs
  <1>5. RedRoot(Tree(ns, n)) \/ RedOnLeft(Tree(ns, n)) \/ AllBlack(Tree(ns, n))
    <2>1. Tree(ns, n).kind = "node"
      BY DEF IsRootOf
    <2>2. Good(Tree(ns, n).left)
      BY <1>2, <2>1, GoodNode
    <2> QED BY <1>2, <2>1, <2>2, ColorsDiffer DEF RedRoot, RedOnLeft, AllBlack
  <1>6. DeleteReady(first, own)
    <2>1. first = Call(first.nodes, first.node, first.offset)
      BY <1>4
    <2> HIDE DEF first
    <2> QED BY <1>4, <1>5, <2>1 DEF DeleteReady
  <1>7. DeleteDown(down, first, enough)
    BY <1>3, DeleteDownExists
  <1>8. delete_node(ns, n, offset) = Returned(down, depth, last)
    BY Zenon DEF delete_node, DeleteDown
  <1> HIDE DEF first, enough, down
  <1>9. depth \in 0 .. enough /\ Ends(depth)
    <2>1. \E i \in 0 .. enough : Ends(i)
      BY <1>2, <1>3, <1>4, <1>6, <1>7, DeleteDepth
    <2> HIDE DEF Ends
    <2> QED BY <2>1
  <1> HIDE DEF depth
  <1>10. /\ down[0] = first /\ depth \in Nat
         /\ \A i \in 1 .. depth : down[i] = NextCall(down[i - 1])
    BY <1>3, <1>7, <1>9 DEF DeleteDown
  <1>11. \A more : DeleteReady(down[depth], more)
                     => Gives(down[depth].nodes, more, down[depth].node, down[depth].offset, last)
    BY <1>9, AtPieceGives
  <1>12. \A i \in 0 .. depth - 1 : ~AtPiece(down[i])
    BY <1>9
  <1> HIDE DEF last
  <1>13. Gives(down[0].nodes, own, down[0].node, down[0].offset, Returned(down, depth, last))
    BY <1>6, <1>10, <1>11, <1>12, DeleteBack
  <1> QED BY <1>4, <1>8, <1>10, <1>13

-----------------------------------------------------------------------------
(* The roots, and what the nodes are owned by between operations *)

Owners(rs) == [a \in Nat |-> Cardinality({p \in Names : rs[p] = a})]

LEMMA OwnersAre ==
  ASSUME NEW rs \in [Names -> Nat]
  PROVE  /\ Owners(rs) \in Owned
         /\ \A p \in Names : rs[p] \in Nat /\ Owners(rs)[rs[p]] # 0
         /\ \A a \in Nat : Owners(rs)[a] # 0 => \E p \in Names : rs[p] = a
  <1>1. \A a : IsFiniteSet({p \in Names : rs[p] = a})
    BY TreeAssumption, FS_Subset
  <1>2. \A a : Cardinality({p \in Names : rs[p] = a}) \in Nat
    BY <1>1, FS_CardinalityType
  <1>3. Owners(rs) \in Owned
    BY <1>2 DEF Owners, Owned
  <1>4. ASSUME NEW p \in Names PROVE Owners(rs)[rs[p]] # 0
    <2>1. p \in {q \in Names : rs[q] = rs[p]}
      OBVIOUS
    <2>2. Cardinality({q \in Names : rs[q] = rs[p]}) # 0
      BY <1>1, <2>1, FS_EmptySet
    <2> QED BY <2>2 DEF Owners
  <1>5. ASSUME NEW a \in Nat, Owners(rs)[a] # 0 PROVE \E p \in Names : rs[p] = a
    <2>1. Cardinality({p \in Names : rs[p] = a}) # 0
      BY <1>5 DEF Owners
    <2>2. {p \in Names : rs[p] = a} # {}
      BY <2>1, FS_EmptySet
    <2> QED BY <2>2
  <1> QED BY <1>3, <1>4, <1>5

(* A place that gets another node owns that one instead of the one it had. *)
LEMMA OwnersAssigned ==
  ASSUME NEW rs \in [Names -> Nat], NEW to \in Names, NEW n \in Nat,
         NEW now \in [Names -> Nat], now[to] = n, \A p \in Names : p # to => now[p] = rs[p]
  PROVE  Plus(Owners(now), rs[to]) = Plus(Owners(rs), n)
  <1>1. now \in [Names -> Nat] /\ rs[to] \in Nat
    OBVIOUS
  <1> DEFINE Who(r, a) == {p \in Names : r[p] = a}
  <1>2. \A r, a : IsFiniteSet(Who(r, a)) /\ Cardinality(Who(r, a)) \in Nat
    BY TreeAssumption, FS_Subset, FS_CardinalityType
  <1>3. ASSUME NEW a \in Nat
        PROVE  Cardinality(Who(now, a)) + (IF a = rs[to] THEN 1 ELSE 0)
                 = Cardinality(Who(rs, a)) + (IF a = n THEN 1 ELSE 0)
    <2> DEFINE rest == {p \in Names \ {to} : rs[p] = a}
    <2>1. IsFiniteSet(rest) /\ to \notin rest
      BY TreeAssumption, FS_Subset
    <2>2. Cardinality(rest) \in Nat /\ Cardinality(rest \cup {to}) = Cardinality(rest) + 1
      BY <2>1, FS_AddElement, FS_CardinalityType
    <2>3. Who(rs, a) = IF a = rs[to] THEN rest \cup {to} ELSE rest
      OBVIOUS
    <2>4. Who(now, a) = IF a = n THEN rest \cup {to} ELSE rest
      BY <1>1
    <2> HIDE DEF rest, Who
    <2> QED BY <2>2, <2>3, <2>4
  <1>4. Owners(rs) \in Owned /\ Owners(now) \in Owned
    BY <1>1, OwnersAre
  <1>5. ASSUME NEW a \in Nat PROVE Plus(Owners(now), rs[to])[a] = Plus(Owners(rs), n)[a]
    <2>1. /\ Owners(rs)[a] = Cardinality(Who(rs, a)) /\ Owners(now)[a] = Cardinality(Who(now, a))
      BY DEF Owners
    <2>2. Cardinality(Who(rs, a)) \in Nat /\ Cardinality(Who(now, a)) \in Nat
      BY <1>2
    <2>3. /\ Plus(Owners(now), rs[to])[a] = Owners(now)[a] + (IF a = rs[to] THEN 1 ELSE 0)
          /\ Plus(Owners(rs), n)[a] = Owners(rs)[a] + (IF a = n THEN 1 ELSE 0)
      <3>1. \A own \in Owned, b \in Nat : Plus(own, b)[a] = own[a] + (IF a = b THEN 1 ELSE 0)
        BY DEF Plus, Owned
      <3> QED BY <1>1, <1>4, <3>1
    <2> HIDE DEF Who
    <2> QED BY <1>3, <2>1, <2>2, <2>3
  <1>6. Plus(Owners(now), rs[to]) \in Owned /\ Plus(Owners(rs), n) \in Owned
    BY <1>1, <1>4, PlusIs
  <1>7. Plus(Owners(now), rs[to]) = Plus(Owners(rs), n)
    <2> DEFINE f == Plus(Owners(now), rs[to])
               g == Plus(Owners(rs), n)
    <2>1. f \in [Nat -> Nat] /\ g \in [Nat -> Nat] /\ \A a \in Nat : f[a] = g[a]
      BY <1>5, <1>6 DEF Owned
    <2> HIDE DEF f, g
    <2>2. f = g
      BY <2>1
    <2> QED BY <2>2 DEF f, g
  <1> QED BY <1>1, <1>7

(* No node, and another reference to a node there is. *)
LEMMA NoneYields ==
  ASSUME NEW ns, NEW own, Heap(ns, own)
  PROVE  Yields(ns, own, [nodes |-> ns, node |-> NULL], Leaf)
  <1> DEFINE last == [nodes |-> ns, node |-> NULL]
  <1>1. WellMade(ns) /\ ns \in Store /\ own \in Owned
    BY HeapIs
  <1>2. last.nodes = ns /\ last.node = NULL /\ last = [nodes |-> last.nodes, node |-> last.node]
    OBVIOUS
  <1>3. Heap(ns, Plus(own, NULL)) /\ Same(ns, ns) /\ Tree(ns, NULL) = Leaf /\ NULL \in Nat
    BY <1>1, NullOwned, SameIsReflexive, TreeAt DEF NULL
  <1> HIDE DEF last
  <1>4. Yields(ns, own, last, Leaf)
    BY <1>1, <1>2, <1>3 DEF Yields
  <1> QED BY <1>4 DEF last

LEMMA TakenIsHeap ==
  ASSUME NEW ns, NEW own, Heap(ns, own), NEW n \in Live(ns), NEW after,
         after = take_node_ref(ns, n)
  PROVE  Heap(after, Plus(own, n)) /\ Same(ns, after)
  <1> DEFINE k == ns[n].ref_count + 1
             y == [ns[n] EXCEPT !.ref_count = k]
  <1>1. WellMade(ns) /\ ns \in Store /\ own \in Owned
    BY HeapIs
  <1>2. n \in Nat /\ n # NULL /\ ns[n] \in NodeRecord /\ ns[n].ref_count \in Nat
    BY <1>1, LiveIs DEF NULL, NodeRecord
  <1>3. after = [ns EXCEPT ![n] = y]
    BY <1>2 DEF take_node_ref
  <1>4. k \in Nat
    BY <1>2
  <1> HIDE DEF y
  <1>5. Recounted(ns, n, k, after)
    BY <1>1, <1>3, <1>4, Recounting DEF y
  <1> HIDE DEF k
  <1>6. /\ WellMade(after) /\ Same(ns, after) /\ Live(after) = Live(ns)
        /\ \A a : LeftParents(after, a) = LeftParents(ns, a)
        /\ \A a : RightParents(after, a) = RightParents(ns, a)
        /\ after[n].ref_count = k
        /\ \A a \in Live(ns) : a # n => after[a].ref_count = ns[a].ref_count
    BY <1>5, Zenon DEF Recounted
  <1>7. Plus(own, n) \in Owned /\ Plus(own, n)[n] = own[n] + 1 /\ own[n] \in Nat
        /\ \A a \in Nat : a # n => Plus(own, n)[a] = own[a]
    BY <1>1, <1>2, PlusIs
  <1>8. ASSUME NEW a \in Live(ns)
        PROVE  /\ after[a].ref_count # 0
               /\ after[a].ref_count = Cardinality(LeftParents(after, a))
                     + Cardinality(RightParents(after, a)) + Plus(own, n)[a]
    <2>1. /\ ns[a].ref_count # 0
          /\ ns[a].ref_count = Cardinality(LeftParents(ns, a))
                + Cardinality(RightParents(ns, a)) + own[a]
      BY DEF Heap, Counted
    <2>2. LeftParents(after, a) = LeftParents(ns, a) /\ RightParents(after, a) = RightParents(ns, a)
      BY <1>6
    <2>3. Cardinality(LeftParents(ns, a)) \in Nat /\ Cardinality(RightParents(ns, a)) \in Nat
      BY <1>1, ParentsFinite
    <2>4. a \in Nat
      BY <1>1, LiveIs
    <2>5. CASE a = n
      BY <1>6, <1>7, <1>2, <2>1, <2>2, <2>3, <2>5 DEF k
    <2>6. CASE a # n
      BY <1>6, <1>7, <2>1, <2>2, <2>4, <2>6
    <2> QED BY <2>5, <2>6
  <1>9. ASSUME NEW a \in Nat \ {0}, a \notin Live(ns) PROVE Plus(own, n)[a] = 0
    <2>1. own[a] = 0 /\ a # n
      BY <1>9 DEF Heap, Counted
    <2> QED BY <1>7, <2>1
  <1> QED BY <1>6, <1>7, <1>8, <1>9 DEF Heap, Counted

LEMMA TakeYields ==
  ASSUME NEW ns, NEW own, Heap(ns, own), NEW n, InUse(ns, n)
  PROVE  Yields(ns, own, [nodes |-> take_node_ref(ns, n), node |-> n], Tree(ns, n))
  <1>1. CASE n = NULL
    <2>1. take_node_ref(ns, n) = ns /\ Tree(ns, n) = Leaf
      BY <1>1, HeapIs, TreeAt DEF take_node_ref
    <2> QED BY <1>1, <2>1, NoneYields
  <1>2. CASE n # NULL
    <2> DEFINE after == take_node_ref(ns, n)
               o == [nodes |-> after, node |-> n]
    <2>1. n \in Live(ns) /\ n \in Nat /\ n <= Len(ns) /\ WellMade(ns) /\ ns \in Store /\ own \in Owned
      BY <1>2, HeapIs DEF InUse
    <2>2. Heap(after, Plus(own, n)) /\ Same(ns, after)
      BY <2>1, TakenIsHeap
    <2>3. Plus(own, n)[n] # 0
      BY <2>1, PlusOwns
    <2> HIDE DEF after
    <2>4. InUse(after, n) /\ WellMade(after)
      BY <2>1, <2>2, <2>3, HeapIs
    <2>5. Tree(after, n) = Tree(ns, n)
      BY <2>1, <2>2, <2>4, SameTrees DEF InUse
    <2>6. o.nodes = after /\ o.node = n /\ o = [nodes |-> o.nodes, node |-> o.node]
      OBVIOUS
    <2> HIDE DEF o
    <2>7. Yields(ns, own, o, Tree(ns, n))
      BY <2>1, <2>2, <2>5, <2>6 DEF Yields
    <2> QED BY <2>7 DEF o, after
  <1> QED BY <1>1, <1>2

(* The root of a tree is black. *)
LEMMA BlackRootYields ==
  ASSUME NEW ns, NEW own \in Owned, NEW o, NEW u, Yields(ns, own, o, u), Good(u),
         Ok(u) \/ HalfOk(u, u.left.height)
  PROVE  \E v : /\ Yields(ns, own, BlackRoot(o), v) /\ Good(v) /\ Ok(v) /\ Black(v)
                /\ v.value = u.value
  <1>1. node_is_red(o.nodes, o.node) <=> Red(u)
    <2>1. Heap(o.nodes, Plus(own, o.node)) /\ InUse(o.nodes, o.node) /\ u = Tree(o.nodes, o.node)
      BY YieldsIs
    <2>2. WellMade(o.nodes)
      BY <2>1, HeapIs
    <2> QED BY <2>1, <2>2, RootIs
  <1>2. CASE ~Red(u)
    <2>1. BlackRoot(o) = o
      BY <1>1, <1>2 DEF BlackRoot
    <2>2. Ok(u) /\ Black(u)
      BY <1>2, ColorsDiffer DEF HalfOk
    <2> QED BY <2>1, <2>2
  <1>3. CASE Red(u)
    <2> DEFINE v == Repainted(u, "black")
    <2>1. BlackRoot(o) = repaint_owned(o, "black")
      BY <1>1, <1>3 DEF BlackRoot
    <2>2. u.kind = "node"
      BY <1>3, GoodIs
    <2>3. Yields(ns, own, repaint_owned(o, "black"), v)
      BY <2>2, RepaintYields, ColorsAre
    <2>4. Good(v) /\ v.value = u.value
      BY <2>2, RepaintedIsSound, ColorsAre DEF Sound
    <2>5. Ok(u.left) /\ Ok(u.right) /\ u.left.height = u.right.height /\ Black(u.right)
      <3>1. CASE Ok(u)
        BY <2>2, <3>1, OkIs
      <3>2. CASE HalfOk(u, u.left.height)
        BY <3>2 DEF HalfOk
      <3> QED BY <3>1, <3>2
    <2>6. /\ Ok(v) <=> /\ Ok(u.left) /\ Ok(u.right) /\ u.left.height = u.right.height /\ Black(u.right)
                       /\ "black" = "red" => Black(u.left)
          /\ Black(v) <=> "black" = "black"
      BY MkShape, ColorsAre DEF Repainted
    <2>7. Ok(v) /\ Black(v)
      BY <2>5, <2>6
    <2> HIDE DEF v
    <2> QED BY <2>1, <2>3, <2>4, <2>7
  <1> QED BY <1>2, <1>3

-----------------------------------------------------------------------------
(* The functions on nodes that the properties use *)

(* The pieces of a node are those of its tree. *)
LEMMA PiecesAre ==
  ASSUME WellMade(nodes), NEW n, InUse(nodes, n)
  PROVE  PiecesOf(n) = Tree(nodes, n).value.pieces
  <1> DEFINE f == CHOOSE f : PiecesUp(f, nodes, Len(nodes))
             S == {a \in 0 .. Len(nodes) : InUse(nodes, a) => f[a] = Tree(nodes, a).value.pieces}
  <1>1. Older(nodes) /\ Len(nodes) \in Nat /\ nodes \in Store
    BY ChildrenAreOlder
  <1>2. PiecesUp(f, nodes, Len(nodes))
    BY <1>1, FunctionsExist
  <1>3. PiecesOf(n) = f[n]
    BY Zenon DEF PiecesOf, PiecesUp, PiecesStep, Addresses
  <1> HIDE DEF f
  <1>4. \A m \in 0 .. Len(nodes) :
           f[m] = IF m = NULL THEN << >>
                  ELSE Joined(f[nodes[m].left], node_length(nodes, nodes[m].left), nodes[m].piece,
                              f[nodes[m].right])
    BY <1>2 DEF PiecesUp, PiecesStep
  <1>5. \A a : InUse(nodes, a) => a \in 0 .. Len(nodes)
    BY <1>1, LiveIs DEF InUse, NULL
  <1>6. ASSUME NEW a \in 0 .. Len(nodes), \A b \in 0 .. Len(nodes) : b < a => b \in S
        PROVE  a \in S
    <2> SUFFICES ASSUME InUse(nodes, a) PROVE f[a] = Tree(nodes, a).value.pieces
      OBVIOUS
    <2>1. CASE a = NULL
      <3>1. f[a] = << >>
        BY <1>4, <2>1
      <3>2. Tree(nodes, a).value.pieces = << >>
        BY <2>1, TreeAt, LeafIs DEF Nothing
      <3> QED BY <3>1, <3>2
    <2>2. CASE a # NULL
      <3> DEFINE l == nodes[a].left
                 r == nodes[a].right
                 t == Tree(nodes, a)
      <3>1. a \in Live(nodes)
        BY <2>2 DEF InUse
      <3>2. Linked(nodes, a)
        BY <3>1 DEF WellMade
      <3>3. InUse(nodes, l) /\ l < a /\ InUse(nodes, r) /\ r < a
        BY <3>2 DEF Linked, InUse
      <3>4. f[l] = Tree(nodes, l).value.pieces /\ f[r] = Tree(nodes, r).value.pieces
        BY <3>3, <1>5, <1>6
      <3>5. node_length(nodes, l) = Tree(nodes, l).value.length
        BY <3>3, TreesAreGood
      <3>6. t = Mk(nodes[a].color, Tree(nodes, l), nodes[a].piece, Tree(nodes, r))
        BY <3>1, TreeAt
      <3>7. t.value = JoinedValue(Tree(nodes, l).value, nodes[a].piece, Tree(nodes, r).value)
        <4> HIDE DEF l, r, t
        <4> QED BY <3>6, MkIs
      <3>8. f[a] = Joined(f[l], node_length(nodes, l), nodes[a].piece, f[r])
        BY <1>4, <2>2
      <3> HIDE DEF l, r, t
      <3>9. t.value.pieces = Joined(Tree(nodes, l).value.pieces, Tree(nodes, l).value.length,
                                    nodes[a].piece, Tree(nodes, r).value.pieces)
        BY <3>7 DEF JoinedValue
      <3>10. f[a] = t.value.pieces
        BY <3>4, <3>5, <3>8, <3>9
      <3> QED BY <3>10 DEF t
    <2> QED BY <2>1, <2>2
  <1>7. 0 .. Len(nodes) \subseteq S
    <2> HIDE DEF S
    <2> QED BY <1>1, <1>6, AddressInduction
  <1> QED BY <1>3, <1>5, <1>7

LEMMA ValuesAre ==
  ASSUME WellMade(nodes), NEW n, InUse(nodes, n)
  PROVE  ValueOf(n) = Tree(nodes, n).value
  <1>1. Good(Tree(nodes, n))
    BY TreesAreGood
  <1>2. /\ PiecesOf(n) = Tree(nodes, n).value.pieces
        /\ node_length(nodes, n) = Tree(nodes, n).value.length
        /\ node_lf_count(nodes, n) = Tree(nodes, n).value.lf_count
    BY PiecesAre, TreesAreGood
  <1>3. GoodValue(Tree(nodes, n).value)
    BY <1>1, GoodIs
  <1> QED BY <1>2, <1>3, Zenon DEF ValueOf, GoodValue

LEMMA HeightsAre ==
  ASSUME WellMade(nodes), NEW n, InUse(nodes, n)
  PROVE  BlackHeight(n) = Tree(nodes, n).height
  <1> DEFINE f == CHOOSE f : HeightsUp(f, nodes, Len(nodes))
             S == {a \in 0 .. Len(nodes) : InUse(nodes, a) => f[a] = Tree(nodes, a).height}
  <1>1. Older(nodes) /\ Len(nodes) \in Nat /\ nodes \in Store
    BY ChildrenAreOlder
  <1>2. HeightsUp(f, nodes, Len(nodes))
    BY <1>1, FunctionsExist
  <1>3. BlackHeight(n) = f[n]
    BY Zenon DEF BlackHeight, HeightsUp, HeightStep, Addresses
  <1> HIDE DEF f
  <1>4. \A m \in 0 .. Len(nodes) :
           f[m] = IF m = NULL THEN 0
                  ELSE f[nodes[m].left] + (IF nodes[m].color = "black" THEN 1 ELSE 0)
    BY <1>2 DEF HeightsUp, HeightStep
  <1>5. \A a : InUse(nodes, a) => a \in 0 .. Len(nodes)
    BY <1>1, LiveIs DEF InUse, NULL
  <1>6. ASSUME NEW a \in 0 .. Len(nodes), \A b \in 0 .. Len(nodes) : b < a => b \in S
        PROVE  a \in S
    <2> SUFFICES ASSUME InUse(nodes, a) PROVE f[a] = Tree(nodes, a).height
      OBVIOUS
    <2>1. CASE a = NULL
      <3>1. f[a] = 0
        BY <1>4, <2>1
      <3>2. Tree(nodes, a).height = 0
        BY <2>1, TreeAt, LeafIs
      <3> QED BY <3>1, <3>2
    <2>2. CASE a # NULL
      <3> DEFINE l == nodes[a].left
                 r == nodes[a].right
                 t == Tree(nodes, a)
      <3>1. a \in Live(nodes)
        BY <2>2 DEF InUse
      <3>2. Linked(nodes, a)
        BY <3>1 DEF WellMade
      <3>3. InUse(nodes, l) /\ l < a
        BY <3>2 DEF Linked, InUse
      <3>4. f[l] = Tree(nodes, l).height
        BY <3>3, <1>5, <1>6
      <3>6. t = Mk(nodes[a].color, Tree(nodes, l), nodes[a].piece, Tree(nodes, r))
        BY <3>1, TreeAt
      <3>7. t.height = Tree(nodes, l).height + (IF nodes[a].color = "black" THEN 1 ELSE 0)
        <4> HIDE DEF l, r, t
        <4> QED BY <3>6, MkIs
      <3>8. f[a] = f[l] + (IF nodes[a].color = "black" THEN 1 ELSE 0)
        BY <1>4, <2>2
      <3> HIDE DEF l, r, t
      <3>10. f[a] = t.height
        BY <3>4, <3>7, <3>8
      <3> QED BY <3>10 DEF t
    <2> QED BY <2>1, <2>2
  <1>7. 0 .. Len(nodes) \subseteq S
    <2> HIDE DEF S
    <2> QED BY <1>1, <1>6, AddressInduction
  <1> QED BY <1>3, <1>5, <1>7

(* What is below a node is in use, and so is what is below that. *)
LEMMA SubtreesAre ==
  ASSUME WellMade(nodes), NEW n, InUse(nodes, n)
  PROVE  /\ Subtree(n) \subseteq Live(nodes) /\ (n # NULL => n \in Subtree(n))
         /\ \A m \in Subtree(n) : /\ nodes[m].left # NULL => nodes[m].left \in Subtree(n)
                                  /\ nodes[m].right # NULL => nodes[m].right \in Subtree(n)
  <1> DEFINE f == CHOOSE f : SubtreesUp(f, nodes, Len(nodes))
             Below(a) ==
                /\ f[a] \subseteq Live(nodes) /\ (a # NULL => a \in f[a])
                /\ \A m \in f[a] : /\ nodes[m].left # NULL => nodes[m].left \in f[a]
                                   /\ nodes[m].right # NULL => nodes[m].right \in f[a]
             S == {a \in 0 .. Len(nodes) : InUse(nodes, a) => Below(a)}
  <1>1. Older(nodes) /\ Len(nodes) \in Nat /\ nodes \in Store
    BY ChildrenAreOlder
  <1>2. SubtreesUp(f, nodes, Len(nodes))
    BY <1>1, FunctionsExist
  <1>3. Subtree(n) = f[n]
    BY Zenon DEF Subtree, SubtreesUp, SubtreeStep, Addresses
  <1> HIDE DEF f
  <1>4. \A m \in 0 .. Len(nodes) :
           f[m] = IF m = NULL THEN {} ELSE {m} \cup f[nodes[m].left] \cup f[nodes[m].right]
    BY <1>2 DEF SubtreesUp, SubtreeStep
  <1>5. \A a : InUse(nodes, a) => a \in 0 .. Len(nodes)
    BY <1>1, LiveIs DEF InUse, NULL
  <1>6. ASSUME NEW a \in 0 .. Len(nodes), \A b \in 0 .. Len(nodes) : b < a => b \in S
        PROVE  a \in S
    <2> SUFFICES ASSUME InUse(nodes, a) PROVE Below(a)
      OBVIOUS
    <2>1. CASE a = NULL
      <3>1. f[a] = {}
        BY <1>4, <2>1
      <3> QED BY <2>1, <3>1
    <2>2. CASE a # NULL
      <3> DEFINE l == nodes[a].left
                 r == nodes[a].right
      <3>1. a \in Live(nodes)
        BY <2>2 DEF InUse
      <3>2. Linked(nodes, a)
        BY <3>1 DEF WellMade
      <3>3. InUse(nodes, l) /\ l < a /\ InUse(nodes, r) /\ r < a
        BY <3>2 DEF Linked, InUse
      <3>4. Below(l) /\ Below(r)
        <4> HIDE DEF Below
        <4> QED BY <3>3, <1>5, <1>6
      <3>5. f[a] = {a} \cup f[l] \cup f[r]
        BY <1>4, <2>2
      <3> QED BY <3>1, <3>4, <3>5
    <2> QED BY <2>1, <2>2
  <1>7. 0 .. Len(nodes) \subseteq S
    <2> HIDE DEF S
    <2> QED BY <1>1, <1>6, AddressInduction
  <1>8. Below(n)
    <2> HIDE DEF Below
    <2> QED BY <1>5, <1>7
  <1> QED BY <1>3, <1>8

(* Every node in use is below one that is owned. *)
LEMMA FromOwned ==
  ASSUME NEW ns, NEW own, Heap(ns, own), NEW S,
         \A a \in Live(ns) : own[a] # 0 => a \in S,
         \A m \in Live(ns) : m \in S => /\ ns[m].left # NULL => ns[m].left \in S
                                        /\ ns[m].right # NULL => ns[m].right \in S
  PROVE  Live(ns) \subseteq S
  <1> DEFINE N == Len(ns)
             T == {k \in 0 .. N : \A a \in Live(ns) : N - a = k => a \in S}
  <1>1. ns \in Store /\ N \in Nat /\ \A a \in Live(ns) : a \in Nat /\ a # 0 /\ a <= N
    <2>1. ns \in Store
      BY HeapIs
    <2> QED BY <2>1, LiveIs
  <1>2. ASSUME NEW k \in 0 .. N, \A j \in 0 .. N : j < k => j \in T PROVE k \in T
    <2> SUFFICES ASSUME NEW a \in Live(ns), N - a = k PROVE a \in S
      OBVIOUS
    <2>1. CASE own[a] # 0
      BY <2>1
    <2>2. CASE own[a] = 0
      <3>1. PICK m \in Live(ns) : (ns[m].left = a \/ ns[m].right = a) /\ a < m
        BY <2>2, OwnedOrChild
      <3>2. N - m \in 0 .. N /\ N - m < k
        BY <1>1, <3>1
      <3>3. m \in S
        BY <1>2, <3>2
      <3>4. a # NULL
        BY <1>1 DEF NULL
      <3> QED BY <3>1, <3>3, <3>4
    <2> QED BY <2>1, <2>2
  <1>3. 0 .. N \subseteq T
    <2> HIDE DEF T, N
    <2> QED BY <1>1, <1>2, AddressInduction
  <1>4. ASSUME NEW a \in Live(ns) PROVE a \in S
    <2>1. N - a \in 0 .. N
      BY <1>1
    <2> QED BY <1>3, <2>1
  <1> QED BY <1>4

-----------------------------------------------------------------------------
(* The invariant: the nodes are counted, and the roots are roots of black,  *)
(* leaning trees.                                                         *)
TreesFine(ns, rs) ==
    /\ rs \in [Names -> Nat]
    /\ Heap(ns, Owners(rs))
    /\ \A p \in Names : Ok(Tree(ns, rs[p])) /\ Black(Tree(ns, rs[p]))

TreeInv == TreesFine(nodes, roots)

LEMMA FineIs ==
  ASSUME NEW ns, NEW rs, TreesFine(ns, rs)
  PROVE  /\ WellMade(ns) /\ ns \in Store /\ Owners(rs) \in Owned
         /\ \A p \in Names : InUse(ns, rs[p]) /\ rs[p] \in Nat /\ rs[p] <= Len(ns)
                             /\ Good(Tree(ns, rs[p]))
  <1>1. rs \in [Names -> Nat] /\ Heap(ns, Owners(rs))
    BY DEF TreesFine
  <1>2. WellMade(ns) /\ ns \in Store /\ Owners(rs) \in Owned
    BY <1>1, HeapIs
  <1>3. ASSUME NEW p \in Names
        PROVE  InUse(ns, rs[p]) /\ rs[p] \in Nat /\ rs[p] <= Len(ns) /\ Good(Tree(ns, rs[p]))
    <2>1. rs[p] \in Nat /\ Owners(rs)[rs[p]] # 0
      BY <1>1, OwnersAre
    <2>2. InUse(ns, rs[p])
      BY <1>1, <2>1, HeapIs
    <2>3. rs[p] <= Len(ns)
      BY <1>1, <2>2, HeapIs
    <2> QED BY <1>2, <2>1, <2>2, <2>3, TreesAreGood
  <1> QED BY <1>2, <1>3

(* An assignment changes the tree of one place, and no other. *)
LEMMA Assigning ==
  ASSUME NEW ns, NEW rs, TreesFine(ns, rs), NEW to \in Names, NEW o, NEW v,
         Yields(ns, Owners(rs), o, v), Ok(v), Black(v),
         NEW after, after = dec_node_ref(o.nodes, rs[to]),
         NEW now, now = [p \in Names |-> now[p]], now[to] = o.node,
         \A p \in Names : p # to => now[p] = rs[p]
  PROVE  /\ TreesFine(after, now)
         /\ \A p \in Names : Tree(after, now[p]) = IF p = to THEN v ELSE Tree(ns, rs[p])
  <1>1. /\ WellMade(ns) /\ ns \in Store /\ Owners(rs) \in Owned /\ rs \in [Names -> Nat]
        /\ Heap(ns, Owners(rs))
    BY FineIs DEF TreesFine
  <1>2. /\ Heap(o.nodes, Plus(Owners(rs), o.node)) /\ Same(ns, o.nodes) /\ o.node \in Nat
        /\ InUse(o.nodes, o.node) /\ Tree(o.nodes, o.node) = v
    BY <1>1, YieldsIs
  <1>3. now \in [Names -> Nat] /\ Plus(Owners(now), rs[to]) = Plus(Owners(rs), o.node)
    <2>1. \A p \in Names : now[p] \in Nat
      BY <1>1, <1>2
    <2>2. now \in [Names -> Nat]
      BY <2>1
    <2> QED BY <1>1, <1>2, <2>2, OwnersAssigned
  <1>4. Owners(now) \in Owned /\ rs[to] \in Nat
    BY <1>1, <1>3, OwnersAre
  <1>5. Heap(after, Owners(now)) /\ Same(o.nodes, after)
    <2>1. Heap(o.nodes, Plus(Owners(now), rs[to]))
      BY <1>2, <1>3
    <2> QED BY <1>4, <2>1, DropRef
  <1>6. /\ WellMade(o.nodes) /\ o.nodes \in Store /\ o.node <= Len(o.nodes)
        /\ WellMade(after) /\ after \in Store
    BY <1>2, <1>5, HeapIs
  <1>7. Same(ns, after)
    BY <1>1, <1>2, <1>5, <1>6, SameIsTransitive
  <1>8. ASSUME NEW p \in Names PROVE InUse(after, now[p])
    <2>1. now[p] \in Nat /\ Owners(now)[now[p]] # 0
      BY <1>3, OwnersAre
    <2> QED BY <1>5, <2>1, HeapIs
  <1>9. ASSUME NEW p \in Names
        PROVE  Tree(after, now[p]) = IF p = to THEN v ELSE Tree(ns, rs[p])
    <2>1. CASE p = to
      <3>1. now[p] = o.node
        BY <1>1, <2>1
      <3>2. InUse(after, o.node)
        BY <1>8, <3>1
      <3>3. Tree(after, o.node) = Tree(o.nodes, o.node)
        BY <1>5, <1>6, <3>2, SameTrees DEF InUse
      <3> QED BY <1>2, <2>1, <3>1, <3>3
    <2>2. CASE p # to
      <3>1. now[p] = rs[p]
        BY <1>1, <2>2
      <3>2. InUse(after, rs[p]) /\ rs[p] <= Len(ns)
        BY <1>8, <3>1, FineIs
      <3>3. Tree(after, rs[p]) = Tree(ns, rs[p])
        BY <1>1, <1>6, <1>7, <3>2, SameTrees DEF InUse
      <3> QED BY <2>2, <3>1, <3>3
    <2> QED BY <2>1, <2>2
  <1>10. ASSUME NEW p \in Names PROVE Ok(Tree(after, now[p])) /\ Black(Tree(after, now[p]))
    <2>1. CASE p = to
      BY <1>9, <2>1
    <2>2. CASE p # to
      BY <1>9, <2>2 DEF TreesFine
    <2> QED BY <2>1, <2>2
  <1> QED BY <1>3, <1>5, <1>9, <1>10 DEF TreesFine

(* What a step may do to the trees: it puts one in one place. *)
Puts(to, v) ==
    /\ TreesFine(nodes', roots')
    /\ \A p \in Names : Tree(nodes', roots'[p]) = IF p = to THEN v ELSE Tree(nodes, roots[p])

LEMMA AssignPuts ==
  ASSUME TreeInv, NEW to \in Names, NEW o, NEW v, Yields(nodes, Owners(roots), o, v),
         Ok(v), Black(v), Assign(to, o)
  PROVE  Puts(to, v)
  <1>1. nodes' = dec_node_ref(o.nodes, roots[to]) /\ roots' = [roots EXCEPT ![to] = o.node]
    BY DEF Assign
  <1>2. TreesFine(nodes, roots)
    BY DEF TreeInv
  <1> DEFINE after == nodes'
             now == roots'
  <1>3. /\ after = dec_node_ref(o.nodes, roots[to])
        /\ now = [p \in Names |-> now[p]] /\ now[to] = o.node
        /\ \A p \in Names : p # to => now[p] = roots[p]
    <2>1. roots \in [Names -> Nat]
      BY <1>2 DEF TreesFine
    <2> QED BY <1>1, <2>1
  <1> HIDE DEF after, now
  <1>4. /\ TreesFine(after, now)
        /\ \A p \in Names : Tree(after, now[p]) = IF p = to THEN v ELSE Tree(nodes, roots[p])
    BY <1>2, <1>3, Assigning
  <1> QED BY <1>4 DEF Puts, after, now

LEMMA InsertPuts ==
  ASSUME TreeInv, NEW from \in Names, NEW to \in Names, NEW piece \in Pieces,
         NEW at \in DOMAIN PiecesOf(roots[from]) \cup {node_length(nodes, roots[from])},
         insert(from, to, piece, at)
  PROVE  \E v : /\ Puts(to, v)
                /\ v.value = Values!InsertPiece(Tree(nodes, roots[from]).value, piece, at)
  <1> DEFINE n == roots[from]
             t == Tree(nodes, n)
             own == Owners(roots)
             o == insert_node(nodes, n, piece, at)
  <1>1. TreesFine(nodes, roots)
    BY DEF TreeInv
  <1>2. WellMade(nodes) /\ InUse(nodes, n) /\ Good(t) /\ own \in Owned
    BY <1>1, FineIs
  <1>3. Heap(nodes, own) /\ Ok(t) /\ Black(t)
    BY <1>1 DEF TreesFine
  <1>4. at \in Boundaries(t.value)
    BY <1>2, PiecesAre, TreesAreGood DEF Boundaries
  <1>5. PICK u : Yields(nodes, own, o, u) /\ Inserts(u, t, piece, at)
    BY <1>2, <1>3, <1>4, InsertYields
  <1>6. Good(u) /\ u.value = Values!InsertPiece(t.value, piece, at) /\ Ok(u)
    BY <1>3, <1>5 DEF Inserts, Grown
  <1>7. Assign(to, BlackRoot(o))
    BY DEF insert
  <1> HIDE DEF o, own, t, n
  <1>8. PICK v : /\ Yields(nodes, own, BlackRoot(o), v) /\ Good(v) /\ Ok(v) /\ Black(v)
                 /\ v.value = u.value
    BY <1>2, <1>5, <1>6, BlackRootYields
  <1>9. Puts(to, v)
    BY <1>7, <1>8, AssignPuts DEF own
  <1> QED BY <1>6, <1>8, <1>9 DEF t, n

LEMMA RemovePuts ==
  ASSUME TreeInv, NEW from \in Names, NEW to \in Names,
         NEW at \in DOMAIN PiecesOf(roots[from]), remove(from, to, at)
  PROVE  \E v : /\ Puts(to, v)
                /\ at \in DOMAIN Tree(nodes, roots[from]).value.pieces
                /\ v.value = Values!RemovePiece(Tree(nodes, roots[from]).value, at)
  <1> DEFINE n == roots[from]
             t == Tree(nodes, n)
             own == Owners(roots)
             o == delete_node(nodes, n, at)
  <1>1. TreesFine(nodes, roots)
    BY DEF TreeInv
  <1>2. WellMade(nodes) /\ InUse(nodes, n) /\ Good(t) /\ own \in Owned
    BY <1>1, FineIs
  <1>3. Heap(nodes, own) /\ Ok(t) /\ Black(t)
    BY <1>1 DEF TreesFine
  <1>4. at \in DOMAIN t.value.pieces
    BY <1>2, PiecesAre
  <1>5. n # NULL /\ Assign(to, BlackRoot(o))
    BY DEF remove
  <1>6. IsRootOf(nodes, n, t)
    BY <1>2, <1>5, RootIs
  <1>7. Gives(nodes, own, n, at, o)
    BY <1>3, <1>4, <1>6, DeleteGives
  <1>8. PICK u : /\ Yields(nodes, own, o, u) /\ Good(u) /\ Shrunk(t, u)
                 /\ u.value = Values!RemovePiece(t.value, at)
    BY <1>7 DEF Gives
  <1> HIDE DEF o, own, t, n
  <1>9. Ok(u) \/ HalfOk(u, u.left.height)
    BY <1>8 DEF Shrunk
  <1>10. PICK v : /\ Yields(nodes, own, BlackRoot(o), v) /\ Good(v) /\ Ok(v) /\ Black(v)
                  /\ v.value = u.value
    BY <1>2, <1>8, <1>9, BlackRootYields
  <1>11. Puts(to, v)
    BY <1>5, <1>10, AssignPuts DEF own
  <1> QED BY <1>4, <1>8, <1>10, <1>11 DEF t, n

LEMMA DupPuts ==
  ASSUME TreeInv, NEW from \in Names, NEW to \in Names, dup(from, to)
  PROVE  Puts(to, Tree(nodes, roots[from]))
  <1>1. TreesFine(nodes, roots)
    BY DEF TreeInv
  <1>2. /\ Heap(nodes, Owners(roots)) /\ InUse(nodes, roots[from])
        /\ Ok(Tree(nodes, roots[from])) /\ Black(Tree(nodes, roots[from]))
    BY <1>1, FineIs DEF TreesFine
  <1> DEFINE o == [nodes |-> take_node_ref(nodes, roots[from]), node |-> roots[from]]
  <1>3. Yields(nodes, Owners(roots), o, Tree(nodes, roots[from]))
    BY <1>2, TakeYields
  <1>4. Assign(to, o)
    BY DEF dup
  <1> HIDE DEF o
  <1> QED BY <1>2, <1>3, <1>4, AssignPuts

LEMMA DestroyPuts ==
  ASSUME TreeInv, NEW place \in Names, destroy(place)
  PROVE  Puts(place, Leaf)
  <1>1. Heap(nodes, Owners(roots))
    BY DEF TreeInv, TreesFine
  <1> DEFINE o == [nodes |-> nodes, node |-> NULL]
  <1>2. Yields(nodes, Owners(roots), o, Leaf)
    BY <1>1, NoneYields
  <1>3. Assign(place, o)
    BY DEF destroy
  <1> HIDE DEF o
  <1> QED BY <1>2, <1>3, LeafIs, AssignPuts

LEMMA NothingIsEmpty == Nothing = Values!EmptyRoot
  <1>1. << >> = [s \in {} |-> s]
    OBVIOUS
  <1> QED BY <1>1 DEF Nothing, Values!EmptyRoot, Values!NoPieces

(* Every step puts a result of an operation on one of the values in a place. *)
LEMMA StepPuts ==
  ASSUME TreeInv, Next
  PROVE  \E from, to \in Names : \E v :
            Puts(to, v) /\ v.value \in Values!Results(Tree(nodes, roots[from]).value)
  <1> PICK from \in Names, to \in Names :
          LET starts == DOMAIN PiecesOf(roots[from])
              length == node_length(nodes, roots[from])
          IN  \/ \E piece \in Pieces, at \in starts \cup {length} : insert(from, to, piece, at)
              \/ \E at \in starts : remove(from, to, at)
              \/ from # to /\ dup(from, to)
              \/ from = to /\ destroy(to)
    BY DEF Next
  <1> DEFINE t == Tree(nodes, roots[from])
  <1>0. WellMade(nodes) /\ InUse(nodes, roots[from])
    BY FineIs DEF TreeInv
  <1>1. ASSUME NEW piece \in Pieces,
               NEW at \in DOMAIN PiecesOf(roots[from]) \cup {node_length(nodes, roots[from])},
               insert(from, to, piece, at)
        PROVE  \E v : Puts(to, v) /\ v.value \in Values!Results(t.value)
    <2>1. PICK v : Puts(to, v) /\ v.value = Values!InsertPiece(t.value, piece, at)
      BY <1>1, InsertPuts
    <2>2. at \in Values!Boundaries(t.value)
      BY <1>0, PiecesAre, TreesAreGood DEF Values!Boundaries, Values!Starts
    <2> HIDE DEF t
    <2>3. v.value \in Values!Results(t.value)
      BY <2>1, <2>2 DEF Values!Results
    <2> QED BY <2>1, <2>3
  <1>2. ASSUME NEW at \in DOMAIN PiecesOf(roots[from]), remove(from, to, at)
        PROVE  \E v : Puts(to, v) /\ v.value \in Values!Results(t.value)
    <2>1. PICK v : /\ Puts(to, v) /\ v.value = Values!RemovePiece(t.value, at)
                   /\ at \in DOMAIN t.value.pieces
      BY <1>2, RemovePuts
    <2> HIDE DEF t
    <2>2. v.value \in Values!Results(t.value)
      BY <2>1 DEF Values!Results, Values!Starts
    <2> QED BY <2>1, <2>2
  <1>3. CASE dup(from, to)
    <2>1. Puts(to, t)
      BY <1>3, DupPuts
    <2>2. t.value \in Values!Results(t.value)
      BY DEF Values!Results
    <2> QED BY <2>1, <2>2
  <1>4. CASE destroy(to)
    <2>1. Puts(to, Leaf)
      BY <1>4, DestroyPuts
    <2>2. Leaf.value \in Values!Results(t.value)
      BY LeafIs, NothingIsEmpty DEF Values!Results
    <2> QED BY <2>1, <2>2
  <1> QED BY <1>1, <1>2, <1>3, <1>4

-----------------------------------------------------------------------------
(* The theorems *)

LEMMA InvInit == Init => TreeInv
  <1> SUFFICES ASSUME Init PROVE TreeInv
    OBVIOUS
  <1>1. nodes = << >> /\ roots = [p \in Names |-> NULL]
    BY DEF Init
  <1>2. roots \in [Names -> Nat]
    BY <1>1 DEF NULL
  <1>3. Live(nodes) = {} /\ nodes \in Store
    BY <1>1 DEF Live, Store
  <1>4. WellMade(nodes)
    BY <1>3 DEF WellMade
  <1>5. Owners(roots) \in Owned
    BY <1>2, OwnersAre
  <1>6. ASSUME NEW a \in Nat \ {0} PROVE Owners(roots)[a] = 0
    <2>1. \A p \in Names : roots[p] # a
      BY <1>1 DEF NULL
    <2> QED BY <1>2, <2>1, OwnersAre
  <1>7. Heap(nodes, Owners(roots))
    BY <1>3, <1>4, <1>5, <1>6 DEF Heap, Counted
  <1>8. \A p \in Names : Tree(nodes, roots[p]) = Leaf
    BY <1>1, <1>4, TreeAt
  <1> QED BY <1>2, <1>7, <1>8, LeafIs DEF TreeInv, TreesFine

LEMMA InvStep == TreeInv /\ [Next]_vars => TreeInv'
  <1>1. ASSUME TreeInv, Next PROVE TreeInv'
    BY <1>1, StepPuts DEF Puts, TreeInv
  <1>2. ASSUME TreeInv, UNCHANGED vars PROVE TreeInv'
    BY <1>2 DEF vars, TreeInv
  <1> QED BY <1>1, <1>2

(* The invariant of the red-black trees: every node is well made, with the  *)
(* metadata of its subtree, and counted once for every parent and place,  *)
(* and every place holds the root of a black, left-leaning tree.          *)
THEOREM TreesStayFine == Spec => []TreeInv
  BY InvInit, InvStep, PTL DEF Spec

(* Roots and children are nodes in use, or none, with their reference     *)
(* counts above zero: no freed node is referred to.                       *)
THEOREM NodesTyped == Spec => []TypeOK
  <1>1. TreeInv => TypeOK
    <2> SUFFICES ASSUME TreeInv PROVE TypeOK
      OBVIOUS
    <2>1. TreesFine(nodes, roots)
      BY DEF TreeInv
    <2>2. WellMade(nodes) /\ nodes \in Store /\ \A p \in Names : InUse(nodes, roots[p])
      BY <2>1, FineIs
    <2>3. roots \in [Names -> Used \cup {NULL}]
      <3>1. roots = [p \in Names |-> roots[p]]
        BY <2>1 DEF TreesFine
      <3> QED BY <2>2, <3>1 DEF InUse, Used
    <2>4. ASSUME NEW n \in Used
          PROVE  /\ nodes[n].color \in {"red", "black"}
                 /\ nodes[n].left \in Used \cup {NULL}
                 /\ nodes[n].right \in Used \cup {NULL}
                 /\ nodes[n].piece \in Pieces
                 /\ nodes[n].ref_count \in Nat \ {0}
      <3>1. n \in Live(nodes)
        BY DEF Used
      <3>2. Linked(nodes, n)
        BY <2>2, <3>1 DEF WellMade
      <3>3. nodes[n] \in NodeRecord /\ nodes[n].left \in Used \cup {NULL}
            /\ nodes[n].right \in Used \cup {NULL}
        BY <3>2 DEF Linked, Used
      <3>4. nodes[n].ref_count # 0
        BY <2>1, <3>1 DEF TreesFine, Heap, Counted
      <3> QED BY <3>3, <3>4 DEF NodeRecord, Colors
    <2> QED BY <2>3, <2>4 DEF TypeOK
  <1> QED BY <1>1, TreesStayFine, PTL

(* Every node in use can be reached from a root and is counted once for    *)
(* each parent and each place that refers to it: insertions, removals,    *)
(* copies and destructions lose no node and free none too early.           *)
THEOREM ReferencesStayCounted == Spec => []ReferencesCounted
  <1>1. TreeInv => ReferencesCounted
    <2> SUFFICES ASSUME TreeInv PROVE ReferencesCounted
      OBVIOUS
    <2>1. TreesFine(nodes, roots)
      BY DEF TreeInv
    <2>2. /\ WellMade(nodes) /\ nodes \in Store /\ Heap(nodes, Owners(roots))
          /\ roots \in [Names -> Nat] /\ \A p \in Names : InUse(nodes, roots[p])
      BY <2>1, FineIs DEF TreesFine
    <2>3. Reachable \subseteq Used
      BY <2>2, SubtreesAre DEF Reachable, Used
    <2>4. Used \subseteq Reachable
      <3>1. ASSUME NEW a \in Live(nodes), Owners(roots)[a] # 0 PROVE a \in Reachable
        <4>1. a \in Nat /\ a # NULL
          BY <2>2, LiveIs DEF NULL
        <4>2. PICK p \in Names : roots[p] = a
          BY <2>2, <3>1, <4>1, OwnersAre
        <4>3. a \in Subtree(roots[p])
          BY <2>2, <4>1, <4>2, SubtreesAre
        <4> QED BY <4>3 DEF Reachable
      <3>2. ASSUME NEW m \in Live(nodes), m \in Reachable
            PROVE  /\ nodes[m].left # NULL => nodes[m].left \in Reachable
                   /\ nodes[m].right # NULL => nodes[m].right \in Reachable
        <4>1. PICK p \in Names : m \in Subtree(roots[p])
          BY <3>2 DEF Reachable
        <4>2. /\ nodes[m].left # NULL => nodes[m].left \in Subtree(roots[p])
              /\ nodes[m].right # NULL => nodes[m].right \in Subtree(roots[p])
          BY <2>2, <4>1, SubtreesAre
        <4> QED BY <4>2 DEF Reachable
      <3> QED BY <2>2, <3>1, <3>2, FromOwned DEF Used
    <2>5. ASSUME NEW n \in Used
          PROVE  nodes[n].ref_count =
                     Cardinality({m \in Used : nodes[m].left = n})
                   + Cardinality({m \in Used : nodes[m].right = n})
                   + Cardinality({p \in Names : roots[p] = n})
      <3>1. n \in Live(nodes) /\ n \in Nat
        BY <2>2, LiveIs DEF Used
      <3>2. nodes[n].ref_count =
              Cardinality(LeftParents(nodes, n)) + Cardinality(RightParents(nodes, n)) + Owners(roots)[n]
        BY <2>2, <3>1 DEF Heap, Counted
      <3>3. Owners(roots)[n] = Cardinality({p \in Names : roots[p] = n})
        BY <3>1 DEF Owners
      <3> QED BY <3>2, <3>3 DEF LeftParents, RightParents, Used
    <2> QED BY <2>3, <2>4, <2>5 DEF ReferencesCounted
  <1> QED BY <1>1, TreesStayFine, PTL

(* Roots are black, all ways down from a node have equally many black      *)
(* nodes, and a red node is a left child without a red one, in every node *)
(* of every tree, however the trees share them.                           *)
THEOREM TreesStayBalanced == Spec => []Balanced
  <1>1. TreeInv => Balanced
    <2> SUFFICES ASSUME TreeInv PROVE Balanced
      OBVIOUS
    <2>1. TreesFine(nodes, roots)
      BY DEF TreeInv
    <2>2. /\ WellMade(nodes) /\ nodes \in Store /\ Heap(nodes, Owners(roots))
          /\ roots \in [Names -> Nat]
          /\ \A p \in Names : /\ InUse(nodes, roots[p]) /\ Good(Tree(nodes, roots[p]))
                             /\ Ok(Tree(nodes, roots[p])) /\ Black(Tree(nodes, roots[p]))
      BY <2>1, FineIs DEF TreesFine
    <2> DEFINE Fine == {n \in Live(nodes) : Ok(Tree(nodes, n))}
    <2>3. ASSUME NEW n \in Live(nodes)
          PROVE  /\ n # NULL /\ InUse(nodes, n) /\ IsRootOf(nodes, n, Tree(nodes, n))
                 /\ Good(Tree(nodes, n)) /\ Tree(nodes, n).kind = "node"
                 /\ InUse(nodes, nodes[n].left) /\ Tree(nodes, nodes[n].left) = Tree(nodes, n).left
                 /\ InUse(nodes, nodes[n].right) /\ Tree(nodes, nodes[n].right) = Tree(nodes, n).right
      <3>1. n # NULL /\ InUse(nodes, n)
        BY <2>2, LiveIs DEF InUse, NULL
      <3>2. IsRootOf(nodes, n, Tree(nodes, n))
        BY <2>2, <3>1, RootIs
      <3>3. Good(Tree(nodes, n))
        BY <2>2, <3>1, TreesAreGood
      <3> QED BY <3>1, <3>2, <3>3 DEF IsRootOf
    <2>4. Live(nodes) \subseteq Fine
      <3>1. ASSUME NEW a \in Live(nodes), Owners(roots)[a] # 0 PROVE a \in Fine
        <4>1. a \in Nat
          BY <2>2, LiveIs
        <4>2. PICK p \in Names : roots[p] = a
          BY <2>2, <3>1, <4>1, OwnersAre
        <4> QED BY <2>2, <4>2
      <3>2. ASSUME NEW m \in Live(nodes), m \in Fine
            PROVE  /\ nodes[m].left # NULL => nodes[m].left \in Fine
                   /\ nodes[m].right # NULL => nodes[m].right \in Fine
        <4>1. Ok(Tree(nodes, m).left) /\ Ok(Tree(nodes, m).right)
          BY <2>3, <3>2, OkIs
        <4> QED BY <2>3, <4>1 DEF InUse
      <3> HIDE DEF Fine
      <3> QED BY <2>2, <3>1, <3>2, FromOwned
    <2>5. ASSUME NEW p \in Names PROVE ~node_is_red(nodes, roots[p])
      <3>1. node_is_red(nodes, roots[p]) <=> Red(Tree(nodes, roots[p]))
        BY <2>2, RootIs
      <3> QED BY <2>2, <3>1, ColorsDiffer
    <2>6. ASSUME NEW n \in Used
          PROVE  /\ BlackHeight(nodes[n].left) = BlackHeight(nodes[n].right)
                 /\ ~node_is_red(nodes, nodes[n].right)
                 /\ nodes[n].color = "red" => ~node_is_red(nodes, nodes[n].left)
      <3> DEFINE t == Tree(nodes, n)
      <3>1. n \in Live(nodes) /\ Ok(t)
        BY <2>4 DEF Used
      <3>2. Good(t) /\ t.kind = "node" /\ IsRootOf(nodes, n, t)
        BY <2>3, <3>1
      <3>3. /\ t.left.height = t.right.height /\ ~Red(t.right)
            /\ Red(t) => ~Red(t.left)
        BY <3>1, <3>2, OkIs
      <3>4. BlackHeight(nodes[n].left) = t.left.height /\ BlackHeight(nodes[n].right) = t.right.height
        BY <2>2, <2>3, <3>1, HeightsAre
      <3>5. /\ node_is_red(nodes, nodes[n].left) <=> Red(t.left)
            /\ node_is_red(nodes, nodes[n].right) <=> Red(t.right)
        BY <2>2, <3>2, ChildrenAre
      <3>6. nodes[n].color = "red" <=> Red(t)
        BY <3>2 DEF IsRootOf, Red
      <3> QED BY <3>3, <3>4, <3>5, <3>6
    <2> QED BY <2>5, <2>6 DEF Balanced
  <1> QED BY <1>1, TreesStayFine, PTL

(* The values of the places, as they are and by their trees. *)
RootsValued ==
    [p \in Names |-> ValueOf(roots[p])] = [p \in Names |-> Tree(nodes, roots[p]).value]

LEMMA RootValues == TreeInv => RootsValued
  BY FineIs, ValuesAre DEF TreeInv, RootsValued

LEMMA RootValuesNext == TreeInv' => RootsValued'
  BY RootValues, PTL

(* The trees implement values: whatever nodes the trees share, and however *)
(* they are rotated, an operation gives a place the value that an insertion *)
(* or a removal of one piece makes of a value there is, and leaves the     *)
(* values of all other places as they are.                                *)
THEOREM TreesImplementValues == Spec => ImplementsValues
  <1>1. Init => Values!RootsInit
    <2> SUFFICES ASSUME Init PROVE Values!RootsInit
      OBVIOUS
    <2>1. TreeInv
      BY InvInit
    <2>2. WellMade(nodes) /\ roots = [p \in Names |-> NULL]
      BY <2>1, FineIs DEF TreeInv, Init
    <2>3. \A p \in Names : Tree(nodes, roots[p]).value = Values!EmptyRoot
      BY <2>2, TreeAt, LeafIs, NothingIsEmpty
    <2>4. [p \in Names |-> ValueOf(roots[p])] = [p \in Names |-> Values!EmptyRoot]
      BY <2>1, <2>3, RootValues DEF RootsValued
    <2> QED BY <2>4 DEF Values!RootsInit
  <1>2. TreeInv /\ [Next]_vars => [Values!RootsNext]_[p \in Names |-> ValueOf(roots[p])]
    <2> SUFFICES ASSUME TreeInv, [Next]_vars
                 PROVE  [Values!RootsNext]_[p \in Names |-> ValueOf(roots[p])]
      OBVIOUS
    <2> DEFINE old == [p \in Names |-> ValueOf(roots[p])]
               new == [p \in Names |-> ValueOf(roots[p])]'
    <2>1. TreeInv'
      BY InvStep
    <2>2. /\ old = [p \in Names |-> Tree(nodes, roots[p]).value]
          /\ new = [p \in Names |-> Tree(nodes', roots'[p]).value]
      BY <2>1, RootValues, RootValuesNext DEF RootsValued
    <2>3. CASE UNCHANGED vars
      <3>1. new = old
        BY <2>2, <2>3 DEF vars
      <3> QED BY <3>1
    <2>4. CASE Next
      <3>0. PICK from \in Names, to \in Names : \E v :
               Puts(to, v) /\ v.value \in Values!Results(Tree(nodes, roots[from]).value)
        BY <2>4, StepPuts
      <3>1. PICK v : Puts(to, v) /\ v.value \in Values!Results(Tree(nodes, roots[from]).value)
        BY <3>0
      <3>2. \A p \in Names : Tree(nodes', roots'[p]) = IF p = to THEN v ELSE Tree(nodes, roots[p])
        BY <3>1 DEF Puts
      <3>3. new = [old EXCEPT ![to] = v.value]
        BY <2>2, <3>2
      <3>4. v.value \in Values!Results(old[from])
        BY <2>2, <3>1
      <3> HIDE DEF old
      <3>5. new \in {[old EXCEPT ![to] = root] : root \in Values!Results(old[from])}
        BY <3>3, <3>4
      <3> QED BY <3>5 DEF Values!RootsNext, old
    <2> QED BY <2>3, <2>4
  <1> QED BY <1>1, <1>2, TreesStayFine, PTL DEF Spec, ImplementsValues, Values!RootsSpec

-----------------------------------------------------------------------------
(* The line feeds of the pieces before one *)

SumOver(fun, set) ==
    LET sum[s \in SUBSET set] ==
          IF s = {} THEN 0
          ELSE LET t == CHOOSE t \in s : TRUE
               IN  fun[t] + sum[s \ {t}]
    IN  sum[set]

(* A function that adds the values one by one is the sum. *)
LEMMA SumIs ==
  ASSUME NEW fun, NEW set, IsFiniteSet(set), NEW total, total[{}] = 0,
         \A s \in SUBSET set : \A t \in s :
            total[s] = fun[t] + total[s \ {t}]
  PROVE  SumOver(fun, set) = total[set]
  <1> DEFINE one(s) == CHOOSE t \in s : TRUE
             Next1(f, s) == IF s = {} THEN 0
                            ELSE fun[one(s)] + f[s \ {one(s)}]
             Shape1(f) == f = [s \in SUBSET set |-> Next1(f, s)]
             g == [s \in SUBSET set |-> total[s]]
  <1>1. \A s : s # {} => one(s) \in s
    OBVIOUS
  <1>2. ASSUME NEW s \in SUBSET set PROVE g[s] = Next1(g, s)
    <2>1. CASE s = {}
      BY <2>1
    <2>2. CASE s # {}
      <3>1. one(s) \in s /\ s \ {one(s)} \in SUBSET set
        BY <1>1, <2>2
      <3> HIDE DEF one
      <3>2. g[s] = total[s] /\ g[s \ {one(s)}] = total[s \ {one(s)}]
        BY <3>1
      <3> QED  BY <2>2, <3>1, <3>2
    <2> QED  BY <2>1, <2>2
  <1>3. g = [s \in SUBSET set |-> g[s]]
    OBVIOUS
  <1> HIDE DEF g
  <1>4. Shape1(g)
    <2> HIDE DEF Next1
    <2> QED  BY <1>2, <1>3
  <1>5. PICK sum : sum = CHOOSE f : Shape1(f)
    OBVIOUS
  <1>6. SumOver(fun, set) = sum[set]
    BY <1>5 DEF SumOver
  <1>7. Shape1(sum)
    <2> HIDE DEF Shape1
    <2> QED  BY <1>4, <1>5
  <1>8. \A s \in SUBSET set : sum[s] = Next1(sum, s)
    <2> HIDE DEF Next1
    <2> QED  BY <1>7
  <1> DEFINE N == {n \in Nat : \A s \in SUBSET set : Cardinality(s) = n => sum[s] = total[s]}
  <1>9. \A s \in SUBSET set : IsFiniteSet(s) /\ Cardinality(s) \in Nat
    BY FS_Subset, FS_CardinalityType
  <1>10. 0 \in N
    <2>1. ASSUME NEW s \in SUBSET set, Cardinality(s) = 0 PROVE sum[s] = total[s]
      <3>1. s = {}
        BY <1>9, <2>1, FS_EmptySet
      <3>2. sum[s] = 0
        BY <1>8, <3>1
      <3> QED  BY <3>1, <3>2
    <2> QED  BY <2>1
  <1>11. ASSUME NEW n \in Nat, n \in N PROVE n + 1 \in N
    <2>1. ASSUME NEW s \in SUBSET set, Cardinality(s) = n + 1 PROVE sum[s] = total[s]
      <3>1. s # {}
        BY <2>1, FS_EmptySet
      <3>2. one(s) \in s /\ s \ {one(s)} \in SUBSET set
        BY <1>1, <3>1
      <3>3. sum[s] = fun[one(s)] + sum[s \ {one(s)}]
        BY <1>8, <3>1
      <3> HIDE DEF one
      <3>4. Cardinality(s \ {one(s)}) = n
        <4> DEFINE t == one(s)
        <4>1. IsFiniteSet(s) /\ t \in s
          BY <1>9, <3>2
        <4> HIDE DEF t
        <4>2. Cardinality(s \ {t}) = Cardinality(s) - 1
          BY <4>1, FS_RemoveElement
        <4> QED BY <2>1, <4>2 DEF t
      <3>5. sum[s \ {one(s)}] = total[s \ {one(s)}]
        BY <1>11, <3>2, <3>4
      <3> QED  BY <3>2, <3>3, <3>5
    <2> QED  BY <2>1
  <1> HIDE DEF N
  <1>12. Nat \subseteq N
    BY <1>10, <1>11, Induction
  <1>13. Cardinality(set) \in N /\ set \in SUBSET set
    BY <1>9, <1>12
  <1> QED  BY <1>6, <1>13 DEF N

(* total adds the line feeds of sets of pieces of v. *)
Adds(total, v) ==
    /\ total \in [SUBSET DOMAIN v.pieces -> Nat]
    /\ total[{}] = 0
    /\ \A set \in SUBSET DOMAIN v.pieces : \A t \in set :
          total[set] = v.pieces[t].newline_count + total[set \ {t}]
    /\ total[DOMAIN v.pieces] = v.lf_count

Summed(v) == \E total : Adds(total, v)

Before(v, s) == {t \in DOMAIN v.pieces : t < s}

LEMMA FeedsAre ==
  ASSUME NEW v, GoodValue(v), NEW total, Adds(total, v), NEW s
  PROVE  FeedsBefore(v, s) = total[Before(v, s)]
  <1> DEFINE fun == [t \in DOMAIN v.pieces |-> v.pieces[t].newline_count]
             set == Before(v, s)
  <1>1. FeedsBefore(v, s) = SumOver(fun, set)
    BY Zenon DEF FeedsBefore, SumOver, Values!Starts, SumFunctionOnSet, FoldFunctionOnSet,
       MapThenFoldSet, Before
  <1>2. IsFiniteSet(set)
    <2>1. set \subseteq 0 .. v.length
      BY StartsBefore DEF Before, GoodValue
    <2>2. IsFiniteSet(0 .. v.length)
      BY FS_Interval DEF GoodValue
    <2> QED BY <2>1, <2>2, FS_Subset
  <1>3. total[{}] = 0 /\ set \subseteq DOMAIN v.pieces
    BY DEF Adds, Before
  <1>4. ASSUME NEW x \in SUBSET set, NEW t \in x
        PROVE  total[x] = fun[t] + total[x \ {t}]
    <2>1. x \in SUBSET DOMAIN v.pieces /\ t \in DOMAIN v.pieces
      BY <1>3
    <2>2. fun[t] = v.pieces[t].newline_count
      BY <2>1
    <2> QED BY <2>1, <2>2 DEF Adds
  <1> HIDE DEF fun, set
  <1>6. \A x \in SUBSET set : \A t \in x : total[x] = fun[t] + total[x \ {t}]
    BY <1>4
  <1>7. total[{}] = 0
    BY <1>3
  <1>5. SumOver(fun, set) = total[set]
    BY <1>2, <1>6, <1>7, SumIs
  <1> QED BY <1>1, <1>5 DEF set


LEMMA NothingSummed == Summed(Nothing)
  <1> DEFINE total == [set \in SUBSET DOMAIN Nothing.pieces |-> 0]
  <1>1. DOMAIN Nothing.pieces = {} /\ Nothing.lf_count = 0
    BY NothingIsGood DEF Nothing
  <1>2. SUBSET {} = {{}}
    OBVIOUS
  <1>3. total[{}] = 0 /\ total \in [SUBSET DOMAIN Nothing.pieces -> Nat]
    BY <1>1, <1>2
  <1>4. \A set \in SUBSET DOMAIN Nothing.pieces : \A t \in set : FALSE
    BY <1>1
  <1> HIDE DEF total
  <1>5. Adds(total, Nothing)
    BY <1>1, <1>3, <1>4 DEF Adds
  <1> QED BY <1>5 DEF Summed

(* The line feeds before a piece of a value that is joined of two. *)
LEMMA JoinedFeeds ==
  ASSUME NEW l, GoodValue(l), Summed(l), NEW p \in Pieces, NEW r, GoodValue(r), Summed(r),
         NEW v, v = JoinedValue(l, p, r)
  PROVE  /\ Summed(v)
         /\ \A s \in DOMAIN l.pieces : FeedsBefore(v, s) = FeedsBefore(l, s)
         /\ FeedsBefore(v, l.length) = l.lf_count
         /\ \A t \in DOMAIN r.pieces :
               FeedsBefore(v, l.length + p.length + t) = l.lf_count + p.newline_count + FeedsBefore(r, t)
  <1>1. IsJoined(v, l, p, r) /\ GoodValue(v)
    BY JoinedIs
  <1>2. PICK a : Adds(a, l)
    BY DEF Summed
  <1>3. PICK b : Adds(b, r)
    BY DEF Summed
  <1> DEFINE L == DOMAIN l.pieces
             R == DOMAIN r.pieces
             V == DOMAIN v.pieces
             here == l.length
             behind == l.length + p.length
             left(set) == set \cap L
             right(set) == {t \in R : behind + t \in set}
             mid(set) == IF here \in set THEN p.newline_count ELSE 0
             total == [set \in SUBSET V |-> a[left(set)] + mid(set) + b[right(set)]]
  <1>4. /\ here \in Nat /\ behind \in Nat /\ here < behind /\ p.newline_count \in Nat
        /\ \A s \in L : s \in Nat /\ s < here
        /\ \A t \in R : t \in Nat
    BY PieceIs, StartsBefore DEF GoodValue
  <1>5. /\ \A s : s \in V <=> s \in L \/ s = here \/ \E t \in R : s = behind + t
        /\ \A s \in L : v.pieces[s] = l.pieces[s]
        /\ v.pieces[here] = p
        /\ \A t \in R : v.pieces[behind + t] = r.pieces[t]
        /\ v.lf_count = l.lf_count + p.newline_count + r.lf_count
    BY <1>1, <1>4 DEF IsJoined
  <1>6. /\ a \in [SUBSET L -> Nat] /\ a[{}] = 0 /\ a[L] = l.lf_count
        /\ \A set \in SUBSET L : \A t \in set : a[set] = l.pieces[t].newline_count + a[set \ {t}]
    BY <1>2 DEF Adds
  <1>7. /\ b \in [SUBSET R -> Nat] /\ b[{}] = 0 /\ b[R] = r.lf_count
        /\ \A set \in SUBSET R : \A t \in set : b[set] = r.pieces[t].newline_count + b[set \ {t}]
    BY <1>3 DEF Adds
  <1>8. \A set : left(set) \in SUBSET L /\ right(set) \in SUBSET R
    OBVIOUS
  <1> HIDE DEF L, R, V, here, behind
  <1>9. \A set : a[left(set)] \in Nat /\ b[right(set)] \in Nat /\ mid(set) \in Nat
    BY <1>4, <1>6, <1>7, <1>8
  <1>10. \A set \in SUBSET V : total[set] = a[left(set)] + mid(set) + b[right(set)]
    <2> HIDE DEF left, right, mid
    <2> QED OBVIOUS
  <1>11. total \in [SUBSET V -> Nat]
    <2> HIDE DEF left, right, mid
    <2> QED BY <1>9
  <1> HIDE DEF total
  <1>12. total[{}] = 0
    <2>1. left({}) = {} /\ right({}) = {} /\ mid({}) = 0
      OBVIOUS
    <2>2. {} \in SUBSET V
      OBVIOUS
    <2> HIDE DEF left, right, mid
    <2>3. total[{}] = a[left({})] + mid({}) + b[right({})]
      BY <1>10, <2>2, Zenon
    <2>4. a[left({})] = 0 /\ b[right({})] = 0 /\ mid({}) = 0
      BY <2>1, <1>6, <1>7, Zenon
    <2> QED BY <2>3, <2>4
  <1>13. ASSUME NEW set \in SUBSET V, NEW x \in set
         PROVE  total[set] = v.pieces[x].newline_count + total[set \ {x}]
    <2> DEFINE rest == set \ {x}
    <2>1. rest \in SUBSET V
      OBVIOUS
    <2>2. CASE x \in L
      <3>1. x < here
        BY <1>4, <2>2
      <3>2. left(rest) = left(set) \ {x} /\ x \in left(set)
        BY <2>2
      <3>3. mid(rest) = mid(set)
        BY <1>4, <2>2, <3>1
      <3>4. right(rest) = right(set)
        <4>1. \A t \in R : behind + t # x
          BY <1>4, <2>2
        <4> QED BY <4>1
      <3> HIDE DEF left, right, mid
      <3>5. a[left(set)] = l.pieces[x].newline_count + a[left(rest)]
        BY <1>6, <1>8, <3>2
      <3>6. v.pieces[x] = l.pieces[x]
        BY <1>5, <2>2
      <3>7. l.pieces[x].newline_count \in Nat
        BY <2>2, StartsBefore, PieceIs DEF L
      <3> HIDE DEF rest
      <3>8. /\ total[set] = a[left(set)] + mid(set) + b[right(set)]
            /\ total[rest] = a[left(rest)] + mid(rest) + b[right(rest)]
        BY <1>10, <2>1
      <3>9. total[set] = v.pieces[x].newline_count + total[rest]
        BY <1>9, <3>3, <3>4, <3>5, <3>6, <3>7, <3>8
      <3> QED BY <3>9 DEF rest
    <2>3. CASE x = here
      <3>1. x \notin L /\ \A t \in R : behind + t # x
        BY <1>4, <2>3
      <3>2. left(rest) = left(set) /\ right(rest) = right(set)
        BY <3>1
      <3>3. mid(set) = p.newline_count /\ mid(rest) = 0
        BY <2>3
      <3> HIDE DEF left, right, mid
      <3>4. v.pieces[x] = p
        BY <1>5, <2>3
      <3> HIDE DEF rest
      <3>8. /\ total[set] = a[left(set)] + mid(set) + b[right(set)]
            /\ total[rest] = a[left(rest)] + mid(rest) + b[right(rest)]
        BY <1>10, <2>1
      <3>9. total[set] = v.pieces[x].newline_count + total[rest]
        BY <1>4, <1>9, <3>2, <3>3, <3>4, <3>8
      <3> QED BY <3>9 DEF rest
    <2>4. CASE \E t \in R : x = behind + t
      <3>0. PICK t \in R : x = behind + t
        BY <2>4
      <3>1. x # here /\ x \notin L
        BY <1>4, <3>0
      <3>2. left(rest) = left(set) /\ mid(rest) = mid(set)
        BY <3>1
      <3>3. right(rest) = right(set) \ {t} /\ t \in right(set)
        <4>1. \A u \in R : behind + u = x => u = t
          BY <1>4, <3>0
        <4> QED BY <3>0, <4>1
      <3> HIDE DEF left, right, mid
      <3>5. b[right(set)] = r.pieces[t].newline_count + b[right(rest)]
        BY <1>7, <1>8, <3>3
      <3>6. v.pieces[x] = r.pieces[t]
        BY <1>5, <3>0
      <3>7. r.pieces[t].newline_count \in Nat
        BY StartsBefore, PieceIs DEF R
      <3> HIDE DEF rest
      <3>8. /\ total[set] = a[left(set)] + mid(set) + b[right(set)]
            /\ total[rest] = a[left(rest)] + mid(rest) + b[right(rest)]
        BY <1>10, <2>1
      <3>9. total[set] = v.pieces[x].newline_count + total[rest]
        BY <1>9, <3>2, <3>5, <3>6, <3>7, <3>8
      <3> QED BY <3>9 DEF rest
    <2> QED BY <1>5, <2>2, <2>3, <2>4
  <1>14. total[V] = v.lf_count
    <2>1. left(V) = L /\ right(V) = R /\ mid(V) = p.newline_count
      BY <1>5
    <2> HIDE DEF left, right, mid
    <2>2. total[V] = a[left(V)] + mid(V) + b[right(V)]
      BY <1>10
    <2> QED BY <2>1, <2>2, <1>5, <1>6, <1>7
  <1>15. Adds(total, v)
    BY <1>11, <1>12, <1>13, <1>14 DEF Adds, V
  <1>16. \A s : FeedsBefore(v, s) = a[left(Before(v, s))] + mid(Before(v, s)) + b[right(Before(v, s))]
    <2> HIDE DEF left, right, mid
    <2>1. \A s : Before(v, s) \in SUBSET V
      BY DEF Before, V
    <2>2. \A s : FeedsBefore(v, s) = total[Before(v, s)]
      BY <1>1, <1>15, FeedsAre, Zenon
    <2> QED BY <1>10, <2>1, <2>2
  <1>17. ASSUME NEW s \in L PROVE FeedsBefore(v, s) = FeedsBefore(l, s)
    <2>1. left(Before(v, s)) = Before(l, s)
      BY <1>5 DEF Before, L, V
    <2>2. right(Before(v, s)) = {} /\ mid(Before(v, s)) = 0
      BY <1>4 DEF Before
    <2>3. FeedsBefore(l, s) = a[Before(l, s)]
      BY <1>2, FeedsAre, Zenon
    <2>4. a[Before(l, s)] \in Nat
      BY <1>9, <2>1
    <2> HIDE DEF left, right, mid
    <2>5. FeedsBefore(v, s) = a[left(Before(v, s))] + mid(Before(v, s)) + b[right(Before(v, s))]
      BY <1>16, Zenon
    <2>6. a[left(Before(v, s))] = FeedsBefore(l, s) /\ b[right(Before(v, s))] = 0
      BY <1>7, <2>1, <2>2, <2>3, Zenon
    <2>7. FeedsBefore(l, s) \in Nat
      BY <2>3, <2>4
    <2> QED BY <2>2, <2>5, <2>6, <2>7
  <1>18. FeedsBefore(v, here) = l.lf_count
    <2>1. left(Before(v, here)) = L
      BY <1>4, <1>5 DEF Before, V
    <2>2. right(Before(v, here)) = {} /\ mid(Before(v, here)) = 0
      BY <1>4 DEF Before
    <2>4. l.lf_count \in Nat
      BY DEF GoodValue
    <2> HIDE DEF left, right, mid
    <2>5. FeedsBefore(v, here)
            = a[left(Before(v, here))] + mid(Before(v, here)) + b[right(Before(v, here))]
      BY <1>16, Zenon
    <2>6. a[left(Before(v, here))] = l.lf_count /\ b[right(Before(v, here))] = 0
      BY <1>6, <1>7, <2>1, <2>2, Zenon
    <2> QED BY <2>2, <2>4, <2>5, <2>6
  <1>19. ASSUME NEW t \in R
         PROVE  FeedsBefore(v, behind + t) = l.lf_count + p.newline_count + FeedsBefore(r, t)
    <2>1. left(Before(v, behind + t)) = L
      BY <1>4, <1>5 DEF Before, V
    <2>2. right(Before(v, behind + t)) = Before(r, t)
      <3>1. \A u \in R : behind + u \in V /\ (behind + u < behind + t <=> u < t)
        BY <1>4, <1>5
      <3> QED BY <3>1 DEF Before, V, R
    <2>5. mid(Before(v, behind + t)) = p.newline_count
      <3>1. here \in V /\ here < behind + t
        BY <1>4, <1>5
      <3> QED BY <3>1 DEF Before, V
    <2>3. FeedsBefore(r, t) = b[Before(r, t)]
      BY <1>3, FeedsAre, Zenon
    <2> HIDE DEF left, right, mid
    <2> QED BY <1>6, <1>16, <2>1, <2>2, <2>3, <2>5
  <1> QED BY <1>15, <1>17, <1>18, <1>19 DEF Summed, L, R, here, behind


-----------------------------------------------------------------------------
(* Where the descents end *)

Value(n) == Tree(nodes, n).value

LEMMA PartsAre ==
  ASSUME WellMade(nodes), NEW m, InUse(nodes, m), m # NULL
  PROVE  /\ m \in Live(nodes) /\ nodes[m].piece \in Pieces
         /\ InUse(nodes, nodes[m].left) /\ InUse(nodes, nodes[m].right)
         /\ nodes[m].left \in 0 .. Len(nodes) /\ nodes[m].left < m
         /\ nodes[m].right \in 0 .. Len(nodes) /\ nodes[m].right < m
         /\ GoodValue(Value(nodes[m].left)) /\ GoodValue(Value(nodes[m].right))
         /\ Value(m) = JoinedValue(Value(nodes[m].left), nodes[m].piece, Value(nodes[m].right))
         /\ node_length(nodes, nodes[m].left) = Value(nodes[m].left).length
         /\ node_lf_count(nodes, nodes[m].left) = Value(nodes[m].left).lf_count
  <1> DEFINE l == nodes[m].left
             r == nodes[m].right
             p == nodes[m].piece
  <1>1. Len(nodes) \in Nat /\ nodes \in Store
    BY ChildrenAreOlder
  <1>2. m \in Live(nodes)
    BY DEF InUse
  <1>3. Linked(nodes, m) /\ m \in 1 .. Len(nodes)
    BY <1>1, <1>2, LiveIs DEF WellMade
  <1>4. InUse(nodes, l) /\ l < m /\ InUse(nodes, r) /\ r < m /\ p \in Pieces /\ l \in Nat /\ r \in Nat
    BY <1>3 DEF Linked, InUse, NodeRecord
  <1>5. l \in 0 .. Len(nodes) /\ r \in 0 .. Len(nodes)
    BY <1>1, <1>3, <1>4
  <1>6. Good(Tree(nodes, l)) /\ Good(Tree(nodes, r))
    BY <1>4, TreesAreGood
  <1>7. GoodValue(Value(l)) /\ GoodValue(Value(r))
    BY <1>6, GoodIs DEF Value
  <1>8. Tree(nodes, m) = Mk(nodes[m].color, Tree(nodes, l), p, Tree(nodes, r))
    BY <1>2, TreeAt
  <1>9. Value(m) = JoinedValue(Value(l), p, Value(r))
    <2> HIDE DEF l, r, p
    <2> QED BY <1>8, MkIs DEF Value
  <1>10. node_length(nodes, l) = Value(l).length /\ node_lf_count(nodes, l) = Value(l).lf_count
    BY <1>4, TreesAreGood DEF Value
  <1> QED BY <1>2, <1>4, <1>5, <1>7, <1>9, <1>10

LEMMA AtNull ==
  ASSUME WellMade(nodes)
  PROVE  Value(NULL) = Nothing
  BY TreeAt, LeafIs DEF Value

(* Every value of a tree sums up its line feeds. *)
LEMMA TreesAreSummed ==
  ASSUME WellMade(nodes), NEW n, InUse(nodes, n)
  PROVE  Summed(Value(n)) /\ GoodValue(Value(n))
  <1> DEFINE S == {a \in 0 .. Len(nodes) : InUse(nodes, a) => Summed(Value(a))}
  <1>1. Len(nodes) \in Nat /\ nodes \in Store
    BY ChildrenAreOlder
  <1>2. n \in 0 .. Len(nodes)
    BY <1>1, LiveIs DEF InUse, NULL
  <1>3. ASSUME NEW a \in 0 .. Len(nodes), \A b \in 0 .. Len(nodes) : b < a => b \in S
        PROVE  a \in S
    <2> SUFFICES ASSUME InUse(nodes, a) PROVE Summed(Value(a))
      OBVIOUS
    <2>1. CASE a = NULL
      BY <2>1, AtNull, NothingSummed
    <2>2. CASE a # NULL
      <3> DEFINE l == nodes[a].left
                 r == nodes[a].right
                 p == nodes[a].piece
      <3>1. /\ InUse(nodes, l) /\ l \in 0 .. Len(nodes) /\ l < a
            /\ InUse(nodes, r) /\ r \in 0 .. Len(nodes) /\ r < a
            /\ GoodValue(Value(l)) /\ GoodValue(Value(r)) /\ p \in Pieces
            /\ Value(a) = JoinedValue(Value(l), p, Value(r))
        BY <2>2, PartsAre
      <3>2. Summed(Value(l)) /\ Summed(Value(r))
        BY <1>3, <3>1
      <3> HIDE DEF l, r, p
      <3> QED BY <3>1, <3>2, JoinedFeeds
    <2> QED BY <2>1, <2>2
  <1>4. 0 .. Len(nodes) \subseteq S
    <2> HIDE DEF S
    <2> QED BY <1>1, <1>3, AddressInduction
  <1>5. GoodValue(Value(n))
    BY TreesAreGood, GoodIs DEF Value
  <1> QED BY <1>2, <1>4, <1>5

(* o is the place of the offset `to' in v. *)
FoundAt(o, v, to, from) ==
    IF to < v.length
    THEN \E s \in DOMAIN v.pieces, m \in Live(nodes) :
            /\ o = Found(m, from + s, to - s) /\ nodes[m].piece = v.pieces[s]
            /\ s <= to /\ to < s + v.pieces[s].length
    ELSE o.node = NULL

LEMMA FoundInParts ==
  ASSUME NEW l, GoodValue(l), NEW p \in Pieces, NEW r, GoodValue(r),
         NEW v, v = JoinedValue(l, p, r), NEW to \in Nat, NEW from \in Int, NEW o
  PROVE  /\ to < l.length /\ FoundAt(o, l, to, from) => FoundAt(o, v, to, from)
         /\ \A m \in Live(nodes) :
               /\ l.length <= to /\ to < l.length + p.length
               /\ nodes[m].piece = p /\ o = Found(m, from + l.length, to - l.length)
               => FoundAt(o, v, to, from)
         /\ /\ l.length + p.length <= to
            /\ FoundAt(o, r, to - l.length - p.length, from + l.length + p.length)
            => FoundAt(o, v, to, from)
  <1>1. IsJoined(v, l, p, r)
    BY JoinedIs
  <1>2. /\ v.length = l.length + p.length + r.length
        /\ \A s \in DOMAIN l.pieces : s \in DOMAIN v.pieces /\ v.pieces[s] = l.pieces[s] /\ s \in Nat
        /\ l.length \in DOMAIN v.pieces /\ v.pieces[l.length] = p
        /\ \A t \in DOMAIN r.pieces :
              /\ l.length + p.length + t \in DOMAIN v.pieces
              /\ v.pieces[l.length + p.length + t] = r.pieces[t] /\ t \in Nat
    BY <1>1, StartsBefore DEF IsJoined
  <1>3. l.length \in Nat /\ p.length \in Nat /\ r.length \in Nat /\ p.length > 0
    BY PieceIs DEF GoodValue
  <1>4. ASSUME to < l.length, FoundAt(o, l, to, from) PROVE FoundAt(o, v, to, from)
    BY <1>2, <1>3, <1>4 DEF FoundAt
  <1>5. ASSUME NEW m \in Live(nodes), l.length <= to, to < l.length + p.length,
               nodes[m].piece = p, o = Found(m, from + l.length, to - l.length)
        PROVE  FoundAt(o, v, to, from)
    BY <1>2, <1>3, <1>5 DEF FoundAt
  <1>6. ASSUME l.length + p.length <= to,
               FoundAt(o, r, to - l.length - p.length, from + l.length + p.length)
        PROVE  FoundAt(o, v, to, from)
    <2>1. CASE to < v.length
      <3>1. to - l.length - p.length < r.length
        BY <1>2, <1>3, <2>1
      <3>2. PICK t \in DOMAIN r.pieces, m \in Live(nodes) :
              /\ o = Found(m, from + l.length + p.length + t, to - l.length - p.length - t)
              /\ nodes[m].piece = r.pieces[t]
              /\ t <= to - l.length - p.length
              /\ to - l.length - p.length < t + r.pieces[t].length
        BY <1>6, <3>1 DEF FoundAt
      <3> DEFINE s == l.length + p.length + t
      <3>3. s \in DOMAIN v.pieces /\ v.pieces[s] = r.pieces[t] /\ t \in Nat
        BY <1>2
      <3>4. r.pieces[t].length \in Nat
        BY PieceIs, StartsBefore
      <3>5. from + l.length + p.length + t = from + s /\ to - l.length - p.length - t = to - s
        BY <1>3, <3>3
      <3>6. s <= to /\ to < s + v.pieces[s].length
        BY <1>3, <3>2, <3>3, <3>4
      <3> HIDE DEF s
      <3> QED BY <2>1, <3>2, <3>3, <3>5, <3>6 DEF FoundAt
    <2>2. CASE ~(to < v.length)
      <3>1. ~(to - l.length - p.length < r.length)
        BY <1>2, <1>3, <2>2
      <3> QED BY <1>6, <2>2, <3>1 DEF FoundAt
    <2> QED BY <2>1, <2>2
  <1> QED BY <1>4, <1>5, <1>6


(* The descent by lengths finds the piece that holds the offset. *)
LEMMA FindsPiece ==
  ASSUME WellMade(nodes), NEW n, InUse(nodes, n)
  PROVE  \A to \in Nat, from \in Int : FoundAt(find_node(n, to, from), Value(n), to, from)
  <1> DEFINE f == CHOOSE f : FindsUp(f, nodes, Len(nodes))
             S == {m \in 0 .. Len(nodes) : InUse(nodes, m) =>
                      \A to \in Nat, from \in Int : FoundAt(f[m][to][from], Value(m), to, from)}
  <1>1. Older(nodes) /\ Len(nodes) \in Nat /\ nodes \in Store
    BY ChildrenAreOlder
  <1>2. n \in 0 .. Len(nodes)
    BY <1>1, LiveIs DEF InUse, NULL
  <1>3. FindsUp(f, nodes, Len(nodes))
    BY <1>1, FunctionsExist, Zenon
  <1>4. \A to, from : find_node(n, to, from) = f[n][to][from]
    BY Zenon DEF find_node, FindsUp, FindStep, Addresses
  <1> HIDE DEF f
  <1>5. \A m \in 0 .. Len(nodes) : \A to \in Int, from \in Int :
           f[m][to][from] =
             LET here == node_length(nodes, nodes[m].left)
                 size == nodes[m].piece.length
             IN  IF m = NULL THEN Found(NULL, from, 0)
                 ELSE IF to < here THEN f[nodes[m].left][to][from]
                 ELSE IF to < here + size THEN Found(m, from + here, to - here)
                 ELSE f[nodes[m].right][to - here - size][from + here + size]
    <2> DEFINE cell(m, to, from) ==
             LET here == node_length(nodes, nodes[m].left)
                 size == nodes[m].piece.length
             IN  IF m = NULL THEN Found(NULL, from, 0)
                 ELSE IF to < here THEN f[nodes[m].left][to][from]
                 ELSE IF to < here + size THEN Found(m, from + here, to - here)
                 ELSE f[nodes[m].right][to - here - size][from + here + size]
               row(m) == [to \in Int |-> [from \in Int |-> cell(m, to, from)]]
    <2>1. f = [m \in 0 .. Len(nodes) |-> row(m)]
      BY <1>3, Zenon DEF FindsUp, FindStep
    <2> HIDE DEF cell
    <2>2. \A m, to, from : to \in Int /\ from \in Int => row(m)[to][from] = cell(m, to, from)
      OBVIOUS
    <2> HIDE DEF row
    <2>3. \A m \in 0 .. Len(nodes) : f[m] = row(m)
      BY <2>1
    <2>4. \A m \in 0 .. Len(nodes) : \A to \in Int, from \in Int : f[m][to][from] = cell(m, to, from)
      BY <2>2, <2>3
    <2> QED BY <2>4, Zenon DEF cell
  <1>6. ASSUME NEW m \in 0 .. Len(nodes), \A b \in 0 .. Len(nodes) : b < m => b \in S,
               InUse(nodes, m), NEW to \in Nat, NEW from \in Int
        PROVE  FoundAt(f[m][to][from], Value(m), to, from)
    <2>1. CASE m = NULL
      <3>1. f[m][to][from] = Found(NULL, from, 0)
        BY <1>5, <2>1
      <3>2. ~(to < Value(m).length)
        BY <2>1, AtNull, NothingIsGood
      <3> QED BY <3>1, <3>2 DEF FoundAt, Found, NULL
    <2>2. CASE m # NULL
      <3> DEFINE l == nodes[m].left
                 r == nodes[m].right
                 p == nodes[m].piece
                 u == Value(l)
                 w == Value(r)
      <3>1. /\ InUse(nodes, l) /\ l \in 0 .. Len(nodes) /\ l < m
            /\ InUse(nodes, r) /\ r \in 0 .. Len(nodes) /\ r < m
            /\ GoodValue(u) /\ GoodValue(w) /\ p \in Pieces /\ m \in Live(nodes)
            /\ Value(m) = JoinedValue(u, p, w)
            /\ node_length(nodes, l) = u.length
        BY <1>6, <2>2, PartsAre
      <3>2. f[m][to][from] =
              IF to < u.length THEN f[l][to][from]
              ELSE IF to < u.length + p.length THEN Found(m, from + u.length, to - u.length)
              ELSE f[r][to - u.length - p.length][from + u.length + p.length]
        <4>1. to \in Int
          OBVIOUS
        <4> HIDE DEF u
        <4> QED BY <1>5, <2>2, <3>1, <4>1
      <3>3. /\ \A a \in Nat, b \in Int : FoundAt(f[l][a][b], u, a, b)
            /\ \A a \in Nat, b \in Int : FoundAt(f[r][a][b], w, a, b)
        BY <1>6, <3>1
      <3>4. u.length \in Nat /\ p.length \in Nat
        BY <3>1, PieceIs DEF GoodValue
      <3>5. p = nodes[m].piece
        OBVIOUS
      <3> HIDE DEF l, r, p, u, w
      <3>6. CASE to < u.length
        BY <3>1, <3>2, <3>3, <3>6, FoundInParts
      <3>7. CASE u.length <= to /\ to < u.length + p.length
        <4>1. f[m][to][from] = Found(m, from + u.length, to - u.length)
          BY <3>2, <3>4, <3>7
        <4> QED BY <3>1, <3>5, <3>7, <4>1, FoundInParts
      <3>8. CASE u.length + p.length <= to
        <4>1. f[m][to][from] = f[r][to - u.length - p.length][from + u.length + p.length]
          BY <3>2, <3>4, <3>8
        <4>2. to - u.length - p.length \in Nat /\ from + u.length + p.length \in Int
          BY <3>4, <3>8
        <4>3. FoundAt(f[m][to][from], w, to - u.length - p.length, from + u.length + p.length)
          BY <3>3, <4>1, <4>2
        <4> QED BY <3>1, <3>8, <4>3, FoundInParts
      <3> QED BY <3>4, <3>6, <3>7, <3>8
    <2> QED BY <2>1, <2>2
  <1>7. 0 .. Len(nodes) \subseteq S
    <2>1. ASSUME NEW m \in 0 .. Len(nodes), \A b \in 0 .. Len(nodes) : b < m => b \in S
          PROVE  m \in S
      BY <1>6, <2>1
    <2> HIDE DEF S
    <2> QED BY <1>1, <2>1, AddressInduction
  <1> QED BY <1>2, <1>4, <1>7

(* The pieces of a value do not overlap, so one of them holds the offset. *)
LEMMA OnePieceHolds ==
  ASSUME NEW v, GoodValue(v), NEW offset \in Nat, NEW s \in DOMAIN v.pieces,
         s <= offset, offset < s + v.pieces[s].length
  PROVE  LET there == Values!find_node(v, offset)
         IN  /\ there.piece = v.pieces[s] /\ there.start_offset = s
             /\ there.remainder = offset - s
  <1> DEFINE at(x) == [piece |-> v.pieces[x], start_offset |-> x, remainder |-> offset - x]
             holds(y) == 0 <= y.remainder /\ y.remainder < y.piece.length
             places == {at(x) : x \in DOMAIN v.pieces}
             there == CHOOSE y \in places : holds(y)
  <1>1. Values!find_node(v, offset) = there
    BY DEF Values!find_node, Values!Starts
  <1>2. \A x \in DOMAIN v.pieces : x \in Nat /\ v.pieces[x].length \in Nat
    BY StartsBefore, PieceIs
  <1>3. at(s) \in places /\ holds(at(s))
    BY <1>2
  <1>4. ASSUME NEW y \in places, holds(y) PROVE y = at(s)
    <2>1. PICK x \in DOMAIN v.pieces : y = at(x)
      OBVIOUS
    <2>2. x <= offset /\ offset < x + v.pieces[x].length
      BY <1>2, <1>4, <2>1
    <2>3. /\ x < s => x + v.pieces[x].length <= s
          /\ s < x => s + v.pieces[s].length <= x
      BY DEF GoodValue
    <2>4. x = s
      BY <1>2, <2>2, <2>3
    <2> QED BY <2>1, <2>4
  <1> HIDE DEF places, holds
  <1>5. there = at(s)
    <2> HIDE DEF at
    <2>1. there \in places /\ holds(there)
      BY <1>3
    <2> QED BY <1>4, <2>1
  <1>6. Values!find_node(v, offset) = at(s)
    BY <1>1, <1>5
  <1>7. at(s).piece = v.pieces[s] /\ at(s).start_offset = s /\ at(s).remainder = offset - s
    OBVIOUS
  <1> HIDE DEF at
  <1> QED BY <1>6, <1>7


LEMMA FeedsAreNumbers ==
  ASSUME NEW v, GoodValue(v), Summed(v), NEW s
  PROVE  FeedsBefore(v, s) \in Nat
  <1>1. PICK total : Adds(total, v)
    BY DEF Summed
  <1>2. FeedsBefore(v, s) = total[Before(v, s)]
    BY <1>1, FeedsAre, Zenon
  <1>3. Before(v, s) \in SUBSET DOMAIN v.pieces /\ total \in [SUBSET DOMAIN v.pieces -> Nat]
    BY <1>1 DEF Before, Adds
  <1> QED BY <1>2, <1>3

(* o is the place of a line feed in v. *)
LineAt(o, v, line, from) ==
    IF line <= v.lf_count
    THEN \E s \in DOMAIN v.pieces, m \in Live(nodes) :
            /\ o = Found(m, from + s, line - FeedsBefore(v, s)) /\ nodes[m].piece = v.pieces[s]
            /\ line - FeedsBefore(v, s) \in 1 .. v.pieces[s].newline_count
    ELSE o.node = NULL

LEMMA LineInParts ==
  ASSUME NEW l, GoodValue(l), Summed(l), NEW p \in Pieces, NEW r, GoodValue(r), Summed(r),
         NEW v, v = JoinedValue(l, p, r), NEW line \in Nat, NEW from \in Int, NEW o
  PROVE  /\ line <= l.lf_count /\ LineAt(o, l, line, from) => LineAt(o, v, line, from)
         /\ \A m \in Live(nodes) :
               /\ l.lf_count < line /\ line <= l.lf_count + p.newline_count
               /\ nodes[m].piece = p /\ o = Found(m, from + l.length, line - l.lf_count)
               => LineAt(o, v, line, from)
         /\ /\ l.lf_count + p.newline_count < line
            /\ LineAt(o, r, line - l.lf_count - p.newline_count, from + l.length + p.length)
            => LineAt(o, v, line, from)
  <1>1. IsJoined(v, l, p, r)
    BY JoinedIs
  <1>2. /\ v.lf_count = l.lf_count + p.newline_count + r.lf_count
        /\ \A s \in DOMAIN l.pieces : s \in DOMAIN v.pieces /\ v.pieces[s] = l.pieces[s] /\ s \in Nat
        /\ l.length \in DOMAIN v.pieces /\ v.pieces[l.length] = p
        /\ \A t \in DOMAIN r.pieces :
              /\ l.length + p.length + t \in DOMAIN v.pieces
              /\ v.pieces[l.length + p.length + t] = r.pieces[t] /\ t \in Nat
    BY <1>1, StartsBefore DEF IsJoined
  <1>3. /\ \A s \in DOMAIN l.pieces : FeedsBefore(v, s) = FeedsBefore(l, s)
        /\ FeedsBefore(v, l.length) = l.lf_count
        /\ \A t \in DOMAIN r.pieces :
              FeedsBefore(v, l.length + p.length + t)
                = l.lf_count + p.newline_count + FeedsBefore(r, t)
    BY JoinedFeeds
  <1>4. /\ l.length \in Nat /\ p.length \in Nat /\ l.lf_count \in Nat /\ r.lf_count \in Nat
        /\ p.newline_count \in Nat
    BY PieceIs DEF GoodValue
  <1>5. ASSUME line <= l.lf_count, LineAt(o, l, line, from) PROVE LineAt(o, v, line, from)
    BY <1>2, <1>3, <1>4, <1>5 DEF LineAt
  <1>6. ASSUME NEW m \in Live(nodes), l.lf_count < line, line <= l.lf_count + p.newline_count,
               nodes[m].piece = p, o = Found(m, from + l.length, line - l.lf_count)
        PROVE  LineAt(o, v, line, from)
    <2>1. line <= v.lf_count /\ line - l.lf_count \in 1 .. p.newline_count
      BY <1>2, <1>4, <1>6
    <2> QED BY <1>2, <1>3, <1>6, <2>1 DEF LineAt
  <1>7. ASSUME l.lf_count + p.newline_count < line,
               LineAt(o, r, line - l.lf_count - p.newline_count, from + l.length + p.length)
        PROVE  LineAt(o, v, line, from)
    <2>1. CASE line <= v.lf_count
      <3>1. line - l.lf_count - p.newline_count <= r.lf_count
        BY <1>2, <1>4, <2>1
      <3>2. PICK t \in DOMAIN r.pieces, m \in Live(nodes) :
              /\ o = Found(m, from + l.length + p.length + t,
                           line - l.lf_count - p.newline_count - FeedsBefore(r, t))
              /\ nodes[m].piece = r.pieces[t]
              /\ line - l.lf_count - p.newline_count - FeedsBefore(r, t)
                   \in 1 .. r.pieces[t].newline_count
        BY <1>7, <3>1 DEF LineAt
      <3> DEFINE s == l.length + p.length + t
      <3>3. /\ s \in DOMAIN v.pieces /\ v.pieces[s] = r.pieces[t] /\ t \in Nat
            /\ FeedsBefore(v, s) = l.lf_count + p.newline_count + FeedsBefore(r, t)
        BY <1>2, <1>3
      <3>4. FeedsBefore(r, t) \in Nat
        BY FeedsAreNumbers
      <3>5. from + l.length + p.length + t = from + s
        BY <1>4, <3>3
      <3>6. line - l.lf_count - p.newline_count - FeedsBefore(r, t) = line - FeedsBefore(v, s)
        BY <1>4, <3>3, <3>4
      <3> HIDE DEF s
      <3> QED BY <2>1, <3>2, <3>3, <3>5, <3>6 DEF LineAt
    <2>2. CASE ~(line <= v.lf_count)
      <3>1. ~(line - l.lf_count - p.newline_count <= r.lf_count)
        BY <1>2, <1>4, <2>2
      <3> QED BY <1>7, <2>2, <3>1 DEF LineAt
    <2> QED BY <2>1, <2>2
  <1> QED BY <1>5, <1>6, <1>7

(* The descent by line feeds finds the piece that holds the line feed. *)
LEMMA FindsLine ==
  ASSUME WellMade(nodes), NEW n, InUse(nodes, n)
  PROVE  \A line \in Nat \ {0}, from \in Int : LineAt(find_line(n, line, from), Value(n), line, from)
  <1> DEFINE f == CHOOSE f : LinesUp(f, nodes, Len(nodes))
             S == {m \in 0 .. Len(nodes) : InUse(nodes, m) =>
                      \A line \in Nat \ {0}, from \in Int : LineAt(f[m][line][from], Value(m), line, from)}
  <1>1. Older(nodes) /\ Len(nodes) \in Nat /\ nodes \in Store
    BY ChildrenAreOlder
  <1>2. n \in 0 .. Len(nodes)
    BY <1>1, LiveIs DEF InUse, NULL
  <1>3. LinesUp(f, nodes, Len(nodes))
    BY <1>1, FunctionsExist, Zenon
  <1>4. \A line, from : find_line(n, line, from) = f[n][line][from]
    BY Zenon DEF find_line, LinesUp, LineStep, Addresses
  <1> HIDE DEF f
  <1>5. \A m \in 0 .. Len(nodes) : \A line \in Int, from \in Int :
           f[m][line][from] =
             LET before == node_lf_count(nodes, nodes[m].left)
                 here   == node_length(nodes, nodes[m].left)
                 feeds  == nodes[m].piece.newline_count
             IN  IF m = NULL THEN Found(NULL, from, 0)
                 ELSE IF line <= before THEN f[nodes[m].left][line][from]
                 ELSE IF line <= before + feeds THEN Found(m, from + here, line - before)
                 ELSE f[nodes[m].right][line - before - feeds]
                       [from + here + nodes[m].piece.length]
    <2> DEFINE cell(m, line, from) ==
             LET before == node_lf_count(nodes, nodes[m].left)
                 here   == node_length(nodes, nodes[m].left)
                 feeds  == nodes[m].piece.newline_count
             IN  IF m = NULL THEN Found(NULL, from, 0)
                 ELSE IF line <= before THEN f[nodes[m].left][line][from]
                 ELSE IF line <= before + feeds THEN Found(m, from + here, line - before)
                 ELSE f[nodes[m].right][line - before - feeds]
                       [from + here + nodes[m].piece.length]
               row(m) == [line \in Int |-> [from \in Int |-> cell(m, line, from)]]
    <2>1. f = [m \in 0 .. Len(nodes) |-> row(m)]
      BY <1>3, Zenon DEF LinesUp, LineStep
    <2> HIDE DEF cell
    <2>2. \A m, line, from : line \in Int /\ from \in Int => row(m)[line][from] = cell(m, line, from)
      OBVIOUS
    <2> HIDE DEF row
    <2>3. \A m \in 0 .. Len(nodes) : f[m] = row(m)
      BY <2>1
    <2>4. \A m \in 0 .. Len(nodes) : \A line \in Int, from \in Int : f[m][line][from] = cell(m, line, from)
      BY <2>2, <2>3
    <2> QED BY <2>4, Zenon DEF cell
  <1>6. ASSUME NEW m \in 0 .. Len(nodes), \A b \in 0 .. Len(nodes) : b < m => b \in S,
               InUse(nodes, m), NEW line \in Nat \ {0}, NEW from \in Int
        PROVE  LineAt(f[m][line][from], Value(m), line, from)
    <2>1. CASE m = NULL
      <3>0. line \in Int
        OBVIOUS
      <3>1. f[m][line][from] = Found(NULL, from, 0)
        BY <1>5, <2>1, <3>0
      <3>2. ~(line <= Value(m).lf_count)
        BY <2>1, AtNull DEF Nothing
      <3> QED BY <3>1, <3>2 DEF LineAt, Found, NULL
    <2>2. CASE m # NULL
      <3> DEFINE l == nodes[m].left
                 r == nodes[m].right
                 p == nodes[m].piece
                 u == Value(l)
                 w == Value(r)
      <3>1. /\ InUse(nodes, l) /\ l \in 0 .. Len(nodes) /\ l < m
            /\ InUse(nodes, r) /\ r \in 0 .. Len(nodes) /\ r < m
            /\ GoodValue(u) /\ GoodValue(w) /\ p \in Pieces /\ m \in Live(nodes)
            /\ Value(m) = JoinedValue(u, p, w)
            /\ node_length(nodes, l) = u.length /\ node_lf_count(nodes, l) = u.lf_count
        BY <1>6, <2>2, PartsAre
      <3>9. Summed(u) /\ Summed(w)
        BY <3>1, TreesAreSummed
      <3>2. f[m][line][from] =
              IF line <= u.lf_count THEN f[l][line][from]
              ELSE IF line <= u.lf_count + p.newline_count
              THEN Found(m, from + u.length, line - u.lf_count)
              ELSE f[r][line - u.lf_count - p.newline_count][from + u.length + p.length]
        <4>1. line \in Int
          OBVIOUS
        <4> HIDE DEF u
        <4> QED BY <1>5, <2>2, <3>1, <4>1
      <3>3. /\ \A a \in Nat \ {0}, b \in Int : LineAt(f[l][a][b], u, a, b)
            /\ \A a \in Nat \ {0}, b \in Int : LineAt(f[r][a][b], w, a, b)
        BY <1>6, <3>1
      <3>4. /\ u.length \in Nat /\ p.length \in Nat
            /\ u.lf_count \in Nat /\ p.newline_count \in Nat
        BY <3>1, PieceIs DEF GoodValue
      <3>5. p = nodes[m].piece
        OBVIOUS
      <3> HIDE DEF l, r, p, u, w
      <3>6. CASE line <= u.lf_count
        BY <3>1, <3>2, <3>3, <3>6, <3>9, LineInParts
      <3>7. CASE u.lf_count < line /\ line <= u.lf_count + p.newline_count
        <4>1. f[m][line][from] = Found(m, from + u.length, line - u.lf_count)
          BY <3>2, <3>4, <3>7
        <4> QED BY <3>1, <3>5, <3>7, <3>9, <4>1, LineInParts
      <3>8. CASE u.lf_count + p.newline_count < line
        <4>1. f[m][line][from]
                = f[r][line - u.lf_count - p.newline_count][from + u.length + p.length]
          BY <3>2, <3>4, <3>8
        <4>0. line \in Nat /\ from \in Int
          OBVIOUS
        <4> HIDE DEF S
        <4>2. line - u.lf_count - p.newline_count \in Nat \ {0}
          BY <3>4, <3>8, <4>0
        <4>5. from + u.length + p.length \in Int
          BY <3>4, <4>0
        <4>3. LineAt(f[m][line][from], w, line - u.lf_count - p.newline_count,
                     from + u.length + p.length)
          BY <3>3, <4>1, <4>2, <4>5
        <4> QED BY <3>1, <3>8, <3>9, <4>3, LineInParts
      <3> QED BY <3>4, <3>6, <3>7, <3>8
    <2> QED BY <2>1, <2>2
  <1>7. 0 .. Len(nodes) \subseteq S
    <2>1. ASSUME NEW m \in 0 .. Len(nodes), \A b \in 0 .. Len(nodes) : b < m => b \in S
          PROVE  m \in S
      BY <1>6, <2>1
    <2> HIDE DEF S
    <2> QED BY <1>1, <2>1, AddressInduction
  <1> QED BY <1>2, <1>4, <1>7


(* o is the piece that holds the offset `to' of v, or ends there, with the *)
(* line feeds before it.                                                  *)
FeedsAt(o, v, to, counted) ==
    \E s \in DOMAIN v.pieces, m \in Live(nodes) :
       /\ o = [node |-> m, feeds |-> counted + FeedsBefore(v, s), offset |-> to - s]
       /\ nodes[m].piece = v.pieces[s] /\ to - s \in 0 .. v.pieces[s].length

LEMMA FeedsInParts ==
  ASSUME NEW l, GoodValue(l), Summed(l), NEW p \in Pieces, NEW r, GoodValue(r), Summed(r),
         NEW v, v = JoinedValue(l, p, r), NEW to \in Nat, NEW counted \in Int, NEW o
  PROVE  /\ FeedsAt(o, l, to, counted) => FeedsAt(o, v, to, counted)
         /\ \A m \in Live(nodes) :
               /\ l.length <= to /\ to <= l.length + p.length /\ nodes[m].piece = p
               /\ o = [node |-> m, feeds |-> counted + l.lf_count, offset |-> to - l.length]
               => FeedsAt(o, v, to, counted)
         /\ /\ l.length + p.length <= to
            /\ FeedsAt(o, r, to - l.length - p.length, counted + l.lf_count + p.newline_count)
            => FeedsAt(o, v, to, counted)
  <1>1. IsJoined(v, l, p, r)
    BY JoinedIs
  <1>2. /\ \A s \in DOMAIN l.pieces : s \in DOMAIN v.pieces /\ v.pieces[s] = l.pieces[s]
        /\ l.length \in DOMAIN v.pieces /\ v.pieces[l.length] = p
        /\ \A t \in DOMAIN r.pieces :
              /\ l.length + p.length + t \in DOMAIN v.pieces
              /\ v.pieces[l.length + p.length + t] = r.pieces[t] /\ t \in Nat
    BY <1>1, StartsBefore DEF IsJoined
  <1>3. /\ \A s \in DOMAIN l.pieces : FeedsBefore(v, s) = FeedsBefore(l, s)
        /\ FeedsBefore(v, l.length) = l.lf_count
        /\ \A t \in DOMAIN r.pieces :
              FeedsBefore(v, l.length + p.length + t)
                = l.lf_count + p.newline_count + FeedsBefore(r, t)
    BY JoinedFeeds
  <1>4. l.length \in Nat /\ p.length \in Nat /\ l.lf_count \in Nat /\ p.newline_count \in Nat
    BY PieceIs DEF GoodValue
  <1>5. ASSUME FeedsAt(o, l, to, counted) PROVE FeedsAt(o, v, to, counted)
    BY <1>2, <1>3, <1>5 DEF FeedsAt
  <1>6. ASSUME NEW m \in Live(nodes), l.length <= to, to <= l.length + p.length,
               nodes[m].piece = p,
               o = [node |-> m, feeds |-> counted + l.lf_count, offset |-> to - l.length]
        PROVE  FeedsAt(o, v, to, counted)
    <2>1. to - l.length \in 0 .. p.length
      BY <1>4, <1>6
    <2> QED BY <1>2, <1>3, <1>6, <2>1 DEF FeedsAt
  <1>7. ASSUME l.length + p.length <= to,
               FeedsAt(o, r, to - l.length - p.length, counted + l.lf_count + p.newline_count)
        PROVE  FeedsAt(o, v, to, counted)
    <2>1. PICK t \in DOMAIN r.pieces, m \in Live(nodes) :
            /\ o = [node   |-> m,
                    feeds  |-> counted + l.lf_count + p.newline_count + FeedsBefore(r, t),
                    offset |-> to - l.length - p.length - t]
            /\ nodes[m].piece = r.pieces[t]
            /\ to - l.length - p.length - t \in 0 .. r.pieces[t].length
      BY <1>7 DEF FeedsAt
    <2> DEFINE s == l.length + p.length + t
    <2>2. /\ s \in DOMAIN v.pieces /\ v.pieces[s] = r.pieces[t] /\ t \in Nat
          /\ FeedsBefore(v, s) = l.lf_count + p.newline_count + FeedsBefore(r, t)
      BY <1>2, <1>3
    <2>3. FeedsBefore(r, t) \in Nat
      BY FeedsAreNumbers
    <2>4. to - l.length - p.length - t = to - s
      BY <1>4, <2>2
    <2>5. counted + l.lf_count + p.newline_count + FeedsBefore(r, t) = counted + FeedsBefore(v, s)
      BY <1>4, <2>2, <2>3
    <2> HIDE DEF s
    <2> QED BY <2>1, <2>2, <2>4, <2>5 DEF FeedsAt
  <1> QED BY <1>5, <1>6, <1>7

(* The descent to an offset counts the line feeds before its piece. *)
LEMMA FindsFeeds ==
  ASSUME WellMade(nodes), NEW n, InUse(nodes, n)
  PROVE  \A to \in Nat, counted \in Int : n # NULL /\ to <= Value(n).length
            => FeedsAt(find_feeds(n, to, counted), Value(n), to, counted)
  <1> DEFINE f == CHOOSE f : FeedsUp(f, nodes, Len(nodes))
             S == {m \in 0 .. Len(nodes) : InUse(nodes, m) /\ m # NULL =>
                      \A to \in Nat, counted \in Int : to <= Value(m).length
                         => FeedsAt(f[m][to][counted], Value(m), to, counted)}
  <1>1. Older(nodes) /\ Len(nodes) \in Nat /\ nodes \in Store
    BY ChildrenAreOlder
  <1>2. n \in 0 .. Len(nodes)
    BY <1>1, LiveIs DEF InUse, NULL
  <1>3. FeedsUp(f, nodes, Len(nodes))
    BY <1>1, FunctionsExist, Zenon
  <1>4. \A to, counted : find_feeds(n, to, counted) = f[n][to][counted]
    BY Zenon DEF find_feeds, FeedsUp, FeedStep, Addresses
  <1> HIDE DEF f
  <1>5. \A m \in 0 .. Len(nodes) : \A to \in Int, counted \in Int :
           f[m][to][counted] =
             LET here   == node_length(nodes, nodes[m].left)
                 before == counted + node_lf_count(nodes, nodes[m].left)
                 size   == nodes[m].piece.length
             IN  IF m = NULL THEN [node |-> NULL, feeds |-> counted, offset |-> to]
                 ELSE IF to < here THEN f[nodes[m].left][to][counted]
                 ELSE IF to - here <= size
                 THEN [node |-> m, feeds |-> before, offset |-> to - here]
                 ELSE f[nodes[m].right][to - here - size]
                       [before + nodes[m].piece.newline_count]
    <2> DEFINE cell(m, to, counted) ==
             LET here   == node_length(nodes, nodes[m].left)
                 before == counted + node_lf_count(nodes, nodes[m].left)
                 size   == nodes[m].piece.length
             IN  IF m = NULL THEN [node |-> NULL, feeds |-> counted, offset |-> to]
                 ELSE IF to < here THEN f[nodes[m].left][to][counted]
                 ELSE IF to - here <= size
                 THEN [node |-> m, feeds |-> before, offset |-> to - here]
                 ELSE f[nodes[m].right][to - here - size]
                       [before + nodes[m].piece.newline_count]
               row(m) == [to \in Int |-> [counted \in Int |-> cell(m, to, counted)]]
    <2>1. f = [m \in 0 .. Len(nodes) |-> row(m)]
      BY <1>3, Zenon DEF FeedsUp, FeedStep
    <2> HIDE DEF cell
    <2>2. \A m, to, counted : to \in Int /\ counted \in Int => row(m)[to][counted] = cell(m, to, counted)
      OBVIOUS
    <2> HIDE DEF row
    <2>3. \A m \in 0 .. Len(nodes) : f[m] = row(m)
      BY <2>1
    <2>4. \A m \in 0 .. Len(nodes) : \A to \in Int, counted \in Int : f[m][to][counted] = cell(m, to, counted)
      BY <2>2, <2>3
    <2> QED BY <2>4, Zenon DEF cell
  <1>6. ASSUME NEW m \in 0 .. Len(nodes), \A b \in 0 .. Len(nodes) : b < m => b \in S,
               InUse(nodes, m), m # NULL, NEW to \in Nat, to <= Value(m).length, NEW counted \in Int
        PROVE  FeedsAt(f[m][to][counted], Value(m), to, counted)
    <2> DEFINE l == nodes[m].left
               r == nodes[m].right
               p == nodes[m].piece
               u == Value(l)
               w == Value(r)
    <2>1. /\ InUse(nodes, l) /\ l \in 0 .. Len(nodes) /\ l < m
          /\ InUse(nodes, r) /\ r \in 0 .. Len(nodes) /\ r < m
          /\ GoodValue(u) /\ GoodValue(w) /\ p \in Pieces /\ m \in Live(nodes)
          /\ Value(m) = JoinedValue(u, p, w)
          /\ node_length(nodes, l) = u.length /\ node_lf_count(nodes, l) = u.lf_count
      BY <1>6, PartsAre
    <2>2. Summed(u) /\ Summed(w)
      BY <2>1, TreesAreSummed
    <2>3. f[m][to][counted] =
            IF to < u.length THEN f[l][to][counted]
            ELSE IF to - u.length <= p.length
            THEN [node |-> m, feeds |-> counted + u.lf_count, offset |-> to - u.length]
            ELSE f[r][to - u.length - p.length][counted + u.lf_count + p.newline_count]
      <3>1. to \in Int /\ m # NULL
        BY <1>6
      <3>2. counted \in Int /\ m \in 0 .. Len(nodes)
        OBVIOUS
      <3> HIDE DEF u, S
      <3>3. f[m][to][counted] =
              IF m = NULL THEN [node |-> NULL, feeds |-> counted, offset |-> to]
              ELSE IF to < node_length(nodes, l) THEN f[l][to][counted]
              ELSE IF to - node_length(nodes, l) <= p.length
              THEN [node |-> m, feeds |-> counted + node_lf_count(nodes, l),
                    offset |-> to - node_length(nodes, l)]
              ELSE f[r][to - node_length(nodes, l) - p.length]
                    [counted + node_lf_count(nodes, l) + p.newline_count]
        BY <1>5, <3>1, <3>2, Zenon
      <3> HIDE DEF l, r, p
      <3> QED BY <2>1, <3>1, <3>3
    <2>4. /\ u.length \in Nat /\ p.length \in Nat /\ w.length \in Nat
          /\ u.lf_count \in Nat /\ p.newline_count \in Nat
          /\ Value(m).length = u.length + p.length + w.length
      <3> HIDE DEF p, u, w
      <3>1. IsJoined(Value(m), u, p, w)
        BY <2>1, JoinedIs
      <3>2. Value(m).length = u.length + p.length + w.length
        BY <3>1 DEF IsJoined
      <3> QED BY <2>1, <3>2, PieceIs DEF GoodValue
    <2>5. (l = NULL => u.length = 0) /\ (r = NULL => w.length = 0)
      BY AtNull, NothingIsGood
    <2>6. /\ l # NULL => \A a \in Nat, b \in Int : a <= u.length => FeedsAt(f[l][a][b], u, a, b)
          /\ r # NULL => \A a \in Nat, b \in Int : a <= w.length => FeedsAt(f[r][a][b], w, a, b)
      BY <1>6, <2>1
    <2>7. p = nodes[m].piece
      OBVIOUS
    <2>8. to \in Nat /\ counted \in Int /\ to <= Value(m).length
      BY <1>6
    <2> HIDE DEF l, r, p, u, w, S
    <2>9. CASE to < u.length
      <3>1. l # NULL /\ to <= u.length
        BY <2>4, <2>5, <2>8, <2>9
      <3>2. FeedsAt(f[m][to][counted], u, to, counted)
        BY <2>3, <2>6, <2>8, <2>9, <3>1
      <3> QED BY <2>1, <2>2, <3>2, FeedsInParts
    <2>10. CASE u.length <= to /\ to <= u.length + p.length
      <3>1. f[m][to][counted]
              = [node |-> m, feeds |-> counted + u.lf_count, offset |-> to - u.length]
        BY <2>3, <2>4, <2>8, <2>10
      <3> QED BY <2>1, <2>2, <2>7, <2>10, <3>1, FeedsInParts
    <2>11. CASE u.length + p.length < to
      <3>1. f[m][to][counted]
              = f[r][to - u.length - p.length][counted + u.lf_count + p.newline_count]
        BY <2>3, <2>4, <2>8, <2>11
      <3>2. to - u.length - p.length \in Nat /\ to - u.length - p.length <= w.length
        BY <2>4, <2>8, <2>11
      <3>3. counted + u.lf_count + p.newline_count \in Int
        BY <2>4, <2>8
      <3>4. r # NULL /\ u.length + p.length <= to
        BY <2>4, <2>5, <2>8, <2>11
      <3>5. FeedsAt(f[m][to][counted], w, to - u.length - p.length,
                    counted + u.lf_count + p.newline_count)
        BY <2>6, <3>1, <3>2, <3>3, <3>4
      <3> QED BY <2>1, <2>2, <3>4, <3>5, FeedsInParts
    <2> QED BY <2>4, <2>8, <2>9, <2>10, <2>11
  <1>7. 0 .. Len(nodes) \subseteq S
    <2>1. ASSUME NEW m \in 0 .. Len(nodes), \A b \in 0 .. Len(nodes) : b < m => b \in S
          PROVE  m \in S
      BY <1>6, <2>1
    <2> HIDE DEF S
    <2> QED BY <1>1, <2>1, AddressInduction
  <1> QED BY <1>2, <1>4, <1>7


LEMMA FindsOffset ==
  ASSUME WellMade(nodes), NEW n, InUse(nodes, n), NEW v, v = Value(n), NEW offset \in 0 .. v.length - 1
  PROVE  LET there == Values!find_node(v, offset)
             found == find_node(n, offset, 0)
         IN  /\ found.node # NULL
             /\ nodes[found.node].piece = there.piece
             /\ found.start_offset = there.start_offset
             /\ found.remainder = there.remainder
  <1> DEFINE found == find_node(n, offset, 0)
             there == Values!find_node(v, offset)
  <1>1. GoodValue(v) /\ v.length \in Nat
    BY TreesAreSummed DEF GoodValue
  <1>2. offset \in Nat /\ offset < v.length /\ 0 \in Int
    BY <1>1
  <1>3. FoundAt(found, v, offset, 0)
    BY <1>2, FindsPiece
  <1>4. PICK s \in DOMAIN v.pieces, m \in Live(nodes) :
          /\ found = Found(m, 0 + s, offset - s) /\ nodes[m].piece = v.pieces[s]
          /\ s <= offset /\ offset < s + v.pieces[s].length
    BY <1>2, <1>3 DEF FoundAt
  <1>5. there.piece = v.pieces[s] /\ there.start_offset = s /\ there.remainder = offset - s
    BY <1>1, <1>2, <1>4, OnePieceHolds
  <1>6. m # NULL /\ s \in Nat
    BY <1>1, LiveIs, StartsBefore DEF WellMade, NULL
  <1> HIDE DEF found, there
  <1>7. found.node = m /\ found.start_offset = s /\ found.remainder = offset - s
    BY <1>4, <1>6 DEF Found
  <1>8. /\ found.node # NULL
        /\ nodes[found.node].piece = there.piece
        /\ found.start_offset = there.start_offset
        /\ found.remainder = there.remainder
    BY <1>4, <1>5, <1>6, <1>7
  <1> QED BY <1>8 DEF found, there

LEMMA FindsLineFeed ==
  ASSUME WellMade(nodes), NEW n, InUse(nodes, n), NEW v, v = Value(n), NEW line \in 1 .. v.lf_count
  PROVE  LET found == find_line(n, line, 0)
             s     == found.start_offset
         IN  /\ found.node # NULL
             /\ nodes[found.node].piece = v.pieces[s]
             /\ found.remainder = line - FeedsBefore(v, s)
             /\ found.remainder \in 1 .. v.pieces[s].newline_count
  <1> DEFINE found == find_line(n, line, 0)
  <1>1. GoodValue(v) /\ v.lf_count \in Nat
    BY TreesAreSummed DEF GoodValue
  <1>2. line \in Nat \ {0} /\ line <= v.lf_count /\ 0 \in Int
    BY <1>1
  <1>3. LineAt(found, v, line, 0)
    BY <1>2, FindsLine
  <1>4. PICK s \in DOMAIN v.pieces, m \in Live(nodes) :
          /\ found = Found(m, 0 + s, line - FeedsBefore(v, s)) /\ nodes[m].piece = v.pieces[s]
          /\ line - FeedsBefore(v, s) \in 1 .. v.pieces[s].newline_count
    BY <1>2, <1>3 DEF LineAt
  <1>5. m # NULL /\ s \in Nat
    BY <1>1, LiveIs, StartsBefore DEF WellMade, NULL
  <1> HIDE DEF found
  <1>6. found.node = m /\ found.start_offset = s /\ found.remainder = line - FeedsBefore(v, s)
    BY <1>4, <1>5 DEF Found
  <1> QED BY <1>4, <1>5, <1>6 DEF found

LEMMA FindsLineFeeds ==
  ASSUME WellMade(nodes), NEW n, InUse(nodes, n), n # NULL, NEW v, v = Value(n),
         NEW offset \in 0 .. v.length
  PROVE  LET found == find_feeds(n, offset, 0)
             s     == offset - found.offset
         IN  /\ found.node # NULL
             /\ nodes[found.node].piece = v.pieces[s]
             /\ found.offset \in 0 .. v.pieces[s].length
             /\ found.feeds = FeedsBefore(v, s)
  <1> DEFINE found == find_feeds(n, offset, 0)
  <1>1. GoodValue(v) /\ Summed(v) /\ v.length \in Nat
    BY TreesAreSummed DEF GoodValue
  <1>2. offset \in Nat /\ offset <= v.length /\ 0 \in Int
    BY <1>1
  <1>3. FeedsAt(found, v, offset, 0)
    BY <1>2, FindsFeeds
  <1>4. PICK s \in DOMAIN v.pieces, m \in Live(nodes) :
          /\ found = [node |-> m, feeds |-> 0 + FeedsBefore(v, s), offset |-> offset - s]
          /\ nodes[m].piece = v.pieces[s] /\ offset - s \in 0 .. v.pieces[s].length
    BY <1>3 DEF FeedsAt
  <1>5. m # NULL /\ s \in Nat /\ FeedsBefore(v, s) \in Nat
    BY <1>1, LiveIs, StartsBefore, FeedsAreNumbers DEF WellMade, NULL
  <1> HIDE DEF found
  <1>6. found.node = m /\ found.offset = offset - s /\ found.feeds = FeedsBefore(v, s)
    BY <1>4, <1>5
  <1>7. offset - found.offset = s
    BY <1>2, <1>5, <1>6
  <1> QED BY <1>4, <1>5, <1>6, <1>7 DEF found

(* The descents by length and by line feeds find, in every tree there is, the *)
(* piece that the sequence of its pieces gives for that offset or line, and *)
(* none behind the end.                                                    *)
THEOREM DescentsStayExact == Spec => []DescentsExact
  <1>1. TreeInv => DescentsExact
    <2> SUFFICES ASSUME TreeInv PROVE DescentsExact
      OBVIOUS
    <2>1. WellMade(nodes) /\ \A p \in Names : InUse(nodes, roots[p])
      BY FineIs DEF TreeInv
    <2>2. \A p \in Names : ValueOf(roots[p]) = Value(roots[p])
      BY <2>1, ValuesAre DEF Value
    <2>3. ASSUME NEW p \in Names
          PROVE  find_node(roots[p], Value(roots[p]).length, 0).node = NULL
      <3> DEFINE n == roots[p]
                 v == Value(n)
      <3>1. InUse(nodes, n) /\ v.length \in Nat
        BY <2>1, TreesAreSummed DEF GoodValue
      <3>2. FoundAt(find_node(n, v.length, 0), v, v.length, 0)
        BY <2>1, <3>1, FindsPiece
      <3> QED BY <3>1, <3>2 DEF FoundAt
    <2>4. ASSUME NEW p \in Names
          PROVE  find_line(roots[p], Value(roots[p]).lf_count + 1, 0).node = NULL
      <3> DEFINE n == roots[p]
                 v == Value(n)
                 line == v.lf_count + 1
      <3>1. InUse(nodes, n) /\ v.lf_count \in Nat
        BY <2>1, TreesAreSummed DEF GoodValue
      <3>2. line \in Nat \ {0} /\ ~(line <= v.lf_count)
        BY <3>1
      <3> HIDE DEF line
      <3>3. LineAt(find_line(n, line, 0), v, line, 0)
        BY <2>1, <3>1, <3>2, FindsLine
      <3> QED BY <3>2, <3>3 DEF LineAt, line
    <2>5. DescentFindsPiece
      BY <2>1, <2>2, <2>3, FindsOffset DEF DescentFindsPiece
    <2>6. DescentCountsLineFeeds
      BY <2>1, <2>2, <2>4, FindsLineFeed, FindsLineFeeds DEF DescentCountsLineFeeds
    <2> QED BY <2>5, <2>6 DEF DescentsExact
  <1> QED BY <1>1, TreesStayFine, PTL

===============================================================================
