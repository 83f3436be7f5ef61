----------------------------- MODULE RedBlackTree -----------------------------
(***************************************************************************)
(* The persistent, reference counted, left-leaning red-black tree behind   *)
(* the roots (RedBlackTree and its node functions in                       *)
(* src/src/piece_tree/piece_tree.cpp).                                     *)
(*                                                                         *)
(* `nodes' is what was ever allocated, in that order: an address is a place *)
(* in it, and a node whose last reference is dropped becomes Free.  As no   *)
(* address is given out again, a use of a node that was freed would be an   *)
(* error.  As in the code, functions take an owned node and give back an   *)
(* owned one; here they also take and give back the nodes, in a record      *)
(* [nodes, node].  A node is never changed, so its children are older.      *)
(***************************************************************************)
EXTENDS Integers, Sequences, FiniteSets, FiniteSetsExt, SequencesExt

CONSTANTS
    Pieces,    \* the pieces that are inserted
    Names,     \* the places that hold a RedBlackTree
    MaxLength  \* bound: the characters of all trees together

ASSUME TreeAssumption ==
    /\ \A piece \in Pieces : piece.length \in Nat \ {0} /\ piece.newline_count \in Nat
    /\ IsFiniteSet(Names)

NULL == 0

(* What is left of a node that is freed. *)
Free == [ref_count |-> 0, left |-> NULL, right |-> NULL]

VARIABLES
    nodes,  \* the nodes that were allocated, by address
    roots   \* the m_root of each RedBlackTree

vars == <<nodes, roots>>

Live(ns) == {a \in DOMAIN ns : ns[a] # Free}

Addresses(ns) == 0 .. Len(ns)

node_length(ns, n) == IF n = NULL THEN 0 ELSE ns[n].subtree_length

node_lf_count(ns, n) == IF n = NULL THEN 0 ELSE ns[n].subtree_lf_count

node_is_red(ns, n) == n # NULL /\ ns[n].color = "red"

Flipped(color) == IF color = "red" THEN "black" ELSE "red"

-----------------------------------------------------------------------------
(* References *)

take_node_ref(ns, n) ==
    IF n = NULL THEN ns ELSE [ns EXCEPT ![n].ref_count = @ + 1]

(* Fault: a node without references stays where it is. *)
dec_node_ref_keeping(ns, n) ==
    IF n = NULL THEN ns ELSE [ns EXCEPT ![n].ref_count = @ - 1]

(* One reference of those to be dropped: the last one frees the node, and  *)
(* then the references it had are dropped, the left one first.             *)
DropNext(calls) ==
    LET ns   == calls.nodes
        n    == Last(calls.dropping)
        rest == Front(calls.dropping)
    IN  IF calls.dropping = << >> THEN calls
        ELSE IF n = NULL THEN [nodes |-> ns, dropping |-> rest]
        ELSE IF ns[n].ref_count # 1
        THEN [nodes |-> [ns EXCEPT ![n].ref_count = @ - 1], dropping |-> rest]
        ELSE [nodes |-> [ns EXCEPT ![n] = Free],
              dropping |-> rest \o <<ns[n].right, ns[n].left>>]

dec_node_ref(ns, n) ==
    LET enough == 2 * Len(ns) + 1
        after[k \in 0 .. enough] ==
            IF k = 0 THEN [nodes |-> ns, dropping |-> <<n>>] ELSE DropNext(after[k - 1])
    IN  after[CHOOSE k \in 0 .. enough : after[k].dropping = << >>].nodes

Drop(owned, n) == [owned EXCEPT !.nodes = dec_node_ref(@, n)]

(* A new node, with references to its children. *)
Placed(ns, new) ==
    [nodes |-> take_node_ref(take_node_ref(Append(ns, new), new.left), new.right),
     node  |-> Len(ns) + 1]

(* Fault: the metadata leaves out the line feeds of the piece itself. *)
make_node_of_children(ns, color, left, piece, right) ==
    Placed(ns,
        [color |-> color, left |-> left, piece |-> piece, right |-> right, ref_count |-> 1,
         subtree_length   |-> node_length(ns, left) + piece.length + node_length(ns, right),
         subtree_lf_count |-> node_lf_count(ns, left) + node_lf_count(ns, right)])

(* A new node with its own metadata. *)
make_node(ns, color, left, piece, right) ==
    Placed(ns,
        [color |-> color, left |-> left, piece |-> piece, right |-> right, ref_count |-> 1,
         subtree_length   |-> node_length(ns, left) + piece.length + node_length(ns, right),
         subtree_lf_count |->
             node_lf_count(ns, left) + piece.newline_count + node_lf_count(ns, right)])

(* A copy of a node with other children. *)
WithChildren(ns, n, left, right) ==
    make_node(ns, ns[n].color, left, ns[n].piece, right)

Recolored(ns, n, color) ==
    make_node(ns, color, ns[n].left, ns[n].piece, ns[n].right)

(* A copy to work on, whose children stay shared with the original. *)
Copy(ns, n) == WithChildren(ns, n, ns[n].left, ns[n].right)

Node(owned) == owned.nodes[owned.node]

-----------------------------------------------------------------------------
(* Rotations; each takes an owned node and gives an owned one. *)

repaint_owned(owned, color) == Drop(Recolored(owned.nodes, owned.node, color), owned.node)

(* Fault: the node that was rotated is not given back. *)
RotatedLeftLeaking(n, pivot, left) ==
    Drop(make_node(left.nodes, left.nodes[n].color, left.node,
                   left.nodes[pivot].piece, left.nodes[pivot].right), left.node)

(* The pivot in the place of n, with the owned copy of n as its left child. *)
RotatedLeft(n, pivot, left) ==
    Drop(Drop(make_node(left.nodes, left.nodes[n].color, left.node,
                        left.nodes[pivot].piece, left.nodes[pivot].right), left.node), n)

rotate_left_owned(owned) ==
    LET ns == owned.nodes
        n  == Node(owned)
    IN  RotatedLeft(owned.node, n.right, make_node(ns, "red", n.left, n.piece, ns[n.right].left))

RotatedRight(n, pivot, right) ==
    Drop(Drop(make_node(right.nodes, right.nodes[n].color, right.nodes[pivot].left,
                        right.nodes[pivot].piece, right.node), right.node), n)

rotate_right_owned(owned) ==
    LET ns == owned.nodes
        n  == Node(owned)
    IN  RotatedRight(owned.node, n.left, make_node(ns, "red", ns[n.left].right, n.piece, n.right))

FlippedParent(n, left, right) ==
    Drop(Drop(Drop(make_node(right.nodes, Flipped(right.nodes[n].color), left,
                             right.nodes[n].piece, right.node), left), right.node), n)

(* The owned copy of the left child, and then one of the right child. *)
FlippedRight(n, left) ==
    LET r == left.nodes[n].right
    IN  FlippedParent(n, left.node, Recolored(left.nodes, r, Flipped(left.nodes[r].color)))

flip_colors_owned(owned) ==
    LET ns == owned.nodes
        l  == Node(owned).left
    IN  FlippedRight(owned.node, Recolored(ns, l, Flipped(ns[l].color)))

RotateLeftIf(owned) ==
    IF /\ node_is_red(owned.nodes, Node(owned).right)
       /\ ~node_is_red(owned.nodes, Node(owned).left)
    THEN rotate_left_owned(owned) ELSE owned

RotateRightIf(owned) ==
    LET l == Node(owned).left
    IN  IF node_is_red(owned.nodes, l) /\ node_is_red(owned.nodes, owned.nodes[l].left)
        THEN rotate_right_owned(owned) ELSE owned

FlipIf(owned) ==
    IF /\ node_is_red(owned.nodes, Node(owned).left)
       /\ node_is_red(owned.nodes, Node(owned).right)
    THEN flip_colors_owned(owned) ELSE owned

fix_up_owned(owned) == FlipIf(RotateRightIf(RotateLeftIf(owned)))

(* The owned parent with an owned right child. *)
WithRight(n, right) ==
    Drop(Drop(WithChildren(right.nodes, n, right.nodes[n].left, right.node), right.node), n)

(* After the flip: the red child of the right child goes over to the left. *)
BorrowedFromRight(flipped) ==
    LET ns == flipped.nodes
        r  == Node(flipped).right
    IN  IF r # NULL /\ node_is_red(ns, ns[r].left)
        THEN flip_colors_owned(rotate_left_owned(
                 WithRight(flipped.node, rotate_right_owned(Copy(ns, r)))))
        ELSE flipped

move_red_left_owned(owned) == BorrowedFromRight(flip_colors_owned(owned))

BorrowedFromLeft(flipped) ==
    LET l == Node(flipped).left
    IN  IF l # NULL /\ node_is_red(flipped.nodes, flipped.nodes[l].left)
        THEN flip_colors_owned(rotate_right_owned(flipped)) ELSE flipped

move_red_right_owned(owned) == BorrowedFromLeft(flip_colors_owned(owned))

-----------------------------------------------------------------------------
(* Insertion and deletion at an offset *)

(* Fault: the node gets its new children in place, for whoever shares it. *)
RebuiltInPlace(ns, n, left, right, child, drop) ==
    LET length == node_length(ns, left) + ns[n].piece.length + node_length(ns, right)
        feeds  == node_lf_count(ns, left) + ns[n].piece.newline_count
                    + node_lf_count(ns, right)
    IN  [nodes |-> [ns EXCEPT ![n].left = left, ![n].right = right,
                              ![n].subtree_length = length, ![n].subtree_lf_count = feeds,
                              ![n].ref_count = @ + 1],
         node  |-> n]

(* n with the owned child in its place; n itself is dropped if `drop'. *)
Rebuilt(ns, n, left, right, child, drop) ==
    fix_up_owned(Drop(Drop(WithChildren(ns, n, left, right), child),
                      IF drop THEN n ELSE NULL))

RebuiltLeft(n, left, drop) ==
    Rebuilt(left.nodes, n, left.node, left.nodes[n].right, left.node, drop)

RebuiltRight(n, right, drop) ==
    Rebuilt(right.nodes, n, right.nodes[n].left, right.node, right.node, drop)

insert_node(ns, n, piece, offset) ==
    LET insert[m \in Addresses(ns)] ==
            [at \in Int |->
               LET here == node_length(ns, ns[m].left)
               IN  IF m = NULL THEN make_node(ns, "red", NULL, piece, NULL)
                   ELSE IF at <= here
                   THEN RebuiltLeft(m, insert[ns[m].left][at], FALSE)
                   ELSE RebuiltRight(m, insert[ns[m].right][at - here - ns[m].piece.length],
                                     FALSE)]
    IN  insert[n][offset]

minimum_node(ns, n) ==
    LET minimum[m \in DOMAIN ns] ==
            IF ns[m].left = NULL THEN m ELSE minimum[ns[m].left]
    IN  minimum[n]

(* The child exists, is black, and so is its left child. *)
TwoNode(ns, n) == n # NULL /\ ~node_is_red(ns, n) /\ ~node_is_red(ns, ns[n].left)

MoveRedLeftIf(owned) ==
    IF TwoNode(owned.nodes, Node(owned).left) THEN move_red_left_owned(owned) ELSE owned

MoveRedRightIf(owned) ==
    IF TwoNode(owned.nodes, Node(owned).right) THEN move_red_right_owned(owned) ELSE owned

(* The way back from a deletion: the owned node of a call, which went on  *)
(* with one of its children, gets what is left of that child.             *)
Rejoined(call, child) ==
    IF call.left THEN RebuiltLeft(call.owned.node, child, TRUE)
    ELSE RebuiltRight(call.owned.node, child, TRUE)

(* What the first of the calls gives back, if the last one gives `last'. *)
Returned(down, depth, last) ==
    LET up[i \in 0 .. depth] ==
            IF i = 0 THEN last ELSE Rejoined(down[depth - i], up[i - 1])
    IN  up[depth]

(* A call of delete_min_node with what it owns, unless it ends there. *)
MinCall(ns, n) ==
    [nodes |-> ns, node |-> n, left |-> TRUE, owned |-> MoveRedLeftIf(Copy(ns, n))]

NextMinCall(call) == MinCall(call.owned.nodes, Node(call.owned).left)

AtMinimum(call) == call.nodes[call.node].left = NULL

delete_min_node(ns, n) ==
    LET enough == node_length(ns, n)
        down[i \in 0 .. enough] ==
            IF i = 0 THEN MinCall(ns, n) ELSE NextMinCall(down[i - 1])
        depth == CHOOSE i \in 0 .. enough :
                     AtMinimum(down[i]) /\ \A k \in 0 .. i - 1 : ~AtMinimum(down[k])
    IN  Returned(down, depth, [nodes |-> down[depth].nodes, node |-> NULL])

(* Fault: a red left child is not rotated to the right. *)
LeanNever(owned) == owned

LeanRight(owned) ==
    IF node_is_red(owned.nodes, Node(owned).left) THEN rotate_right_owned(owned) ELSE owned

(* Is the piece at offset the last one of the tree? *)
IsLast(owned, offset) ==
    offset = node_length(owned.nodes, Node(owned).left) /\ Node(owned).right = NULL

(* The owned node of a call whose piece is not in its left subtree. *)
PreparedRight(owned, offset) ==
    IF IsLast(owned, offset) THEN owned ELSE MoveRedRightIf(owned)

(* A call of delete_node with what it owns before it goes on. *)
Call(ns, n, offset) ==
    LET left == offset < node_length(ns, ns[n].left)
    IN  [nodes  |-> ns,
         node   |-> n,
         offset |-> offset,
         left   |-> left,
         owned  |-> IF left THEN MoveRedLeftIf(Copy(ns, n))
                    ELSE PreparedRight(LeanRight(Copy(ns, n)), offset)]

(* The offset of the piece of the owned node. *)
Here(owned) == node_length(owned.nodes, Node(owned).left)

NextCall(call) ==
    LET owned == call.owned
        n     == Node(owned)
    IN  IF call.left THEN Call(owned.nodes, n.left, call.offset)
        ELSE Call(owned.nodes, n.right, call.offset - Here(owned) - n.piece.length)

AtPiece(call) == ~call.left /\ call.offset = Here(call.owned)

(* The successor of n takes its place; `rest' is the right subtree without it. *)
Succeeded(n, successor, rest) ==
    fix_up_owned(Drop(Drop(make_node(rest.nodes, rest.nodes[n].color, rest.nodes[n].left,
                                     rest.nodes[successor].piece, rest.node), rest.node), n))

(* The owned node without its own piece. *)
TakenOut(owned) ==
    LET right == Node(owned).right
    IN  IF right = NULL THEN [nodes |-> dec_node_ref(owned.nodes, owned.node), node |-> NULL]
        ELSE Succeeded(owned.node, minimum_node(owned.nodes, right),
                       delete_min_node(owned.nodes, right))

delete_node(ns, n, offset) ==
    LET enough == node_length(ns, n)
        down[i \in 0 .. enough] ==
            IF i = 0 THEN Call(ns, n, offset) ELSE NextCall(down[i - 1])
        depth == CHOOSE i \in 0 .. enough :
                     AtPiece(down[i]) /\ \A k \in 0 .. i - 1 : ~AtPiece(down[k])
    IN  Returned(down, depth, TakenOut(down[depth].owned))

BlackRoot(owned) ==
    IF node_is_red(owned.nodes, owned.node)
    THEN repaint_owned(owned, "black") ELSE owned

-----------------------------------------------------------------------------
(* The operations of RedBlackTree *)

(* Two subtrees with a piece between them: the pieces by their offsets. *)
Joined(left, here, piece, right) ==
    LET behind == here + piece.length
    IN  [s \in DOMAIN left \cup {here} \cup {behind + t : t \in DOMAIN right} |->
           IF s < here THEN left[s] ELSE IF s = here THEN piece ELSE right[s - behind]]

PiecesOf(n) ==
    LET pieces[m \in Addresses(nodes)] ==
            IF m = NULL THEN << >>
            ELSE Joined(pieces[nodes[m].left], node_length(nodes, nodes[m].left),
                        nodes[m].piece, pieces[nodes[m].right])
    IN  pieces[n]

(* The move assignment: the place drops the root it had. *)
Assign(to, owned) ==
    /\ nodes' = dec_node_ref(owned.nodes, roots[to])
    /\ roots' = [roots EXCEPT ![to] = owned.node]

Init == nodes = << >> /\ roots = [p \in Names |-> NULL]

Size(place) == node_length(nodes, roots[place])

(* There is room for a tree of this length in this place. *)
Room(to, length) ==
    length + SumFunctionOnSet([p \in Names |-> Size(p)], Names \ {to}) <= MaxLength

insert(from, to, piece, at) ==
    /\ Room(to, Size(from) + piece.length)
    /\ Assign(to, BlackRoot(insert_node(nodes, roots[from], piece, at)))

remove(from, to, at) ==
    /\ roots[from] # NULL
    /\ Room(to, Size(from) - PiecesOf(roots[from])[at].length)
    /\ Assign(to, BlackRoot(delete_node(nodes, roots[from], at)))

dup(from, to) ==
    /\ Room(to, Size(from))
    /\ Assign(to, [nodes |-> take_node_ref(nodes, roots[from]), node |-> roots[from]])

destroy(place) ==
    roots[place] # NULL /\ Assign(place, [nodes |-> nodes, node |-> NULL])

(* The tree is edited at the boundaries of pieces only. *)
Next ==
    \E from, to \in Names :
        LET starts == DOMAIN PiecesOf(roots[from])
            length == node_length(nodes, roots[from])
        IN  \/ \E piece \in Pieces, at \in starts \cup {length} : insert(from, to, piece, at)
            \/ \E at \in starts : remove(from, to, at)
            \/ from # to /\ dup(from, to)
            \/ from = to /\ destroy(to)

Spec == Init /\ [][Next]_vars

-----------------------------------------------------------------------------
(* Looking up an offset or a line *)

Found(n, start, remainder) == [node |-> n, start_offset |-> start, remainder |-> remainder]

find_node(n, target, start) ==
    LET find[m \in Addresses(nodes)] ==
            [to \in Int |-> [from \in Int |->
               LET here == node_length(nodes, nodes[m].left)
                   size == nodes[m].piece.length
               IN  IF m = NULL THEN Found(NULL, from, 0)
                   ELSE IF to < here THEN find[nodes[m].left][to][from]
                   ELSE IF to < here + size THEN Found(m, from + here, to - here)
                   ELSE find[nodes[m].right][to - here - size][from + here + size]]]
    IN  find[n][target][start]

(* The descent of line_offset: the piece the target'th line feed after    *)
(* `start' is in, and its number in that piece.                           *)
find_line(n, target, start) ==
    LET find[m \in Addresses(nodes)] ==
            [line \in Int |-> [from \in Int |->
               LET before == node_lf_count(nodes, nodes[m].left)
                   here   == node_length(nodes, nodes[m].left)
                   feeds  == nodes[m].piece.newline_count
               IN  IF m = NULL THEN Found(NULL, from, 0)
                   ELSE IF line <= before THEN find[nodes[m].left][line][from]
                   ELSE IF line <= before + feeds THEN Found(m, from + here, line - before)
                   ELSE find[nodes[m].right][line - before - feeds]
                            [from + here + nodes[m].piece.length]]]
    IN  find[n][target][start]

(* The descent of line_at_offset: the piece it stops at, the line feeds   *)
(* counted before that piece, and the offset in it.                       *)
find_feeds(n, offset, feeds) ==
    LET find[m \in Addresses(nodes)] ==
            [to \in Int |-> [counted \in Int |->
               LET here   == node_length(nodes, nodes[m].left)
                   before == counted + node_lf_count(nodes, nodes[m].left)
                   size   == nodes[m].piece.length
               IN  IF m = NULL THEN [node |-> NULL, feeds |-> counted, offset |-> to]
                   ELSE IF to < here THEN find[nodes[m].left][to][counted]
                   ELSE IF to - here <= size
                   THEN [node |-> m, feeds |-> before, offset |-> to - here]
                   ELSE find[nodes[m].right][to - here - size]
                            [before + nodes[m].piece.newline_count]]]
    IN  find[n][offset][feeds]

-----------------------------------------------------------------------------
(* Properties *)

Used == Live(nodes)

(* A node and all that is below it. *)
Subtree(n) ==
    LET subtree[m \in Addresses(nodes)] ==
            IF m = NULL THEN {}
            ELSE {m} \cup subtree[nodes[m].left] \cup subtree[nodes[m].right]
    IN  subtree[n]

Reachable == UNION {Subtree(roots[p]) : p \in Names}

TypeOK ==
    /\ roots \in [Names -> Used \cup {NULL}]
    /\ \A n \in Used :
          /\ nodes[n].color \in {"red", "black"}
          /\ nodes[n].left \in Used \cup {NULL}
          /\ nodes[n].right \in Used \cup {NULL}
          /\ nodes[n].piece \in Pieces
          /\ nodes[n].ref_count \in Nat \ {0}

(* Every node is counted once for each parent and each place that refers   *)
(* to it, and no node is left over: the temporary nodes of the rotations  *)
(* are all given back, however deep the rebalancing went.                 *)
ReferencesCounted ==
    /\ Used = Reachable
    /\ \A n \in Used :
          nodes[n].ref_count =
              Cardinality({m \in Used : nodes[m].left = n})
            + Cardinality({m \in Used : nodes[m].right = n})
            + Cardinality({p \in Names : roots[p] = n})

(* The black nodes on the leftmost way down from n. *)
BlackHeight(n) ==
    LET height[m \in Addresses(nodes)] ==
            IF m = NULL THEN 0
            ELSE height[nodes[m].left] + (IF nodes[m].color = "black" THEN 1 ELSE 0)
    IN  height[n]

(* The trees are left-leaning red-black trees: their roots are black, all  *)
(* ways down have equally many black nodes, and a red node is a left child *)
(* without a red one.  So descents are short and the rotations find the    *)
(* children they look at.                                                  *)
Balanced ==
    /\ \A p \in Names : ~node_is_red(nodes, roots[p])
    /\ \A n \in Used :
          /\ BlackHeight(nodes[n].left) = BlackHeight(nodes[n].right)
          /\ ~node_is_red(nodes, nodes[n].right)
          /\ nodes[n].color = "red" => ~node_is_red(nodes, nodes[n].left)

(* The tree as a value of PieceRoots: pieces by start offset, with the     *)
(* metadata that is cached in its root node.                              *)
ValueOf(n) ==
    [pieces   |-> PiecesOf(n),
     length   |-> node_length(nodes, n),
     lf_count |-> node_lf_count(nodes, n)]

Values == INSTANCE PersistentRoots WITH
    Char <- {0}, LF <- 0, roots <- [p \in Names |-> ValueOf(roots[p])]

(* Insertion, removal and copies act on values: an operation on one root  *)
(* does not change what any other root holds, though they share nodes.    *)
ImplementsValues == Values!RootsSpec

(* For every offset of every root the descent by subtree lengths finds the *)
(* piece that holds it, and for the end it finds none.                    *)
DescentFindsPiece ==
    \A p \in Names :
        LET value == ValueOf(roots[p])
        IN  /\ \A offset \in 0..(value.length - 1) :
                  LET there == Values!find_node(value, offset)
                      found == find_node(roots[p], offset, 0)
                  IN  /\ found.node # NULL
                      /\ nodes[found.node].piece = there.piece
                      /\ found.start_offset = there.start_offset
                      /\ found.remainder = there.remainder
            /\ find_node(roots[p], value.length, 0).node = NULL

FeedsBefore(value, s) ==
    SumFunctionOnSet([t \in Values!Starts(value) |-> value.pieces[t].newline_count],
                     {t \in Values!Starts(value) : t < s})

(* The descents by line feed counts stop at a piece that holds the line's *)
(* line feed or the offset, with the line feeds before that piece.        *)
DescentCountsLineFeeds ==
    \A p \in Names :
        LET value == ValueOf(roots[p])
        IN  /\ \A line \in 1..value.lf_count :
                  LET found == find_line(roots[p], line, 0)
                      s     == found.start_offset
                  IN  /\ found.node # NULL
                      /\ nodes[found.node].piece = value.pieces[s]
                      /\ found.remainder = line - FeedsBefore(value, s)
                      /\ found.remainder \in 1..value.pieces[s].newline_count
            /\ find_line(roots[p], value.lf_count + 1, 0).node = NULL
            /\ roots[p] # NULL => \A offset \in 0..value.length :
                  LET found == find_feeds(roots[p], offset, 0)
                      s     == offset - found.offset
                  IN  /\ found.node # NULL
                      /\ nodes[found.node].piece = value.pieces[s]
                      /\ found.offset \in 0..value.pieces[s].length
                      /\ found.feeds = FeedsBefore(value, s)

(* The descents by length and by line feeds both find their piece. *)
DescentsExact ==
    /\ DescentFindsPiece
    /\ DescentCountsLineFeeds

=============================================================================
