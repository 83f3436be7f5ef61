------------------------------ MODULE TreeWalkers ------------------------------
(***************************************************************************)
(* TreeWalker and ReverseTreeWalker: cursors that go through a document    *)
(* character by character with a stack of tree nodes instead of a descent  *)
(* per character.                                                          *)
(*                                                                         *)
(* A walker holds a reference to its root (RedBlackTree::dup), so the tree  *)
(* it walks never changes; here the tree is edited only while there is no  *)
(* walker.                                                                 *)
(***************************************************************************)
EXTENDS RedBlackTree

CONSTANT Place  \* the place whose tree is walked

VARIABLE walker

walkVars == <<vars, walker>>

NoWalker == [kind |-> "none"]

(* CharOffset::Sentinel *)
Sentinel == -1

root == roots[Place]

DocumentLength == node_length(nodes, root)

exhausted(w) == w.node = NULL

(* The descent of seek pushes every node it comes by, and throws them all *)
(* away when the offset is behind the last character.                     *)
RECURSIVE Descend(_, _, _)
Descend(n, target, stack) ==
    LET here == node_length(nodes, nodes[n].left)
        size == nodes[n].piece.length
        path == Append(stack, n)
    IN  IF n = NULL THEN [stack |-> << >>, node |-> NULL, piece_offset |-> 0]
        ELSE IF target < here THEN Descend(nodes[n].left, target, path)
        ELSE IF target < here + size
        THEN [stack |-> path, node |-> n, piece_offset |-> target - here]
        ELSE Descend(nodes[n].right, target - here - size, path)

Sought(kind, offset) ==
    LET found == Descend(root, offset, << >>)
    IN  [kind         |-> kind,
         stack        |-> found.stack,
         node         |-> found.node,
         piece_offset |-> found.piece_offset,
         offset       |-> offset]

(* The constructors seek, and seek may be called again; the reverse walker *)
(* asserts that there is a character at the offset, unless there is none  *)
(* in the document.                                                       *)
seek(kind, offset) ==
    /\ walker.kind \in {"none", kind}
    /\ kind = "reverse" => offset < DocumentLength \/ (offset = 0 /\ DocumentLength = 0)
    /\ walker' = Sought(kind, offset)
    /\ UNCHANGED vars

close ==
    /\ walker # NoWalker
    /\ walker' = NoWalker
    /\ UNCHANGED vars

(* The way down along one side, all of it pushed. *)
RECURSIVE PushSide(_, _, _)
PushSide(n, left, stack) ==
    LET next == IF left THEN nodes[n].left ELSE nodes[n].right
    IN  IF next = NULL THEN Append(stack, n) ELSE PushSide(next, left, Append(stack, n))

(* Fault: the way up ends at the parent, whichever child it comes from. *)
ClimbOnce(stack, child, left) == stack

(* Up the stack to the first node whose left (or right) child we come from. *)
RECURSIVE Climb(_, _, _)
Climb(stack, child, left) ==
    IF stack = << >> THEN << >>
    ELSE LET parent == Last(stack)
         IN  IF (IF left THEN nodes[parent].left ELSE nodes[parent].right) = child
             THEN stack
             ELSE Climb(Front(stack), parent, left)

(* The stack of the piece behind (or before) the one on top of the stack; *)
(* that one stays below the nodes of its own subtree.                     *)
Neighbour(stack, forward) ==
    LET n    == Last(stack)
        side == IF forward THEN nodes[n].right ELSE nodes[n].left
    IN  IF side # NULL THEN PushSide(side, forward, stack)
        ELSE Climb(Front(stack), n, forward)

TopOf(stack) == IF stack = << >> THEN NULL ELSE Last(stack)

(* TreeWalker::next *)
next ==
    /\ walker.kind = "forward"
    /\ ~exhausted(walker)
    /\ LET ends  == walker.piece_offset + 1 = nodes[walker.node].piece.length
           stack == IF ends THEN Neighbour(walker.stack, TRUE) ELSE walker.stack
       IN  walker' = [walker EXCEPT
               !.stack        = stack,
               !.node         = IF ends THEN TopOf(stack) ELSE @,
               !.piece_offset = IF ends THEN 0 ELSE @ + 1,
               !.offset       = @ + 1]
    /\ UNCHANGED vars

(* ReverseTreeWalker::next; the first character of the document leaves the *)
(* stack as it is.                                                        *)
reverse_next ==
    /\ walker.kind = "reverse"
    /\ ~exhausted(walker)
    /\ LET stack == Neighbour(walker.stack, FALSE)
           n     == TopOf(stack)
       IN  walker' =
             IF walker.offset = 0
             THEN [walker EXCEPT !.node = NULL, !.piece_offset = 0, !.offset = Sentinel]
             ELSE IF walker.piece_offset > 0
             THEN [walker EXCEPT !.piece_offset = @ - 1, !.offset = @ - 1]
             ELSE [walker EXCEPT
                     !.stack        = stack,
                     !.node         = n,
                     !.piece_offset = IF n = NULL THEN 0 ELSE nodes[n].piece.length - 1,
                     !.offset       = @ - 1]
    /\ UNCHANGED vars

remaining ==
    IF exhausted(walker) THEN 0
    ELSE IF walker.kind = "forward" THEN DocumentLength - walker.offset
    ELSE walker.offset + 1

WalkInit == Init /\ walker = NoWalker

WalkNext ==
    \/ walker = NoWalker /\ Next /\ UNCHANGED walker
    \/ \E offset \in 0..DocumentLength, kind \in {"forward", "reverse"} : seek(kind, offset)
    \/ next
    \/ reverse_next
    \/ close

WalkSpec == WalkInit /\ [][WalkNext]_walkVars

-----------------------------------------------------------------------------
Walking == walker # NoWalker

WalkTypeOK ==
    /\ TypeOK
    /\ Walking => /\ walker.node \in Used \cup {NULL}
                  /\ Range(walker.stack) \subseteq Used
                  /\ walker.piece_offset \in Nat
                  /\ walker.offset \in -1..DocumentLength

(* However a walker came to its offset, by seek or by any number of steps *)
(* over the seams of pieces, it is at the piece and the place in it that a *)
(* descent from the root finds: current() is the character at the offset, *)
(* and the characters next() returns are the document in order.           *)
WalkerAtOffset ==
    Walking /\ ~exhausted(walker) =>
        LET found == find_node(root, walker.offset, 0)
        IN  /\ walker.node = found.node
            /\ walker.piece_offset = found.remainder

(* A walker is exhausted exactly behind the last character, or before the *)
(* first one, and remaining() is the number of next() until then.         *)
ExhaustedAtEnd ==
    Walking =>
        IF walker.kind = "forward"
        THEN /\ exhausted(walker) <=> walker.offset = DocumentLength
             /\ remaining = DocumentLength - walker.offset
        ELSE /\ exhausted(walker) <=> walker.offset = Sentinel \/ DocumentLength = 0
             /\ DocumentLength > 0 => remaining = walker.offset + 1

(* The stack of a walker that has a node is the way down the tree to that *)
(* node, child by child: next() finds the ancestors it has to go back to,  *)
(* and never needs more entries than the tree is high.                    *)
StackIsPath ==
    Walking /\ ~exhausted(walker) =>
        /\ Head(walker.stack) = root
        /\ Last(walker.stack) = walker.node
        /\ \A i \in 1..(Len(walker.stack) - 1) :
              walker.stack[i + 1] \in {nodes[walker.stack[i]].left, nodes[walker.stack[i]].right}

(* At every offset a walker is where a descent would be, with a stack from *)
(* which it can go on, and it is exhausted where the document ends.        *)
WalkersMatchDescents ==
    /\ WalkerAtOffset
    /\ ExhaustedAtEnd
    /\ StackIsPath

=============================================================================
