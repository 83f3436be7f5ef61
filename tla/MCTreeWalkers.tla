----------------------------- MODULE MCTreeWalkers -----------------------------
(* Pieces that differ in length and line feeds, and two places for trees. *)
EXTENDS TreeWalkers

CONSTANTS m_root, changed

Plain == [length |-> 1, newline_count |-> 0]

Ended == [length |-> 2, newline_count |-> 1]

TwoPieces == {Plain, Ended}

MCNames == {m_root, changed}

(* `seen' and the nodes of a tree that are not in it, parents first. *)
RECURSIVE Walk(_, _)
Walk(n, seen) ==
    IF n = NULL \/ Contains(seen, n) THEN seen
    ELSE Walk(nodes[n].right, Walk(nodes[n].left, Append(seen, n)))

(* The nodes in use in the order in which the roots reach them; nodes that  *)
(* no root reaches come last.                                             *)
Order ==
    LET reached == Walk(roots[changed], Walk(roots[m_root], << >>))
    IN  reached \o SelectSeq([a \in DOMAIN nodes |-> a],
                             LAMBDA a : nodes[a] # Free /\ ~Contains(reached, a))

(* The state without the addresses, which mean nothing. *)
Shape ==
    LET order == Order
        name  == [a \in Used |-> CHOOSE i \in DOMAIN order : order[i] = a] @@ (NULL :> NULL)
    IN  <<[i \in DOMAIN order |-> [nodes[order[i]] EXCEPT !.left = name[@], !.right = name[@]]],
          [p \in Names |-> name[roots[p]]],
          IF walker = NoWalker THEN walker
          ELSE [walker EXCEPT !.node = name[@],
                              !.stack = [i \in DOMAIN @ |-> name[@[i]]]]>>

================================================================================
