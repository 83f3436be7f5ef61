-------------------------------- MODULE NodePool -------------------------------
(***************************************************************************)
(* The tree nodes of a document: dec_node_ref puts a dead node on a        *)
(* lock-free free list, allocate_node takes one from it, and pushes a new  *)
(* one on the arena, under a mutex, when the list is empty (lines 26-115   *)
(* of src/src/piece_tree/piece_tree.cpp).                                  *)
(*                                                                         *)
(* One thread edits, but any thread may drop the last reference to a root, *)
(* so both operations run concurrently, one atomic access at a time.       *)
(***************************************************************************)
EXTENDS Integers, Sequences, FiniteSets

CONSTANTS
    Threads,   \* the threads that edit the document or drop its roots
    MaxNodes,  \* bound on the nodes the arena gives out
    MaxCalls   \* bound on the calls of allocate_node and dec_node_ref

Null == 0

ASSUME NodePoolAssumption == MaxCalls \in Nat /\ Null \notin Threads

VARIABLES
    free_list,         \* RBTreeBlock::free_list, the word that is swapped
    free_next,         \* free_next of every node the arena has given out
    allocation_mutex,  \* the thread that holds it, or Null
    live,              \* the nodes whose reference count is not zero
    pc, node, expected, next,  \* where a thread is, and its locals
    calls              \* the calls so far

vars == <<free_list, free_next, allocation_mutex, live, pc, node, expected,
          next, calls>>

threadVars == <<pc, node, expected, next>>

Init ==
    /\ free_list = [head |-> Null, tag |-> 0]
    /\ free_next = <<>>
    /\ allocation_mutex = Null
    /\ live = {}
    /\ pc = [t \in Threads |-> "idle"]
    /\ node = [t \in Threads |-> Null]
    /\ expected = [t \in Threads |-> free_list]
    /\ next = [t \in Threads |-> Null]
    /\ calls = 0

Goto(t, label) == pc' = [pc EXCEPT ![t] = label]

(* free_list.load(), and what a failed exchange writes to expected. *)
Load(t) == expected' = [expected EXCEPT ![t] = free_list]

(* Fault: the exchange compares the heads and not the tags. *)
MatchesHead(t) == free_list.head = expected[t].head

(* compare_exchange compares both words of RBNodeFreeList. *)
Matches(t) == free_list = expected[t]

(*------------------------------ dec_node_ref ------------------------------*)

(* fetch_sub finds 1: the caller dropped the last reference, and the node is *)
(* nobody's until it is on the free list.  Its fields are cleared.          *)
DropLast(t) ==
    /\ pc[t] = "idle" /\ calls < MaxCalls
    /\ \E n \in live :
        /\ live' = live \ {n}
        /\ node' = [node EXCEPT ![t] = n]
    /\ calls' = calls + 1
    /\ Load(t)
    /\ Goto(t, "link")
    /\ UNCHANGED <<free_list, free_next, allocation_mutex, next>>

(* next.store(expected.head): the node points at the head that was seen. *)
Link(t) ==
    /\ pc[t] = "link"
    /\ free_next' = [free_next EXCEPT ![node[t]] = expected[t].head]
    /\ Goto(t, "push")
    /\ UNCHANGED <<free_list, allocation_mutex, live, node, expected, next, calls>>

Pushed(t) ==
    /\ Matches(t)
    /\ free_list' = [head |-> node[t], tag |-> expected[t].tag + 1]
    /\ node' = [node EXCEPT ![t] = Null]
    /\ Goto(t, "idle")
    /\ UNCHANGED expected

(* The exchange is weak: it may fail although both words match, and then   *)
(* loads the word again.                                                   *)
Retry(t, label) ==
    /\ Load(t)
    /\ Goto(t, label)
    /\ UNCHANGED <<free_list, node>>

Push(t) ==
    /\ pc[t] = "push"
    /\ Pushed(t) \/ Retry(t, "link")
    /\ UNCHANGED <<free_next, allocation_mutex, live, next, calls>>

(*----------------------------- allocate_node ------------------------------*)

(* The call starts without the mutex. *)
Allocate(t) ==
    /\ pc[t] = "idle" /\ calls < MaxCalls
    /\ calls' = calls + 1
    /\ Load(t)
    /\ Goto(t, "look")
    /\ UNCHANGED <<free_list, free_next, allocation_mutex, live, node, next>>

(* The while condition: read the link of the head, if there is a head; else *)
(* ask for the mutex, or, with the mutex held, for the arena.              *)
Look(t) ==
    /\ pc[t] = "look"
    /\ IF expected[t].head # Null
       THEN /\ next' = [next EXCEPT ![t] = free_next[expected[t].head]]
            /\ Goto(t, "pop")
       ELSE /\ Goto(t, IF allocation_mutex = t THEN "grow" ELSE "lock")
            /\ UNCHANGED next
    /\ UNCHANGED <<free_list, free_next, allocation_mutex, live, node, expected,
                   calls>>

(* Fault: a node that was found with the mutex held leaves it locked. *)
ReturnLocked(t, n) ==
    /\ live' = live \cup {n}
    /\ UNCHANGED allocation_mutex
    /\ Goto(t, "idle")

(* The caller gets the node with ref_count 1; the mutex is unlocked if the *)
(* node was found with it.                                                 *)
Return(t, n) ==
    /\ live' = live \cup {n}
    /\ allocation_mutex' = IF allocation_mutex = t THEN Null ELSE allocation_mutex
    /\ Goto(t, "idle")

(* Fault: the caller gets the node that is the head now. *)
PoppedHead(t) ==
    /\ Matches(t)
    /\ free_list' = [head |-> next[t], tag |-> expected[t].tag + 1]
    /\ Return(t, next[t])
    /\ UNCHANGED <<node, expected>>

Popped(t) ==
    /\ Matches(t)
    /\ free_list' = [head |-> next[t], tag |-> expected[t].tag + 1]
    /\ Return(t, expected[t].head)
    /\ UNCHANGED <<node, expected>>

Pop(t) ==
    /\ pc[t] = "pop"
    /\ \/ Popped(t)
       \/ Retry(t, "look") /\ UNCHANGED <<live, allocation_mutex>>
    /\ UNCHANGED <<free_next, next, calls>>

(* The mutex is taken and the list is looked at again. *)
Lock(t) ==
    /\ pc[t] = "lock" /\ allocation_mutex = Null
    /\ allocation_mutex' = t
    /\ Load(t)
    /\ Goto(t, "look")
    /\ UNCHANGED <<free_list, free_next, live, node, next, calls>>

(* Arena::push_array.  An arena that is exhausted makes allocate_node throw, *)
(* after the mutex is unlocked.                                            *)
Grow(t) ==
    /\ pc[t] = "grow"
    /\ \/ /\ Len(free_next) < MaxNodes
          /\ free_next' = Append(free_next, Null)
          /\ Return(t, Len(free_next) + 1)
       \/ /\ Len(free_next) = MaxNodes
          /\ allocation_mutex' = Null
          /\ Goto(t, "idle")
          /\ UNCHANGED <<free_next, live>>
    /\ UNCHANGED <<free_list, node, expected, next, calls>>

Next ==
    \E t \in Threads :
        \/ DropLast(t) \/ Link(t) \/ Push(t)
        \/ Allocate(t) \/ Look(t) \/ Pop(t) \/ Lock(t) \/ Grow(t)

(* The exchange of a push or a pop that succeeds. *)
Exchange(t) ==
    /\ pc[t] \in {"push", "pop"}
    /\ Push(t) \/ Pop(t)
    /\ pc'[t] = "idle"

(* Threads run; the mutex goes to everyone who keeps asking for it; and an *)
(* exchange that finds both words equal again and again succeeds.          *)
Spec ==
    /\ Init /\ [][Next]_vars
    /\ \A t \in Threads :
        /\ WF_vars(Link(t) \/ Push(t) \/ Look(t) \/ Pop(t) \/ Grow(t))
        /\ SF_vars(Lock(t))
        /\ SF_vars(Exchange(t))

--------------------------------------------------------------------------------
Nodes == DOMAIN free_next

TypeOK ==
    /\ free_list \in [head : Nodes \cup {Null}, tag : 0 .. MaxCalls]
    /\ free_next \in Seq(Nodes \cup {Null})
    /\ allocation_mutex \in Threads \cup {Null}
    /\ live \subseteq Nodes
    /\ pc \in [Threads -> {"idle", "link", "push", "look", "pop", "lock", "grow"}]
    /\ node \in [Threads -> Nodes \cup {Null}]
    /\ next \in [Threads -> Nodes \cup {Null}]

(* The node that is i links away from the head of the free list. *)
Linked[i \in Nat] ==
    IF i = 0 THEN free_list.head
    ELSE IF Linked[i - 1] = Null THEN Null ELSE free_next[Linked[i - 1]]

OnList == {Linked[i] : i \in 0 .. Len(free_next)} \ {Null}

InHand == {node[t] : t \in Threads} \ {Null}

(* A node is live, or on the free list, or in the hand of the one thread    *)
(* that is putting it there, and never two of these: allocate_node gives no *)
(* node to two owners, no node is lost, and the list has an end.           *)
EveryNodeInOnePlace ==
    /\ Linked[Len(free_next)] = Null
    /\ Nodes = live \cup OnList \cup InHand
    /\ live \cap OnList = {} /\ live \cap InHand = {} /\ OnList \cap InHand = {}
    /\ \A t, u \in Threads : node[t] = node[u] /\ node[t] # Null => t = u

(* Every call ends, though exchanges fail and threads wait for the mutex. *)
CallsReturn == \A t \in Threads : pc[t] # "idle" ~> pc[t] = "idle"

================================================================================
