---------------------------- MODULE NodePoolProofs -----------------------------
(***************************************************************************)
(* For any number of threads, nodes and calls: the free list is a list, no *)
(* node is on it twice or given to two owners, and none is lost, however   *)
(* the loads and exchanges of pushes and pops interleave.                  *)
(***************************************************************************)
EXTENDS NodePool, TLAPS, FiniteSetTheorems, SequenceTheorems, WellFoundedInduction

(* The threads inside a call; each of them will exchange at most once more. *)
Busy == {t \in Threads : pc[t] # "idle"}

Words == [head : Nodes \cup {Null}, tag : Nat]

Typed ==
    /\ free_list \in Words
    /\ free_next \in Seq(Nat)
    /\ \A n \in Nodes : free_next[n] \in Nodes \cup {Null}
    /\ allocation_mutex \in Threads \cup {Null}
    /\ live \subseteq Nodes
    /\ pc \in [Threads -> {"idle", "link", "push", "look", "pop", "lock", "grow"}]
    /\ node \in [Threads -> Nodes \cup {Null}]
    /\ next \in [Threads -> Nodes \cup {Null}]
    /\ expected \in [Threads -> Words]

(* Every exchange belongs to a call, and no call exchanges twice. *)
TagsWithinCalls ==
    /\ calls \in Nat /\ calls <= MaxCalls
    /\ IsFiniteSet(Busy)
    /\ free_list.tag + Cardinality(Busy) <= calls

(* A thread has a node in its hand while it puts it on the list, and it is *)
(* nobody else's.                                                          *)
HandsApart ==
    /\ \A t \in Threads : node[t] # Null <=> pc[t] \in {"link", "push"}
    /\ \A t \in Threads : node[t] \notin live
    /\ \A t, u \in Threads : node[t] = node[u] /\ node[t] # Null => t = u

(* What a thread has read is still true if the word has not changed since, *)
(* and the tag tells it whether it has.                                    *)
ReadsHold ==
    \A t \in Threads :
        /\ expected[t].tag <= free_list.tag
        /\ pc[t] = "push" => free_next[node[t]] = expected[t].head
        /\ pc[t] = "pop" =>
              /\ expected[t].head # Null
              /\ free_list = expected[t] => next[t] = free_next[expected[t].head]

(* The free list from its head to its end. *)
IsFreeList(list) ==
    /\ list \in Seq(Nodes)
    /\ free_list.head = IF list = << >> THEN Null ELSE list[1]
    /\ \A i \in 1..Len(list) :
          free_next[list[i]] = IF i = Len(list) THEN Null ELSE list[i + 1]
    /\ \A i, j \in 1..Len(list) : list[i] = list[j] => i = j
    /\ \A i \in 1..Len(list) : list[i] \notin live
    /\ \A i \in 1..Len(list), t \in Threads : node[t] # list[i]
    /\ \A n \in Nodes : \/ n \in live
                        \/ \E t \in Threads : node[t] = n
                        \/ \E i \in 1..Len(list) : list[i] = n

FreeListIs == \E list : IsFreeList(list)

PoolInv == Typed /\ TagsWithinCalls /\ HandsApart /\ ReadsHold /\ FreeListIs

-----------------------------------------------------------------------------
LEMMA NodesAre ==
  ASSUME Typed
  PROVE  /\ Len(free_next) \in Nat /\ Nodes = 1..Len(free_next) /\ Null \notin Nodes
         /\ Nodes \subseteq Nat
  BY LenProperties DEF Typed, Nodes, Null

LEMMA InitPool == Init => PoolInv
  <1> SUFFICES ASSUME Init PROVE PoolInv
    OBVIOUS
  <1>1. free_next \in Seq(Nat) /\ Nodes = {}
    BY EmptySeq DEF Init, Nodes
  <1>2. Typed
    BY <1>1 DEF Init, Typed, Words
  <1>3. Busy = {}
    BY DEF Init, Busy
  <1>4. TagsWithinCalls
    BY <1>3, FS_EmptySet, NodePoolAssumption DEF Init, TagsWithinCalls
  <1>5. HandsApart /\ ReadsHold
    BY DEF Init, HandsApart, ReadsHold, Null
  <1>6. IsFreeList(<< >>)
    BY <1>1, EmptySeq DEF Init, IsFreeList, Null
  <1> QED  BY <1>2, <1>4, <1>5, <1>6 DEF PoolInv, FreeListIs

-----------------------------------------------------------------------------
(* Calls and tags *)

LEMMA CallBegins ==
  ASSUME Typed, TagsWithinCalls, NEW t \in Threads, NEW label, label # "idle",
         pc[t] = "idle", calls < MaxCalls, calls' = calls + 1, free_list' = free_list,
         Goto(t, label)
  PROVE  TagsWithinCalls'
  <1>1. Busy' = Busy \cup {t} /\ t \notin Busy
    BY DEF Busy, Goto, Typed
  <1>2. IsFiniteSet(Busy') /\ Cardinality(Busy') = Cardinality(Busy) + 1
        /\ Cardinality(Busy) \in Nat
    BY <1>1, FS_AddElement, FS_CardinalityType DEF TagsWithinCalls
  <1> QED  BY <1>2, NodePoolAssumption DEF TagsWithinCalls, Typed, Words

LEMMA CallGoesOn ==
  ASSUME Typed, TagsWithinCalls, NEW t \in Threads, NEW label, label # "idle",
         pc[t] # "idle", UNCHANGED <<calls, free_list>>, Goto(t, label)
  PROVE  TagsWithinCalls'
  <1>1. Busy' = Busy
    BY DEF Busy, Goto, Typed
  <1> QED  BY <1>1 DEF TagsWithinCalls

LEMMA CallEnds ==
  ASSUME Typed, TagsWithinCalls, NEW t \in Threads,
         pc[t] # "idle", calls' = calls, free_list'.tag \in {free_list.tag, free_list.tag + 1},
         Goto(t, "idle")
  PROVE  TagsWithinCalls'
  <1>1. Busy' = Busy \ {t} /\ t \in Busy
    BY DEF Busy, Goto, Typed
  <1>2. IsFiniteSet(Busy') /\ Cardinality(Busy') = Cardinality(Busy) - 1
        /\ Cardinality(Busy) \in Nat
    BY <1>1, FS_RemoveElement, FS_CardinalityType DEF TagsWithinCalls
  <1> QED  BY <1>2, NodePoolAssumption DEF TagsWithinCalls, Typed, Words

-----------------------------------------------------------------------------
(* dec_node_ref *)

LEMMA DropLastStep ==
  ASSUME PoolInv, NEW t \in Threads, DropLast(t)
  PROVE  PoolInv'
  <1> USE DEF PoolInv
  <1>1. PICK n \in live : live' = live \ {n} /\ node' = [node EXCEPT ![t] = n]
    BY DEF DropLast
  <1>2. /\ pc[t] = "idle" /\ pc' = [pc EXCEPT ![t] = "link"]
        /\ UNCHANGED <<free_list, free_next, allocation_mutex, next>>
        /\ expected' = [expected EXCEPT ![t] = free_list]
    BY DEF DropLast, Goto, Load
  <1>3. n \in Nodes /\ n # Null /\ Nodes' = Nodes
    BY <1>1, <1>2, NodesAre DEF Typed, Nodes
  <1>4. Typed'
    BY <1>1, <1>2, <1>3 DEF Typed, Words
  <1>5. TagsWithinCalls'
    BY CallBegins DEF DropLast
  <1>6. node[t] = Null /\ \A u \in Threads : node[u] # n
    BY <1>1, <1>2 DEF HandsApart
  <1>7. HandsApart'
    BY <1>1, <1>2, <1>3, <1>6 DEF HandsApart, Typed
  <1>8. ReadsHold'
    BY <1>1, <1>2 DEF ReadsHold, Typed, Words
  <1>9. FreeListIs'
    <2>1. PICK list : IsFreeList(list)
      BY DEF FreeListIs
    <2>2. IsFreeList(list)'
      <3>1. \A u \in Threads : node'[u] = IF u = t THEN n ELSE node[u]
        BY <1>1 DEF Typed
      <3>2. \A i \in 1..Len(list), u \in Threads : node'[u] # list[i]
        BY <1>1, <2>1, <3>1 DEF IsFreeList
      <3>3. ASSUME NEW m \in Nodes
            PROVE  \/ m \in live'
                   \/ \E u \in Threads : node'[u] = m
                   \/ \E i \in 1..Len(list) : list[i] = m
        BY <1>1, <1>3, <1>6, <2>1, <3>1, NodesAre DEF IsFreeList
      <3> QED  BY <1>1, <1>2, <1>3, <2>1, <3>2, <3>3 DEF IsFreeList
    <2> QED  BY <2>2 DEF FreeListIs
  <1> QED  BY <1>4, <1>5, <1>7, <1>8, <1>9

LEMMA LinkStep ==
  ASSUME PoolInv, NEW t \in Threads, Link(t)
  PROVE  PoolInv'
  <1> USE DEF PoolInv
  <1> DEFINE n == node[t]
  <1>1. /\ pc[t] = "link" /\ pc' = [pc EXCEPT ![t] = "push"]
        /\ free_next' = [free_next EXCEPT ![n] = expected[t].head]
        /\ UNCHANGED <<free_list, allocation_mutex, live, node, expected, next, calls>>
    BY DEF Link, Goto
  <1>2. n \in Nodes /\ n # Null
    BY <1>1 DEF HandsApart, Typed
  <1>3. /\ expected[t].head \in Nodes \cup {Null} /\ expected[t].head \in Nat
    BY NodesAre DEF Typed, Words, Null
  <1> HIDE DEF n
  <1>4. /\ free_next' \in Seq(Nat) /\ Nodes' = Nodes
        /\ \A m \in Nodes : free_next'[m] = IF m = n THEN expected[t].head ELSE free_next[m]
    BY <1>1, <1>2, <1>3, NodesAre, ExceptSeq DEF Typed, Nodes
  <1>5. Typed'
    BY <1>1, <1>3, <1>4 DEF Typed, Words
  <1>6. TagsWithinCalls'
    BY <1>1, CallGoesOn DEF Goto
  <1>7. HandsApart'
    BY <1>1 DEF HandsApart, Typed
  <1>8. PICK list : IsFreeList(list)
    BY DEF FreeListIs
  <1>9. \A i \in 1..Len(list) : list[i] \in Nodes /\ list[i] # n
    BY <1>8, ElementOfSeq DEF IsFreeList, n
  <1>10. free_list.head # n
    <2>1. CASE list = << >>
      BY <1>2, <1>8, <2>1 DEF IsFreeList
    <2>2. CASE list # << >>
      <3>1. 1 \in 1..Len(list)
        BY <1>8, <2>2, EmptySeq, LenProperties DEF IsFreeList
      <3> QED  BY <1>8, <1>9, <2>2, <3>1 DEF IsFreeList
    <2> QED  BY <2>1, <2>2
  <1>11. ReadsHold'
    <2>1. ASSUME NEW u \in Threads, pc'[u] = "push"
          PROVE  free_next'[node'[u]] = expected'[u].head
      <3>1. CASE u = t
        BY <1>1, <1>2, <1>4, <3>1 DEF n
      <3>2. CASE u # t
        <4>1. pc[u] = "push" /\ node[u] # Null /\ node[u] \in Nodes /\ node[u] # n
          BY <1>1, <1>2, <2>1, <3>2 DEF HandsApart, Typed, n
        <4> QED  BY <1>1, <1>4, <4>1 DEF ReadsHold
      <3> QED  BY <3>1, <3>2
    <2>2. ASSUME NEW u \in Threads, pc'[u] = "pop"
          PROVE  /\ expected'[u].head # Null
                 /\ free_list' = expected'[u] => next'[u] = free_next'[expected'[u].head]
      <3>1. pc[u] = "pop"
        BY <1>1, <2>2 DEF Typed
      <3>2. expected[u].head \in Nodes
        BY <3>1 DEF ReadsHold, Typed, Words
      <3> QED  BY <1>1, <1>4, <1>10, <3>1, <3>2 DEF ReadsHold
    <2>3. \A u \in Threads : expected'[u].tag <= free_list'.tag
      BY <1>1 DEF ReadsHold
    <2> QED  BY <2>1, <2>2, <2>3 DEF ReadsHold
  <1>12. FreeListIs'
    <2>1. IsFreeList(list)'
      <3>1. \A i \in 1..Len(list) : free_next'[list[i]] = free_next[list[i]]
        BY <1>4, <1>9
      <3>2. \A i \in 1..Len(list) :
               free_next'[list[i]] = IF i = Len(list) THEN Null ELSE list[i + 1]
        BY <1>8, <3>1 DEF IsFreeList
      <3>3. UNCHANGED <<free_list, live, node>> /\ Nodes' = Nodes
        BY <1>1, <1>4
      <3> QED  BY <1>8, <3>2, <3>3 DEF IsFreeList
    <2> QED  BY <2>1 DEF FreeListIs
  <1> QED  BY <1>5, <1>6, <1>7, <1>11, <1>12

(* A node that was pushed is the head, and what was the list follows it. *)
LEMMA PushedList ==
  ASSUME Typed, HandsApart, NEW t \in Threads, NEW list, IsFreeList(list),
         node[t] # Null, free_next[node[t]] = free_list.head,
         free_list'.head = node[t], node' = [node EXCEPT ![t] = Null],
         UNCHANGED <<free_next, live>>
  PROVE  FreeListIs'
  <1> DEFINE n    == node[t]
             size == Len(list)
  <1>0. PICK new : new = <<n>> \o list
    OBVIOUS
  <1>1. list \in Seq(Nodes) /\ size \in Nat /\ n \in Nodes
    BY LenProperties DEF Typed, IsFreeList
  <1>2. /\ new \in Seq(Nodes) /\ Len(new) = size + 1
        /\ \A i \in 1..(size + 1) : new[i] = IF i = 1 THEN n ELSE list[i - 1]
    BY <1>0, <1>1
  <1>3. \A u \in Threads : node'[u] = IF u = t THEN Null ELSE node[u]
    BY DEF Typed
  <1>4. \A i \in 1..size : list[i] \in Nodes /\ list[i] # n
    BY <1>1, ElementOfSeq DEF IsFreeList
  <1>5. n \notin live /\ \A u \in Threads : u # t => node[u] # n
    BY DEF HandsApart
  <1>6. free_list.head = IF size = 0 THEN Null ELSE list[1]
    BY <1>1, EmptySeq DEF IsFreeList
  <1> HIDE DEF size
  <1>7. Len(new) = size + 1 /\ new # << >> /\ new[1] = n
    BY <1>1, <1>2, EmptySeq
  <1>8. ASSUME NEW i \in 1..Len(new)
        PROVE  /\ free_next'[new[i]] = IF i = Len(new) THEN Null ELSE new[i + 1]
               /\ new[i] \notin live'
               /\ \A u \in Threads : node'[u] # new[i]
               /\ \A j \in 1..Len(new) : new[i] = new[j] => i = j
    <2>1. CASE i = 1
      <3>1. new[i] = n
        BY <1>7, <2>1
      <3>2. IF i = Len(new) THEN free_next[n] = Null ELSE free_next[n] = new[i + 1]
        BY <1>1, <1>2, <1>6, <1>7, <2>1 DEF n
      <3>3. \A u \in Threads : node'[u] # n
        BY <1>1, <1>3, <1>5, NodesAre
      <3>4. ASSUME NEW j \in 1..Len(new), j # 1 PROVE new[j] # n
        <4>1. j \in 1..(size + 1) /\ j - 1 \in 1..size
          BY <1>1, <1>7, <3>4
        <4>2. new[j] = list[j - 1]
          BY <1>2, <3>4, <4>1
        <4> QED  BY <1>4, <4>1, <4>2
      <3>5. free_next'[new[i]] = IF i = Len(new) THEN Null ELSE new[i + 1]
        <4> HIDE DEF n
        <4>1. free_next'[new[i]] = free_next[n]
          BY <3>1
        <4> QED  BY <3>2, <4>1
      <3>6. new[i] \notin live' /\ \A u \in Threads : node'[u] # new[i]
        BY <1>5, <3>1, <3>3
      <3>7. \A j \in 1..Len(new) : new[i] = new[j] => i = j
        BY <2>1, <3>1, <3>4
      <3> QED  BY <3>5, <3>6, <3>7, Zenon
    <2>2. CASE i # 1
      <3> DEFINE k == i - 1
      <3>1. k \in 1..size /\ i = k + 1 /\ new[i] = list[k]
        BY <1>1, <1>2, <1>7, <2>2
      <3>2. /\ free_next[list[k]] = IF k = size THEN Null ELSE list[k + 1]
            /\ list[k] \notin live
            /\ \A u \in Threads : node[u] # list[k]
            /\ \A j \in 1..size : list[k] = list[j] => k = j
        BY <3>1 DEF IsFreeList, size
      <3> HIDE DEF k
      <3>3. IF i = Len(new) THEN k = size ELSE k # size /\ new[i + 1] = list[k + 1]
        BY <1>1, <1>2, <1>7, <3>1
      <3>4. free_next'[new[i]] = IF i = Len(new) THEN Null ELSE new[i + 1]
        BY <3>1, <3>2, <3>3
      <3>5. \A u \in Threads : node'[u] # new[i]
        BY <1>1, <1>3, <1>4, <3>1, <3>2, NodesAre
      <3>6. ASSUME NEW j \in 1..Len(new), new[i] = new[j] PROVE i = j
        BY <1>1, <1>2, <1>4, <1>7, <3>1, <3>2, <3>6
      <3> QED  BY <3>1, <3>2, <3>4, <3>5, <3>6
    <2> QED  BY <2>1, <2>2
  <1>9. ASSUME NEW m \in Nodes
        PROVE  \/ m \in live'
               \/ \E u \in Threads : node'[u] = m
               \/ \E i \in 1..Len(new) : new[i] = m
    <2>1. CASE m \in live
      BY <2>1
    <2>2. CASE \E u \in Threads : node[u] = m
      <3>1. PICK u \in Threads : node[u] = m
        BY <2>2
      <3>2. CASE u = t
        <4>1. 1 \in 1..Len(new) /\ new[1] = m
          BY <1>1, <1>7, <3>1, <3>2 DEF n
        <4> QED  BY <4>1
      <3>3. CASE u # t
        BY <1>3, <3>1, <3>3
      <3> QED  BY <3>2, <3>3
    <2>3. CASE \E i \in 1..size : list[i] = m
      <3>1. PICK i \in 1..size : list[i] = m
        BY <2>3
      <3>2. i + 1 \in 1..Len(new) /\ new[i + 1] = m
        BY <1>1, <1>2, <1>7, <3>1
      <3> QED  BY <3>2
    <2> QED  BY <2>1, <2>2, <2>3 DEF IsFreeList, size
  <1>10. Nodes' = Nodes /\ free_list'.head = new[1]
    BY <1>7 DEF Nodes, n
  <1> HIDE DEF n
  <1>11. IsFreeList(new)'
    BY <1>2, <1>7, <1>8, <1>9, <1>10 DEF IsFreeList
  <1> QED  BY <1>11 DEF FreeListIs

(* A node that was popped was the head; the rest is the list. *)
LEMMA PoppedList ==
  ASSUME Typed, NEW list, IsFreeList(list),
         free_list.head # Null,
         free_list'.head = free_next[free_list.head], live' = live \cup {free_list.head},
         UNCHANGED <<free_next, node>>
  PROVE  FreeListIs'
  <1> DEFINE n    == free_list.head
             size == Len(list)
             new  == Tail(list)
  <1>1. list \in Seq(Nodes) /\ size \in Nat /\ list # << >> /\ n = list[1]
    BY LenProperties DEF IsFreeList
  <1>2. /\ new \in Seq(Nodes) /\ size > 0 /\ Len(new) = size - 1
        /\ \A i \in 1..(size - 1) : new[i] = list[i + 1]
    BY <1>1, HeadTailProperties, EmptySeq
  <1>3. free_list'.head = IF size = 1 THEN Null ELSE list[2]
    <2>1. 1 \in 1..Len(list) /\ 1 + 1 = 2
      BY <1>1, <1>2
    <2>2. free_next[list[1]] = IF 1 = Len(list) THEN Null ELSE list[1 + 1]
      BY <2>1, Zenon DEF IsFreeList
    <2> QED  BY <1>1, <2>1, <2>2
  <1> HIDE DEF size, new, n
  <1>4. free_list'.head = IF new = << >> THEN Null ELSE new[1]
    BY <1>1, <1>2, <1>3, EmptySeq
  <1>5. ASSUME NEW i \in 1..Len(new)
        PROVE  /\ free_next'[new[i]] = IF i = Len(new) THEN Null ELSE new[i + 1]
               /\ new[i] \notin live'
               /\ \A u \in Threads : node'[u] # new[i]
               /\ \A j \in 1..Len(new) : new[i] = new[j] => i = j
    <2>1. i + 1 \in 1..size /\ new[i] = list[i + 1] /\ i + 1 # 1 /\ 1 \in 1..size
      BY <1>1, <1>2
    <2>2. /\ free_next[list[i + 1]] = IF i + 1 = size THEN Null ELSE list[i + 1 + 1]
          /\ list[i + 1] \notin live /\ list[i + 1] # n
          /\ \A u \in Threads : node[u] # list[i + 1]
      BY <1>1, <2>1 DEF IsFreeList, size
    <2>3. IF i = Len(new) THEN i + 1 = size ELSE i + 1 # size /\ new[i + 1] = list[i + 1 + 1]
      BY <1>1, <1>2
    <2>4. ASSUME NEW j \in 1..Len(new), new[i] = new[j] PROVE i = j
      <3>1. j + 1 \in 1..size /\ list[i + 1] = list[j + 1]
        BY <1>1, <1>2, <2>1, <2>4
      <3>2. i + 1 = j + 1
        BY <2>1, <3>1 DEF IsFreeList, size
      <3> QED  BY <1>1, <1>2, <3>2
    <2>5. new[i] \notin live'
      BY <2>1, <2>2 DEF n
    <2> QED  BY <2>1, <2>2, <2>3, <2>4, <2>5
  <1>6. ASSUME NEW m \in Nodes
        PROVE  \/ m \in live'
               \/ \E u \in Threads : node'[u] = m
               \/ \E i \in 1..Len(new) : new[i] = m
    <2>1. CASE m \in live
      BY <2>1
    <2>2. CASE \E u \in Threads : node[u] = m
      BY <2>2
    <2>3. CASE \E i \in 1..size : list[i] = m
      <3>1. PICK i \in 1..size : list[i] = m
        BY <2>3
      <3>2. CASE i = 1
        BY <1>1, <3>1, <3>2 DEF n
      <3>3. CASE i # 1
        <4>1. i - 1 \in 1..Len(new) /\ new[i - 1] = m
          BY <1>1, <1>2, <3>1, <3>3
        <4> QED  BY <4>1
      <3> QED  BY <3>2, <3>3
    <2> QED  BY <2>1, <2>2, <2>3 DEF IsFreeList, size
  <1>7. Nodes' = Nodes
    BY DEF Nodes
  <1>8. IsFreeList(new)'
    BY <1>2, <1>4, <1>5, <1>6, <1>7 DEF IsFreeList
  <1> QED  BY <1>8 DEF FreeListIs

LEMMA PushStep ==
  ASSUME PoolInv, NEW t \in Threads, Push(t)
  PROVE  PoolInv'
  <1> USE DEF PoolInv
  <1>1. /\ pc[t] = "push"
        /\ UNCHANGED <<free_next, allocation_mutex, live, next, calls>>
    BY DEF Push
  <1>2. node[t] \in Nodes /\ node[t] # Null /\ Nodes' = Nodes
    BY <1>1 DEF HandsApart, Typed, Nodes
  <1>3. CASE Pushed(t)
    <2>1. /\ free_list = expected[t]
          /\ free_list' = [head |-> node[t], tag |-> free_list.tag + 1]
          /\ node' = [node EXCEPT ![t] = Null]
          /\ pc' = [pc EXCEPT ![t] = "idle"]
          /\ expected' = expected
      BY <1>3 DEF Pushed, Matches, Goto
    <2>2. Typed'
      BY <1>1, <1>2, <2>1 DEF Typed, Words
    <2>3. TagsWithinCalls'
      BY <1>1, <2>1, CallEnds DEF Goto
    <2>4. HandsApart'
      <3>1. \A u \in Threads : /\ node'[u] = IF u = t THEN Null ELSE node[u]
                             /\ pc'[u] = IF u = t THEN "idle" ELSE pc[u]
        BY <2>1 DEF Typed
      <3>2. \A u \in Threads : node'[u] # Null <=> pc'[u] \in {"link", "push"}
        BY <3>1 DEF HandsApart
      <3>3. \A u \in Threads : node'[u] \notin live'
        BY <1>1, <3>1, NodesAre DEF HandsApart, Typed
      <3>4. \A u, v \in Threads : node'[u] = node'[v] /\ node'[u] # Null => u = v
        BY <3>1 DEF HandsApart
      <3> QED  BY <3>2, <3>3, <3>4 DEF HandsApart
    <2>5. ReadsHold'
      <3>1. \A u \in Threads : expected[u].tag <= free_list.tag /\ expected[u].tag \in Nat
        BY DEF ReadsHold, Typed, Words
      <3>2. \A u \in Threads : expected'[u].tag <= free_list'.tag /\ free_list' # expected'[u]
        BY <2>1, <3>1 DEF Typed, Words
      <3>3. \A u \in Threads : pc'[u] \in {"push", "pop"} => pc'[u] = pc[u] /\ node'[u] = node[u]
        BY <2>1 DEF Typed
      <3> QED  BY <1>1, <2>1, <3>2, <3>3 DEF ReadsHold
    <2>6. FreeListIs'
      <3>1. PICK list : IsFreeList(list)
        BY DEF FreeListIs
      <3>2. free_next[node[t]] = free_list.head /\ free_list'.head = node[t]
        BY <1>1, <2>1 DEF ReadsHold
      <3> QED  BY <1>1, <1>2, <2>1, <3>1, <3>2, PushedList
    <2> QED  BY <2>2, <2>3, <2>4, <2>5, <2>6
  <1>4. CASE Retry(t, "link")
    <2>1. /\ UNCHANGED <<free_list, node>>
          /\ pc' = [pc EXCEPT ![t] = "link"]
          /\ expected' = [expected EXCEPT ![t] = free_list]
      BY <1>4 DEF Retry, Load, Goto
    <2>2. Typed'
      BY <1>1, <1>2, <2>1 DEF Typed, Words
    <2>3. TagsWithinCalls'
      BY <1>1, <2>1, CallGoesOn DEF Goto
    <2>4. HandsApart'
      BY <1>1, <2>1 DEF HandsApart, Typed
    <2>5. ReadsHold'
      BY <1>1, <2>1 DEF ReadsHold, Typed, Words
    <2>6. FreeListIs'
      BY <1>1, <1>2, <2>1 DEF FreeListIs, IsFreeList
    <2> QED  BY <2>2, <2>3, <2>4, <2>5, <2>6
  <1> QED  BY <1>3, <1>4 DEF Push

-----------------------------------------------------------------------------
(* allocate_node *)

LEMMA AllocateStep ==
  ASSUME PoolInv, NEW t \in Threads, Allocate(t)
  PROVE  PoolInv'
  <1> USE DEF PoolInv
  <1>1. /\ pc[t] = "idle" /\ pc' = [pc EXCEPT ![t] = "look"]
        /\ expected' = [expected EXCEPT ![t] = free_list]
        /\ UNCHANGED <<free_list, free_next, allocation_mutex, live, node, next>>
    BY DEF Allocate, Load, Goto
  <1>2. Nodes' = Nodes
    BY <1>1 DEF Nodes
  <1>3. Typed'
    BY <1>1, <1>2 DEF Typed, Words
  <1>4. TagsWithinCalls'
    BY CallBegins DEF Allocate
  <1>5. HandsApart'
    BY <1>1 DEF HandsApart, Typed
  <1>6. ReadsHold'
    BY <1>1 DEF ReadsHold, Typed, Words
  <1>7. FreeListIs'
    BY <1>1, <1>2 DEF FreeListIs, IsFreeList
  <1> QED  BY <1>3, <1>4, <1>5, <1>6, <1>7

LEMMA LookStep ==
  ASSUME PoolInv, NEW t \in Threads, Look(t)
  PROVE  PoolInv'
  <1> USE DEF PoolInv
  <1>1. /\ pc[t] = "look"
        /\ UNCHANGED <<free_list, free_next, allocation_mutex, live, node, expected, calls>>
    BY DEF Look
  <1>2. Nodes' = Nodes
    BY <1>1 DEF Nodes
  <1>3. CASE expected[t].head # Null
    <2>1. /\ next' = [next EXCEPT ![t] = free_next[expected[t].head]]
          /\ pc' = [pc EXCEPT ![t] = "pop"]
      BY <1>3 DEF Look, Goto
    <2>2. expected[t].head \in Nodes /\ free_next[expected[t].head] \in Nodes \cup {Null}
      BY <1>3 DEF Typed, Words
    <2>3. Typed'
      BY <1>1, <1>2, <2>1, <2>2 DEF Typed, Words
    <2>4. TagsWithinCalls'
      BY <1>1, <2>1, CallGoesOn DEF Goto
    <2>5. HandsApart'
      BY <1>1, <2>1 DEF HandsApart, Typed
    <2>6. ReadsHold'
      BY <1>1, <1>3, <2>1 DEF ReadsHold, Typed
    <2> QED  BY <1>1, <1>2, <2>3, <2>4, <2>5, <2>6 DEF FreeListIs, IsFreeList
  <1>4. CASE expected[t].head = Null
    <2>1. PICK label \in {"grow", "lock"} : pc' = [pc EXCEPT ![t] = label]
      BY <1>4 DEF Look, Goto
    <2>2. next' = next
      BY <1>4 DEF Look
    <2>3. Typed'
      BY <1>1, <1>2, <2>1, <2>2 DEF Typed, Words
    <2>4. TagsWithinCalls'
      BY <1>1, <2>1, CallGoesOn DEF Goto
    <2>5. HandsApart'
      BY <1>1, <2>1 DEF HandsApart, Typed
    <2>6. ReadsHold'
      BY <1>1, <2>1, <2>2 DEF ReadsHold, Typed
    <2> QED  BY <1>1, <1>2, <2>3, <2>4, <2>5, <2>6 DEF FreeListIs, IsFreeList
  <1> QED  BY <1>3, <1>4

LEMMA PopStep ==
  ASSUME PoolInv, NEW t \in Threads, Pop(t)
  PROVE  PoolInv'
  <1> USE DEF PoolInv
  <1>1. pc[t] = "pop" /\ UNCHANGED <<free_next, next, calls>> /\ node' = node
    BY DEF Pop, Popped, Retry
  <1>2. Nodes' = Nodes
    BY <1>1 DEF Nodes
  <1>3. CASE Popped(t)
    <2>1. /\ free_list = expected[t]
          /\ free_list' = [head |-> next[t], tag |-> free_list.tag + 1]
          /\ live' = live \cup {free_list.head}
          /\ allocation_mutex' \in {Null, allocation_mutex}
          /\ pc' = [pc EXCEPT ![t] = "idle"]
          /\ expected' = expected
      BY <1>3 DEF Popped, Matches, Return, Goto
    <2>2. /\ free_list.head \in Nodes /\ free_list.head # Null
          /\ next[t] = free_next[free_list.head]
      BY <1>1, <2>1 DEF ReadsHold, Typed, Words
    <2>3. Typed'
      BY <1>1, <1>2, <2>1, <2>2 DEF Typed, Words
    <2>4. TagsWithinCalls'
      BY <1>1, <2>1, CallEnds DEF Goto
    <2>5. PICK list : IsFreeList(list)
      BY DEF FreeListIs
    <2>6. \A u \in Threads : node[u] # free_list.head
      <3>1. list # << >> /\ list \in Seq(Nodes) /\ free_list.head = list[1]
        BY <2>2, <2>5 DEF IsFreeList
      <3>2. 1 \in 1..Len(list)
        BY <3>1, EmptySeq, LenProperties
      <3> QED  BY <2>5, <3>1, <3>2 DEF IsFreeList
    <2>7. HandsApart'
      BY <1>1, <2>1, <2>6 DEF HandsApart, Typed
    <2>8. ReadsHold'
      <3>1. \A u \in Threads : expected[u].tag <= free_list.tag /\ expected[u].tag \in Nat
        BY DEF ReadsHold, Typed, Words
      <3>2. \A u \in Threads : expected'[u].tag <= free_list'.tag /\ free_list' # expected'[u]
        BY <2>1, <3>1 DEF Typed, Words
      <3>3. \A u \in Threads : pc'[u] \in {"push", "pop"} => pc'[u] = pc[u]
        BY <2>1 DEF Typed
      <3> QED  BY <1>1, <2>1, <3>2, <3>3 DEF ReadsHold
    <2>9. free_list'.head = free_next[free_list.head]
      BY <2>1, <2>2
    <2>10. FreeListIs'
      BY <1>1, <2>1, <2>2, <2>5, <2>9, PoppedList
    <2> QED  BY <2>3, <2>4, <2>7, <2>8, <2>10
  <1>4. CASE Retry(t, "look") /\ UNCHANGED <<live, allocation_mutex>>
    <2>1. /\ UNCHANGED <<free_list, node, live, allocation_mutex>>
          /\ pc' = [pc EXCEPT ![t] = "look"]
          /\ expected' = [expected EXCEPT ![t] = free_list]
      BY <1>4 DEF Retry, Load, Goto
    <2>2. Typed'
      BY <1>1, <1>2, <2>1 DEF Typed, Words
    <2>3. TagsWithinCalls'
      BY <1>1, <2>1, CallGoesOn DEF Goto
    <2>4. HandsApart'
      BY <1>1, <2>1 DEF HandsApart, Typed
    <2>5. ReadsHold'
      BY <1>1, <2>1 DEF ReadsHold, Typed, Words
    <2>6. FreeListIs'
      BY <1>1, <1>2, <2>1 DEF FreeListIs, IsFreeList
    <2> QED  BY <2>2, <2>3, <2>4, <2>5, <2>6
  <1> QED  BY <1>3, <1>4 DEF Pop

LEMMA LockStep ==
  ASSUME PoolInv, NEW t \in Threads, Lock(t)
  PROVE  PoolInv'
  <1> USE DEF PoolInv
  <1>1. /\ pc[t] = "lock" /\ pc' = [pc EXCEPT ![t] = "look"]
        /\ allocation_mutex' = t
        /\ expected' = [expected EXCEPT ![t] = free_list]
        /\ UNCHANGED <<free_list, free_next, live, node, next, calls>>
    BY DEF Lock, Load, Goto
  <1>2. Nodes' = Nodes
    BY <1>1 DEF Nodes
  <1>3. Typed'
    BY <1>1, <1>2 DEF Typed, Words
  <1>4. TagsWithinCalls'
    BY <1>1, CallGoesOn DEF Goto
  <1>5. HandsApart'
    BY <1>1 DEF HandsApart, Typed
  <1>6. ReadsHold'
    BY <1>1 DEF ReadsHold, Typed, Words
  <1>7. FreeListIs'
    BY <1>1, <1>2 DEF FreeListIs, IsFreeList
  <1> QED  BY <1>3, <1>4, <1>5, <1>6, <1>7

LEMMA GrowStep ==
  ASSUME PoolInv, NEW t \in Threads, Grow(t)
  PROVE  PoolInv'
  <1> USE DEF PoolInv
  <1>1. /\ pc[t] = "grow" /\ pc' = [pc EXCEPT ![t] = "idle"]
        /\ allocation_mutex' \in {Null, allocation_mutex}
        /\ UNCHANGED <<free_list, node, expected, next, calls>>
    BY DEF Grow, Return, Goto
  <1>2. TagsWithinCalls'
    BY <1>1, CallEnds DEF Goto
  <1>3. CASE free_next' = Append(free_next, Null) /\ live' = live \cup {Len(free_next) + 1}
    <2> DEFINE n == Len(free_next) + 1
    <2>1. n \notin Nodes /\ n # Null /\ n \in Nat
      BY NodesAre DEF Null
    <2>2. /\ free_next' \in Seq(Nat) /\ Nodes' = Nodes \cup {n}
          /\ free_next'[n] = Null
          /\ \A m \in Nodes : free_next'[m] = free_next[m]
      BY <1>3, NodesAre DEF Typed, Nodes, Null
    <2>3. live' = live \cup {n}
      BY <1>3
    <2> HIDE DEF n
    <2>4. Typed'
      BY <1>1, <2>2, <2>3 DEF Typed, Words
    <2>5. HandsApart'
      BY <1>1, <2>1, <2>3 DEF HandsApart, Typed
    <2>6. ReadsHold'
      <3>1. ASSUME NEW u \in Threads, pc'[u] = "push"
            PROVE  free_next'[node'[u]] = expected'[u].head
        <4>1. pc[u] = "push" /\ node[u] \in Nodes
          BY <1>1, <3>1 DEF HandsApart, Typed
        <4> QED  BY <1>1, <2>2, <4>1 DEF ReadsHold
      <3>2. ASSUME NEW u \in Threads, pc'[u] = "pop"
            PROVE  /\ expected'[u].head # Null
                   /\ free_list' = expected'[u] => next'[u] = free_next'[expected'[u].head]
        <4>1. pc[u] = "pop"
          BY <1>1, <3>2 DEF Typed
        <4>2. expected[u].head \in Nodes
          BY <4>1 DEF ReadsHold, Typed, Words
        <4> QED  BY <1>1, <2>2, <4>1, <4>2 DEF ReadsHold
      <3>3. \A u \in Threads : expected'[u].tag <= free_list'.tag
        BY <1>1 DEF ReadsHold
      <3> QED  BY <3>1, <3>2, <3>3 DEF ReadsHold
    <2>7. PICK list : IsFreeList(list)
      BY DEF FreeListIs
    <2>8. IsFreeList(list)'
      <3>1. list \in Seq(Nodes) /\ \A i \in 1..Len(list) : list[i] \in Nodes
        BY <2>7, ElementOfSeq DEF IsFreeList
      <3>2. list \in Seq(Nodes')
        BY <2>2, <3>1, SeqMonotonic
      <3>3. \A i \in 1..Len(list) : free_next'[list[i]] = free_next[list[i]]
        BY <2>2, <3>1
      <3>4. \A i \in 1..Len(list) :
               free_next'[list[i]] = IF i = Len(list) THEN Null ELSE list[i + 1]
        BY <2>7, <3>3 DEF IsFreeList
      <3>5. \A i \in 1..Len(list) : list[i] \notin live'
        BY <2>1, <2>3, <2>7, <3>1 DEF IsFreeList
      <3>6. \A m \in Nodes' : \/ m \in live'
                              \/ \E u \in Threads : node'[u] = m
                              \/ \E i \in 1..Len(list) : list[i] = m
        BY <1>1, <2>2, <2>3, <2>7 DEF IsFreeList
      <3> QED  BY <1>1, <2>7, <3>2, <3>4, <3>5, <3>6 DEF IsFreeList
    <2>9. FreeListIs'
      BY <2>8 DEF FreeListIs
    <2> QED  BY <1>2, <2>4, <2>5, <2>6, <2>9
  <1>4. CASE UNCHANGED <<free_next, live>>
    <2>1. Nodes' = Nodes
      BY <1>4 DEF Nodes
    <2>2. Typed'
      BY <1>1, <1>4, <2>1 DEF Typed, Words
    <2>3. HandsApart'
      BY <1>1, <1>4 DEF HandsApart, Typed
    <2>4. ReadsHold'
      BY <1>1, <1>4 DEF ReadsHold, Typed
    <2>5. FreeListIs'
      BY <1>1, <1>4, <2>1 DEF FreeListIs, IsFreeList
    <2> QED  BY <1>2, <2>2, <2>3, <2>4, <2>5
  <1> QED  BY <1>3, <1>4 DEF Grow, Return

-----------------------------------------------------------------------------
LEMMA StepPool == PoolInv /\ [Next]_vars => PoolInv'
  <1> SUFFICES ASSUME PoolInv, [Next]_vars PROVE PoolInv'
    OBVIOUS
  <1>1. CASE UNCHANGED vars
    <2> USE <1>1 DEF vars, PoolInv
    <2>1. Nodes' = Nodes /\ Busy' = Busy
      BY DEF Nodes, Busy
    <2>2. Typed'
      BY <2>1 DEF Typed, Words
    <2>3. TagsWithinCalls'
      BY <2>1 DEF TagsWithinCalls
    <2>4. HandsApart' /\ ReadsHold'
      BY DEF HandsApart, ReadsHold
    <2>5. FreeListIs'
      BY <2>1 DEF FreeListIs, IsFreeList
    <2> QED  BY <2>2, <2>3, <2>4, <2>5
  <1> QED  BY <1>1, DropLastStep, LinkStep, PushStep, AllocateStep, LookStep, PopStep,
              LockStep, GrowStep DEF Next

LEMMA PoolInvHolds == Spec => []PoolInv
  BY InitPool, StepPool, PTL DEF Spec

(* The list never names a node the arena has not given out, and its tag is *)
(* never higher than the number of calls, so it does not come round.       *)
THEOREM PoolTyped == Spec => []TypeOK
  <1>1. PoolInv => TypeOK
    <2> SUFFICES ASSUME PoolInv PROVE TypeOK
      OBVIOUS
    <2>1. Cardinality(Busy) \in Nat
      BY FS_CardinalityType DEF PoolInv, TagsWithinCalls
    <2>2. free_list.tag \in 0..MaxCalls
      BY <2>1, NodePoolAssumption DEF PoolInv, TagsWithinCalls, Typed, Words
    <2>3. free_next \in Seq(Nodes \cup {Null})
      <3>1. \A i \in 1..Len(free_next) : free_next[i] \in Nodes \cup {Null}
        BY NodesAre DEF PoolInv, Typed
      <3> QED  BY <3>1, NodesAre, LenProperties DEF PoolInv, Typed
    <2> QED  BY <2>2, <2>3 DEF PoolInv, Typed, Words, TypeOK
  <1> QED  BY <1>1, PoolInvHolds, PTL

-----------------------------------------------------------------------------
(* The list as it is counted from the head *)

LinkedDef == Linked = [i \in Nat |-> IF i = 0 THEN free_list.head
                                     ELSE IF Linked[i - 1] = Null THEN Null
                                     ELSE free_next[Linked[i - 1]]]

(* There is a function as Linked is defined: the list, and Null behind it. *)
LEMMA LinkedIs ==
  ASSUME NEW list, IsFreeList(list), Null \notin Nodes
  PROVE  LinkedDef
  <1> DEFINE f == [i \in Nat |-> IF i < Len(list) THEN list[i + 1] ELSE Null]
  <1>1. list \in Seq(Nodes) /\ Len(list) \in Nat
    BY LenProperties DEF IsFreeList
  <1>2. \A i \in 1..Len(list) : list[i] # Null
    BY <1>1, ElementOfSeq
  <1>3. free_list.head = IF Len(list) = 0 THEN Null ELSE list[1]
    BY <1>1, EmptySeq DEF IsFreeList
  <1>4. ASSUME NEW i \in Nat
        PROVE  f[i] = IF i = 0 THEN free_list.head
                      ELSE IF f[i - 1] = Null THEN Null ELSE free_next[f[i - 1]]
    <2>1. CASE i = 0
      BY <1>1, <1>3, <2>1
    <2>2. CASE i # 0
      <3>1. i - 1 \in Nat /\ i - 1 + 1 = i
        BY <2>2
      <3>2. CASE i - 1 < Len(list)
        <4>1. i \in 1..Len(list) /\ f[i - 1] = list[i]
          BY <1>1, <3>1, <3>2
        <4>2. free_next[list[i]] = IF i = Len(list) THEN Null ELSE list[i + 1]
          BY <4>1 DEF IsFreeList
        <4>3. f[i] = IF i = Len(list) THEN Null ELSE list[i + 1]
          BY <1>1, <4>1
        <4> HIDE DEF f
        <4> QED  BY <1>2, <2>2, <4>1, <4>2, <4>3
      <3>3. CASE ~(i - 1 < Len(list))
        <4>1. f[i - 1] = Null /\ f[i] = Null
          BY <1>1, <3>1, <3>3
        <4> HIDE DEF f
        <4> QED  BY <2>2, <4>1
      <3> QED  BY <3>2, <3>3
    <2> QED  BY <2>1, <2>2
  <1> HIDE DEF f
  <1> DEFINE Shape(g) == g = [i \in Nat |-> IF i = 0 THEN free_list.head
                                            ELSE IF g[i - 1] = Null THEN Null
                                            ELSE free_next[g[i - 1]]]
  <1>5. f = [i \in Nat |-> f[i]]
    BY DEF f
  <1>6. Shape(f)
    BY <1>4, <1>5
  <1>7. Linked = CHOOSE g : Shape(g)
    BY DEF Linked
  <1> HIDE DEF Shape
  <1>8. Shape(Linked)
    BY <1>6, <1>7
  <1> QED  BY <1>8, Zenon DEF Shape, LinkedDef

LEMMA LinkedGives ==
  ASSUME NEW list, IsFreeList(list), Null \notin Nodes, NEW i \in Nat
  PROVE  Linked[i] = IF i < Len(list) THEN list[i + 1] ELSE Null
  <1> DEFINE Want(k) == IF k < Len(list) THEN list[k + 1] ELSE Null
             Bad == {k \in Nat : Linked[k] # Want(k)}
  <1>1. list \in Seq(Nodes) /\ Len(list) \in Nat
    BY LenProperties DEF IsFreeList
  <1>2. \A k \in 1..Len(list) : list[k] # Null
    BY <1>1, ElementOfSeq
  <1>3. free_list.head = IF Len(list) = 0 THEN Null ELSE list[1]
    BY <1>1, EmptySeq DEF IsFreeList
  <1>4. \A k \in Nat : Linked[k] = IF k = 0 THEN free_list.head
                                   ELSE IF Linked[k - 1] = Null THEN Null
                                   ELSE free_next[Linked[k - 1]]
    BY LinkedIs, Zenon DEF LinkedDef
  <1>5. SUFFICES ASSUME Bad # {} PROVE FALSE
    OBVIOUS
  <1>6. PICK k \in Bad : \A l \in Bad : <<l, k>> \notin OpToRel(<, Nat)
    <2>1. \E k \in Bad : \A l \in Bad : <<l, k>> \notin OpToRel(<, Nat)
      BY <1>5, WFMin, NatLessThanWellFounded
    <2> QED  BY <2>1
  <1>7. k \in Nat /\ Linked[k] # Want(k)
    OBVIOUS
  <1>8. CASE k = 0
    BY <1>1, <1>3, <1>4, <1>7, <1>8
  <1>9. CASE k # 0
    <2>1. k - 1 \in Nat /\ k - 1 < k /\ k - 1 + 1 = k
      BY <1>7, <1>9
    <2>2. k - 1 \notin Bad
      BY <1>6, <1>7, <2>1 DEF OpToRel
    <2>3. Linked[k - 1] = Want(k - 1)
      BY <2>1, <2>2
    <2>4. Linked[k] = IF Linked[k - 1] = Null THEN Null ELSE free_next[Linked[k - 1]]
      BY <1>4, <1>7, <1>9
    <2>5. CASE k - 1 < Len(list)
      <3>1. k \in 1..Len(list) /\ Linked[k - 1] = list[k]
        BY <1>1, <1>7, <2>1, <2>3, <2>5
      <3>2. Linked[k] = IF k = Len(list) THEN Null ELSE list[k + 1]
        BY <1>2, <2>4, <3>1 DEF IsFreeList
      <3> QED  BY <1>1, <1>7, <3>1, <3>2
    <2>6. CASE ~(k - 1 < Len(list))
      <3>1. Linked[k] = Null
        BY <2>3, <2>4, <2>6
      <3> QED  BY <1>1, <1>7, <2>1, <2>6, <3>1
    <2> QED  BY <2>5, <2>6
  <1> QED  BY <1>8, <1>9

(* A list of different nodes is not longer than there are nodes. *)
LEMMA ListFits ==
  ASSUME Typed, NEW list, IsFreeList(list)
  PROVE  Len(list) \in Nat /\ Len(list) <= Len(free_next)
  <1> DEFINE n == Len(list)
             f == [i \in 1..n |-> list[i]]
  <1>1. list \in Seq(Nodes) /\ n \in Nat /\ Len(free_next) \in Nat /\ Nodes = 1..Len(free_next)
    BY NodesAre, LenProperties DEF IsFreeList
  <1>2. \A i \in 1..n : list[i] \in Nodes
    BY <1>1, ElementOfSeq
  <1>3. f \in Injection(1..n, Nodes)
    BY <1>2 DEF IsFreeList, Injection, IsInjective
  <1> HIDE DEF f, n
  <1>4. /\ IsFiniteSet(1..n) /\ Cardinality(1..n) = n
        /\ IsFiniteSet(Nodes) /\ Cardinality(Nodes) = Len(free_next)
    <2>1. \A a, b \in Int : /\ IsFiniteSet(a..b)
                            /\ Cardinality(a..b) = IF a > b THEN 0 ELSE b - a + 1
      BY FS_Interval, Zenon
    <2>2. \A b \in Nat : IsFiniteSet(1..b) /\ Cardinality(1..b) = b
      <3> SUFFICES ASSUME NEW b \in Nat PROVE IsFiniteSet(1..b) /\ Cardinality(1..b) = b
        OBVIOUS
      <3>1. 1 \in Int /\ b \in Int
        OBVIOUS
      <3>2. IsFiniteSet(1..b) /\ Cardinality(1..b) = IF 1 > b THEN 0 ELSE b - 1 + 1
        BY <2>1, <3>1, Zenon
      <3> QED  BY <3>2
    <2> QED  BY <1>1, <2>2
  <1>5. Cardinality(1..n) <= Cardinality(Nodes)
    BY <1>3, <1>4, FS_Injection
  <1> QED  BY <1>1, <1>4, <1>5 DEF n

(* Between the loads and exchanges of all threads every node the arena has *)
(* given out is in one place: it is live, or on the free list, or one      *)
(* thread is about to put it there.  No node is given to two owners, none  *)
(* is lost, and the list comes to its end: a stale head and link are never *)
(* taken for current ones, since the tag has moved on.                     *)
THEOREM NodesStayInOnePlace == Spec => []EveryNodeInOnePlace
  <1>1. PoolInv => EveryNodeInOnePlace
    <2> SUFFICES ASSUME PoolInv PROVE EveryNodeInOnePlace
      OBVIOUS
    <2> USE DEF PoolInv
    <2>1. PICK list : IsFreeList(list)
      BY DEF FreeListIs
    <2>2. /\ list \in Seq(Nodes) /\ Len(list) \in Nat /\ Len(free_next) \in Nat
          /\ Len(list) <= Len(free_next)
          /\ Null \notin Nodes
      BY <2>1, NodesAre, ListFits DEF IsFreeList
    <2>3. \A i \in 1..Len(list) : list[i] \in Nodes
      BY <2>2, ElementOfSeq
    <2>4. \A i \in Nat : Linked[i] = IF i < Len(list) THEN list[i + 1] ELSE Null
      BY <2>1, <2>2, LinkedGives
    <2>5. OnList = {list[i] : i \in 1..Len(list)}
      <3>1. ASSUME NEW n \in OnList PROVE n \in {list[i] : i \in 1..Len(list)}
        <4>1. PICK i \in 0..Len(free_next) : n = Linked[i] /\ n # Null
          BY DEF OnList
        <4>2. i < Len(list) /\ n = list[i + 1]
          BY <2>2, <2>4, <4>1
        <4>3. i + 1 \in 1..Len(list)
          BY <2>2, <4>2
        <4> QED  BY <4>2, <4>3
      <3>2. ASSUME NEW i \in 1..Len(list) PROVE list[i] \in OnList
        <4>1. i - 1 \in 0..Len(free_next) /\ i - 1 \in Nat /\ i - 1 < Len(list) /\ i - 1 + 1 = i
          BY <2>2
        <4>2. Linked[i - 1] = list[i]
          BY <2>4, <4>1
        <4> QED  BY <2>2, <2>3, <4>1, <4>2 DEF OnList
      <3> QED  BY <3>1, <3>2
    <2>6. Linked[Len(free_next)] = Null
      BY <2>2, <2>4
    <2>7. \A n \in InHand : n \in Nodes /\ \E t \in Threads : node[t] = n
      BY DEF InHand, Typed
    <2>8. Nodes = live \cup OnList \cup InHand
      <3>1. \A n \in Nodes : n \in live \cup OnList \cup InHand
        BY <2>1, <2>2, <2>5 DEF IsFreeList, InHand
      <3>2. live \cup OnList \cup InHand \subseteq Nodes
        BY <2>3, <2>5, <2>7 DEF Typed
      <3> QED  BY <3>1, <3>2
    <2>9. live \cap OnList = {} /\ OnList \cap InHand = {}
      BY <2>1, <2>5, <2>7 DEF IsFreeList
    <2>10. live \cap InHand = {}
      BY <2>7 DEF HandsApart
    <2> QED  BY <2>6, <2>8, <2>9, <2>10 DEF EveryNodeInOnePlace, HandsApart
  <1> QED  BY <1>1, PoolInvHolds, PTL

=============================================================================
