---------------------------------- MODULE Pool ---------------------------------
(***************************************************************************)
(* The segmented object pool of src/src/containers/containers.hpp: objects *)
(* keep their address for life, free entries are chained through their own *)
(* storage, and a handle names an entry together with the generation the   *)
(* entry had when the object was made.                                     *)
(*                                                                         *)
(* Every operation holds the pool's lock from its first access to its last *)
(* (for writing if it changes anything), so each is one step of the pool   *)
(* whichever threads call it.                                              *)
(***************************************************************************)
EXTENDS Integers, FiniteSets

CONSTANTS
    SmallSegment,  \* slots of the first segment: 64 in the code
    MaxSegments,   \* kMaxSegments: 26 in the code
    Generations,   \* values of the 32-bit generation, of which 0 is no handle's
    MaxEmplaces    \* bound on the objects ever made

ASSUME PoolAssumption ==
    /\ SmallSegment \in Nat \ {0} /\ MaxSegments \in Nat /\ MaxEmplaces \in Nat
    /\ Generations \in Nat /\ Generations > 2

(* UINT32_MAX and the value before it, which are no index. *)
NotInFreelist == -1
EndOfList == -2

VARIABLES
    entries,              \* the committed entries, by segment and slot
    m_used_segments,
    m_capacity,
    m_count,
    m_head,               \* the first free index
    m_latest_generation,
    made,                 \* how many objects were ever made
    issued,               \* the handle that each of them got
    alive                 \* those neither erased nor cleared away

vars == <<entries, m_used_segments, m_capacity, m_count, m_head,
          m_latest_generation, made, issued, alive>>

slots_in_segment(k) == SmallSegment * 2 ^ k

capacity_for_segment_count(k) == SmallSegment * 2 ^ k - SmallSegment

(* 31 - clz32(idx / 64 + 1): the position of the highest bit. *)
segment_for_index(idx) ==
    CHOOSE k \in 0 .. MaxSegments :
        2 ^ k <= idx \div SmallSegment + 1 /\ idx \div SmallSegment + 1 < 2 ^ (k + 1)

(* Fault: the slot of an index wraps at the size of the first segment. *)
get_in_block(idx) ==
    LET segment == segment_for_index(idx)
    IN  <<segment, (idx - capacity_for_segment_count(segment)) % SmallSegment>>

(* The entry of an index, as a segment and a slot. *)
get(idx) ==
    LET segment == segment_for_index(idx)
    IN  <<segment, idx - capacity_for_segment_count(segment)>>

(* ++generation of a U32, skipping the value that no handle may have. *)
next_generation(g) == IF g + 1 = Generations THEN 1 ELSE g + 1

Init ==
    /\ entries = <<>>
    /\ m_used_segments = 0
    /\ m_capacity = 0
    /\ m_count = 0
    /\ m_head = EndOfList
    /\ m_latest_generation = 0
    /\ made = 0
    /\ issued = <<>>
    /\ alive = {}

(* A handle is good if its entry exists, is in use and has its generation. *)
get_if_valid(handle) ==
    /\ handle.idx < m_capacity
    /\ handle.generation # 0
    /\ LET entry == entries[get(handle.idx)]
       IN  entry.next = NotInFreelist /\ entry.generation = handle.generation

Slots == {m_used_segments} \X (0 .. slots_in_segment(m_used_segments) - 1)

(* Fault: the last new entry is chained past the end of its segment. *)
SegmentOverrun ==
    [place \in Slots |->
        [generation |-> 0, object |-> 0, next |-> m_capacity + place[2] + 1]]

(* The next segment: its slots are chained in order, down to the list there *)
(* was, and every generation is 0.                                         *)
Segment ==
    [place \in Slots |->
        [generation |-> 0, object |-> 0,
         next |-> IF place[2] + 1 = slots_in_segment(m_used_segments) THEN m_head
                  ELSE m_capacity + place[2] + 1]]

Grown == [p \in DOMAIN entries \cup Slots |->
            IF p \in DOMAIN entries THEN entries[p] ELSE Segment[p]]

(* The part of emplace that calls add_segment when no entry is free.  If    *)
(* the segment cannot be committed, or there are kMaxSegments, emplace     *)
(* throws and nothing has changed.                                         *)
add_segment ==
    /\ m_head = EndOfList /\ m_used_segments < MaxSegments
    /\ m_used_segments' = m_used_segments + 1
    /\ m_capacity' = m_capacity + slots_in_segment(m_used_segments)

(* The object is built in the entry of index idx of the given entries. *)
Place(idx, table) ==
    /\ m_head' = table[get(idx)].next
    /\ m_latest_generation' = next_generation(m_latest_generation)
    /\ entries' = [table EXCEPT ![get(idx)] =
                      [next |-> NotInFreelist, generation |-> m_latest_generation',
                       object |-> made + 1]]
    /\ m_count' = m_count + 1
    /\ made' = made + 1
    /\ issued' = [o \in 1 .. made + 1 |->
                    IF o <= made THEN issued[o]
                    ELSE [idx |-> idx, generation |-> m_latest_generation']]
    /\ alive' = alive \cup {made + 1}

emplace ==
    /\ made < MaxEmplaces
    /\ \/ /\ m_head # EndOfList
          /\ Place(m_head, entries)
          /\ UNCHANGED <<m_used_segments, m_capacity>>
       \/ /\ add_segment
          /\ Place(m_capacity, Grown)

(* The constructor of the object throws: a new segment stays, nothing else. *)
emplace_throws ==
    /\ add_segment
    /\ entries' = Grown
    /\ m_head' = m_capacity
    /\ UNCHANGED <<m_count, m_latest_generation, made, issued, alive>>

(* Fault: erase trusts its caller and does not look at the handle. *)
erase_unchecked(object) ==
    LET handle == issued[object] IN
    /\ handle.idx < m_capacity
    /\ entries' = [entries EXCEPT ![get(handle.idx)].next = m_head]
    /\ m_head' = handle.idx
    /\ m_count' = m_count - 1
    /\ alive' = alive \ {object}
    /\ UNCHANGED <<m_used_segments, m_capacity, m_latest_generation, made, issued>>

(* A handle that is not good throws, and a good one frees its entry, which  *)
(* keeps its generation.                                                   *)
erase(object) ==
    LET handle == issued[object] IN
    /\ get_if_valid(handle)
    /\ entries' = [entries EXCEPT ![get(handle.idx)].next = m_head]
    /\ m_head' = handle.idx
    /\ m_count' = m_count - 1
    /\ alive' = alive \ {entries[get(handle.idx)].object}
    /\ UNCHANGED <<m_used_segments, m_capacity, m_latest_generation, made, issued>>

(* Every segment is decommitted; the generations go on. *)
clear ==
    /\ entries' = <<>>
    /\ m_used_segments' = 0 /\ m_capacity' = 0 /\ m_count' = 0
    /\ m_head' = EndOfList
    /\ alive' = {}
    /\ UNCHANGED <<m_latest_generation, made, issued>>

Next == emplace \/ emplace_throws \/ clear \/ \E object \in 1 .. made : erase(object)

Spec == Init /\ [][Next]_vars

--------------------------------------------------------------------------------
Indices == 0 .. m_capacity - 1

TypeOK ==
    /\ m_used_segments \in 0 .. MaxSegments
    /\ m_head \in Indices \cup {EndOfList}
    /\ m_latest_generation \in 0 .. Generations - 1
    /\ DOMAIN issued = 1 .. made /\ alive \subseteq 1 .. made
    /\ \A p \in DOMAIN entries :
        /\ entries[p].next \in Indices \cup {EndOfList, NotInFreelist}
        /\ entries[p].generation \in 0 .. Generations - 1
        /\ entries[p].object \in 0 .. made

(* The index that is i links down the free list. *)
Free[i \in Nat] ==
    IF i = 0 THEN m_head
    ELSE IF Free[i - 1] = EndOfList THEN EndOfList ELSE entries[get(Free[i - 1])].next

(* The free list holds every entry that is not in use, once, and the count *)
(* is that of the others: no entry is lost, none is given out twice.       *)
FreeListComplete ==
    LET free == {i \in Indices : entries[get(i)].next # NotInFreelist}
        length == Cardinality(free)
    IN  /\ {Free[k] : k \in 0 .. length} = free \cup {EndOfList}
        /\ m_count = m_capacity - length
        /\ m_count = Cardinality(alive)

(* The handle of an object that lives finds this object and no other. *)
LiveHandlesFindTheirObject ==
    \A o \in alive :
        /\ get_if_valid(issued[o])
        /\ entries[get(issued[o].idx)].object = o

(* The handle of an object that is gone is refused, also after clear() and  *)
(* after its entry was given out again, unless so many objects were made   *)
(* since that the generation has come round.                               *)
StaleHandlesRefused ==
    \A o \in 1 .. made \ alive :
        get_if_valid(issued[o]) => made - o >= Generations - 1

(* A handle finds an object exactly if it is the one it was issued for and *)
(* that lives: no two indices share an entry, and nothing that happened to *)
(* the entry since makes an old handle good again.                         *)
HandlesMeanTheirObject ==
    /\ LiveHandlesFindTheirObject
    /\ StaleHandlesRefused

================================================================================
