------------------------------ MODULE PoolProofs ------------------------------
(***************************************************************************)
(* For segments and pools of any size: the index of a handle names one     *)
(* entry, the free list holds every entry that is not in use, and a handle *)
(* finds the object it was issued for or nothing.                          *)
(***************************************************************************)
EXTENDS Pool, TLAPS, FiniteSetTheorems, SequenceTheorems, WellFoundedInduction

-----------------------------------------------------------------------------
(* Powers of two, which the provers know as numbers of subsets *)

LEMMA UpTo ==
  ASSUME NEW n \in Nat
  PROVE  IsFiniteSet(1..n) /\ Cardinality(1..n) = n
  <1>1. 1 \in Int /\ n \in Int
    OBVIOUS
  <1>2. IsFiniteSet(1..n) /\ Cardinality(1..n) = IF 1 > n THEN 0 ELSE n - 1 + 1
    BY <1>1, FS_Interval, Zenon
  <1> QED  BY <1>2

LEMMA Powers ==
  ASSUME NEW n \in Nat
  PROVE  2^n \in Nat /\ 2^n > 0 /\ 2^(n + 1) = 2^n + 2^n
  <1> DEFINE S == SUBSET (1..n)
             with == [s \in S |-> s \cup {n + 1}]
             W == {with[s] : s \in S}
  <1>1. IsFiniteSet(1..n) /\ Cardinality(1..n) = n
    BY UpTo
  <1>2. IsFiniteSet(S) /\ Cardinality(S) = 2^n
    BY <1>1, FS_SUBSET, Zenon
  <1>3. n + 1 \in Nat
    OBVIOUS
  <1>4. IsFiniteSet(1..(n + 1)) /\ Cardinality(1..(n + 1)) = n + 1
    BY <1>3, UpTo
  <1>5. Cardinality(SUBSET (1..(n + 1))) = 2^(n + 1)
    BY <1>4, FS_SUBSET, Zenon
  <1>6. SUBSET (1..(n + 1)) = S \cup W
    <2>1. 1..(n + 1) = (1..n) \cup {n + 1}
      OBVIOUS
    <2>2. ASSUME NEW s \in SUBSET (1..(n + 1)), n + 1 \in s PROVE s \in W
      <3>1. s \ {n + 1} \in S /\ s = with[s \ {n + 1}]
        BY <2>1, <2>2
      <3> QED  BY <3>1
    <2>3. ASSUME NEW s \in SUBSET (1..(n + 1)), n + 1 \notin s PROVE s \in S
      BY <2>1, <2>3
    <2>4. ASSUME NEW s \in S PROVE s \in SUBSET (1..(n + 1)) /\ with[s] \in SUBSET (1..(n + 1))
      <3>1. with[s] = s \cup {n + 1} /\ s \subseteq 1..n
        OBVIOUS
      <3> HIDE DEF S, with
      <3>2. s \subseteq 1..(n + 1) /\ s \cup {n + 1} \subseteq 1..(n + 1)
        BY <2>1, <3>1
      <3> QED BY <3>1, <3>2
    <2> HIDE DEF S, with
    <2>5. \A w \in W : w \in SUBSET (1..(n + 1))
      BY <2>4
    <2> HIDE DEF W
    <2> QED  BY <2>2, <2>3, <2>4, <2>5
  <1>7. S \cap W = {}
    <2>1. \A s \in S : n + 1 \notin s
      BY <1>3
    <2>2. \A w \in W : n + 1 \in w
      OBVIOUS
    <2> HIDE DEF S, W
    <2> QED  BY <2>1, <2>2
  <1>8. \A s \in S : n + 1 \notin s
    BY <1>3
  <1>9. with \in Injection(S, W) /\ with \in Surjection(S, W)
    <2>1. \A s, t \in S : with[s] = with[t] => s = t
      BY <1>8
    <2>2. with \in [S -> W]
      OBVIOUS
    <2>3. \A w \in W : \E s \in S : with[s] = w
      OBVIOUS
    <2> HIDE DEF with, S, W
    <2>4. with \in Injection(S, W) /\ with \in Surjection(S, W)
      BY <2>1, <2>2, <2>3 DEF Injection, Surjection, IsInjective
    <2> QED  BY <2>4
  <1> HIDE DEF S, with
  <1>10. IsFiniteSet(W) /\ Cardinality(W) = Cardinality(S)
    <2> HIDE DEF W
    <2> QED  BY <1>2, <1>9, FS_Surjection, Zenon
  <1> HIDE DEF W
  <1>11. Cardinality(S \cup W) = Cardinality(S) + Cardinality(W)
    <2>1. Cardinality(S \cup W) = Cardinality(S) + Cardinality(W) - Cardinality(S \cap W)
      BY <1>2, <1>10, FS_Union, Zenon
    <2>2. Cardinality(S \cap W) = 0
      BY <1>7, FS_EmptySet
    <2>3. Cardinality(S) \in Nat
      BY <1>2, FS_CardinalityType
    <2> QED  BY <1>10, <2>1, <2>2, <2>3
  <1>12. Cardinality(S) \in Nat
    BY <1>2, FS_CardinalityType
  <1>13. Cardinality(S) # 0
    <2>1. {} \in S
      BY DEF S
    <2> QED  BY <1>2, <2>1, FS_EmptySet
  <1>14. 2^(n + 1) = Cardinality(S) + Cardinality(S)
    BY <1>5, <1>6, <1>10, <1>11, Zenon
  <1>15. 2^n = Cardinality(S)
    BY <1>2, Zenon
  <1> QED  BY <1>12, <1>13, <1>14, <1>15

LEMMA NoPower == 2^0 = 1
  OBVIOUS

LEMMA PowersGrow ==
  ASSUME NEW k \in Nat, NEW m \in Nat, k < m
  PROVE  2^(k + 1) <= 2^m
  <1> DEFINE Bad == {i \in Nat : k < i /\ ~(2^(k + 1) <= 2^i)}
  <1>1. SUFFICES ASSUME Bad # {} PROVE FALSE
    OBVIOUS
  <1>2. PICK i \in Bad : \A j \in Bad : <<j, i>> \notin OpToRel(<, Nat)
    <2>1. \E i \in Bad : \A j \in Bad : <<j, i>> \notin OpToRel(<, Nat)
      BY <1>1, WFMin, NatLessThanWellFounded
    <2> QED  BY <2>1
  <1>3. i \in Nat /\ k < i
    OBVIOUS
  <1>4. 2^(k + 1) \in Nat /\ 2^i \in Nat
    <2>1. k + 1 \in Nat
      OBVIOUS
    <2> QED  BY <1>3, <2>1, Powers
  <1>5. i # k + 1
    BY <1>4
  <1>6. i - 1 \in Nat /\ k < i - 1 /\ i - 1 < i /\ i - 1 + 1 = i
    BY <1>3, <1>5
  <1>7. i - 1 \notin Bad
    BY <1>2, <1>3, <1>6 DEF OpToRel
  <1>8. 2^(k + 1) <= 2^(i - 1)
    BY <1>6, <1>7
  <1>9. 2^(i - 1) \in Nat /\ 2^i = 2^(i - 1) + 2^(i - 1)
    <2>1. 2^(i - 1) \in Nat /\ 2^(i - 1 + 1) = 2^(i - 1) + 2^(i - 1)
      BY <1>6, Powers, Zenon
    <2> QED  BY <1>6, <2>1
  <1>10. 2^(k + 1) <= 2^i
    BY <1>4, <1>8, <1>9
  <1> QED  BY <1>10

-----------------------------------------------------------------------------
(* Indices and entries *)

LEMMA Product ==
  ASSUME NEW s \in Nat \ {0}, NEW a \in Int, NEW b \in Int
  PROVE  s * a \in Int /\ s * b \in Int /\ (a <= b <=> s * a <= s * b)
         /\ s * (a + 1) = s * a + s /\ s * (a + b) = s * a + s * b
  OBVIOUS

LEMMA Quotient ==
  ASSUME NEW s \in Nat \ {0}, NEW i \in Nat
  PROVE  /\ i \div s \in Nat
         /\ s * (i \div s) <= i /\ i < s * (i \div s) + s
  OBVIOUS

Cap(k) == capacity_for_segment_count(k)

LEMMA Caps ==
  ASSUME NEW k \in Nat
  PROVE  /\ Cap(k) \in Nat /\ slots_in_segment(k) \in Nat /\ slots_in_segment(k) > 0
         /\ Cap(k + 1) = Cap(k) + slots_in_segment(k)
         /\ Cap(k) = SmallSegment * (2^k - 1)
  <1> DEFINE p == 2^k
  <1>1. p \in Nat /\ p > 0 /\ 2^(k + 1) = p + p
    BY Powers
  <1> HIDE DEF p
  <1>2. /\ SmallSegment * p \in Nat /\ SmallSegment * p >= SmallSegment
        /\ SmallSegment * (p + p) = SmallSegment * p + SmallSegment * p
        /\ SmallSegment * (p - 1) = SmallSegment * p - SmallSegment
    BY <1>1, PoolAssumption
  <1>3. Cap(k) = SmallSegment * p - SmallSegment /\ slots_in_segment(k) = SmallSegment * p
    BY DEF Cap, capacity_for_segment_count, slots_in_segment, p
  <1>4. Cap(k + 1) = SmallSegment * (p + p) - SmallSegment
    BY <1>1 DEF Cap, capacity_for_segment_count
  <1>5. Cap(k) = SmallSegment * (2^k - 1)
    BY <1>2, <1>3 DEF p
  <1> QED  BY <1>1, <1>2, <1>3, <1>4, <1>5, PoolAssumption

LEMMA CapsGrow ==
  ASSUME NEW k \in Nat, NEW m \in Nat, k < m
  PROVE  Cap(k) + slots_in_segment(k) <= Cap(m)
  <1>1. 2^(k + 1) <= 2^m /\ 2^(k + 1) \in Nat /\ 2^m \in Nat
    <2>1. k + 1 \in Nat
      OBVIOUS
    <2> QED  BY <2>1, PowersGrow, Powers
  <1>2. Cap(k + 1) = Cap(k) + slots_in_segment(k)
    BY Caps
  <1>3. Cap(k + 1) <= Cap(m)
    <2>1. Cap(k + 1) = SmallSegment * (2^(k + 1) - 1) /\ Cap(m) = SmallSegment * (2^m - 1)
      <3>1. k + 1 \in Nat
        OBVIOUS
      <3> QED  BY <3>1, Caps, Zenon
    <2> DEFINE a == 2^(k + 1) - 1
               b == 2^m - 1
    <2>2. a \in Int /\ b \in Int /\ a <= b
      BY <1>1
    <2> HIDE DEF a, b
    <2>3. SmallSegment * a <= SmallSegment * b
      BY <2>2, Product, PoolAssumption
    <2> QED  BY <2>1, <2>3 DEF a, b
  <1> QED  BY <1>2, <1>3

(* The places of the entries of the first segments. *)
Places(used) == {p \in (0..(used - 1)) \X Nat : p[2] < slots_in_segment(p[1])}

LEMMA PlaceOf ==
  ASSUME NEW used, NEW place, place \in (0..(used - 1)) \X Nat,
         place[2] < slots_in_segment(place[1])
  PROVE  place \in Places(used)
  BY Zenon DEF Places

(* The entry of an index is the one behind the segments before it. *)
LEMMA GetIs ==
  ASSUME NEW k \in 0..MaxSegments, NEW j \in Nat, j < slots_in_segment(k)
  PROVE  get(Cap(k) + j) = <<k, j>>
  <1> DEFINE i == Cap(k) + j
             q == i \div SmallSegment
             p == 2^k
  <1>0. k \in Nat /\ MaxSegments \in Nat /\ SmallSegment \in Nat \ {0}
    BY PoolAssumption
  <1>1. p \in Nat /\ p > 0 /\ 2^(k + 1) = p + p
    BY <1>0, Powers
  <1>2. Cap(k) \in Nat /\ Cap(k) = SmallSegment * (2^k - 1) /\ slots_in_segment(k) \in Nat
        /\ Cap(k + 1) = Cap(k) + slots_in_segment(k)
    BY <1>0, Caps
  <1>3. Cap(k + 1) = SmallSegment * (2^(k + 1) - 1)
    <2>1. k + 1 \in Nat
      BY <1>0
    <2> QED  BY <2>1, Caps, Zenon
  <1>4. i \in Nat /\ i >= SmallSegment * (p - 1) /\ i < SmallSegment * (p + p - 1)
    BY <1>1, <1>2, <1>3
  <1> HIDE DEF i, p
  <1>5. q \in Nat /\ SmallSegment * q <= i /\ i < SmallSegment * q + SmallSegment
    BY <1>0, <1>4, Quotient
  <1> HIDE DEF q
  <1>6. p <= q + 1 /\ q + 1 < p + p
    <2>1. SmallSegment * (p - 1) < SmallSegment * (q + 1)
      <3>1. SmallSegment * (q + 1) = SmallSegment * q + SmallSegment
        BY <1>0, <1>5, Product
      <3>2. SmallSegment * (p - 1) \in Int /\ SmallSegment * q \in Int
        BY <1>0, <1>1, <1>5
      <3> QED  BY <1>0, <1>4, <1>5, <3>1, <3>2
    <2>2. ~(q + 1 <= p - 1)
      <3>1. q + 1 \in Int /\ p - 1 \in Int
        BY <1>1, <1>5
      <3>2. q + 1 <= p - 1 => SmallSegment * (q + 1) <= SmallSegment * (p - 1)
        BY <1>0, <3>1, Product
      <3>3. SmallSegment * (q + 1) \in Int /\ SmallSegment * (p - 1) \in Int
        BY <1>0, <3>1, Product
      <3> QED  BY <2>1, <3>2, <3>3
    <2>3. SmallSegment * q < SmallSegment * (p + p - 1)
      <3>1. SmallSegment * (p + p - 1) \in Int /\ SmallSegment * q \in Int
        BY <1>0, <1>1, <1>5
      <3> QED  BY <1>4, <1>5, <3>1
    <2>4. ~(p + p - 1 <= q)
      <3>1. p + p - 1 \in Int /\ q \in Int
        BY <1>1, <1>5
      <3>2. p + p - 1 <= q => SmallSegment * (p + p - 1) <= SmallSegment * q
        BY <1>0, <3>1, Product
      <3>3. SmallSegment * q \in Int /\ SmallSegment * (p + p - 1) \in Int
        BY <1>0, <3>1, Product
      <3> QED  BY <2>3, <3>2, <3>3
    <2> QED  BY <1>1, <1>5, <2>2, <2>4
  <1> DEFINE Fits(m) == 2^m <= q + 1 /\ q + 1 < 2^(m + 1)
  <1>7. Fits(k)
    BY <1>1, <1>6 DEF p
  <1>8. ASSUME NEW m \in 0..MaxSegments, Fits(m)
        PROVE  m = k
    <2>1. m \in Nat /\ 2^m \in Nat /\ 2^(m + 1) \in Nat /\ 2^k \in Nat /\ 2^(k + 1) \in Nat
      <3>1. m \in Nat /\ m + 1 \in Nat /\ k + 1 \in Nat
        BY <1>0
      <3> QED  BY <1>0, <3>1, Powers
    <2>2. ~(m < k)
      <3>1. m < k => 2^(m + 1) <= 2^k
        BY <1>0, <2>1, PowersGrow
      <3> QED  BY <1>5, <1>7, <1>8, <2>1, <3>1
    <2>3. ~(k < m)
      <3>1. k < m => 2^(k + 1) <= 2^m
        BY <1>0, <2>1, PowersGrow
      <3> QED  BY <1>5, <1>7, <1>8, <2>1, <3>1
    <2> QED  BY <1>0, <2>1, <2>2, <2>3
  <1>9. segment_for_index(i) = CHOOSE m \in 0..MaxSegments : Fits(m)
    BY DEF segment_for_index, q
  <1> HIDE DEF Fits
  <1>10. segment_for_index(i) = k
    BY <1>7, <1>8, <1>9
  <1>11. i - Cap(k) = j
    BY <1>2 DEF i
  <1> QED  BY <1>10, <1>11 DEF get, i, Cap

LEMMA IndexIn ==
  ASSUME NEW used \in 0..MaxSegments, NEW i \in 0..(Cap(used) - 1)
  PROVE  \E k \in 0..(used - 1) : \E j \in Nat :
            j < slots_in_segment(k) /\ i = Cap(k) + j /\ get(i) = <<k, j>>
  <1> DEFINE T == {m \in Nat : i < Cap(m)}
  <1>0. used \in Nat /\ MaxSegments \in Nat /\ i \in Nat
    <2>1. used \in Nat /\ MaxSegments \in Nat
      BY PoolAssumption
    <2> QED  BY <2>1, Caps
  <1>1. used \in T
    BY <1>0, Caps
  <1>2. PICK m \in T : \A l \in T : <<l, m>> \notin OpToRel(<, Nat)
    <2>1. \E m \in T : \A l \in T : <<l, m>> \notin OpToRel(<, Nat)
      BY <1>1, WFMin, NatLessThanWellFounded
    <2> QED  BY <2>1
  <1>3. m \in Nat /\ i < Cap(m)
    OBVIOUS
  <1>4. ~(used < m)
    BY <1>0, <1>1, <1>2, <1>3 DEF OpToRel
  <1>5. m # 0
    <2>1. Cap(0) = 0
      <3>1. Cap(0) = SmallSegment * 1 - SmallSegment
        BY NoPower DEF Cap, capacity_for_segment_count
      <3> QED  BY <3>1, PoolAssumption
    <2> QED  BY <1>0, <1>3, <2>1
  <1> DEFINE k == m - 1
             j == i - Cap(k)
  <1>6. k \in Nat /\ k < m /\ k + 1 = m /\ k \in 0..(used - 1) /\ k \in 0..MaxSegments
    BY <1>0, <1>3, <1>4, <1>5
  <1> HIDE DEF k
  <1>7. ~(i < Cap(k))
    BY <1>2, <1>3, <1>6 DEF OpToRel
  <1>8. /\ Cap(k) \in Nat /\ slots_in_segment(k) \in Nat
        /\ Cap(m) = Cap(k) + slots_in_segment(k)
    BY <1>6, Caps
  <1>9. j \in Nat /\ j < slots_in_segment(k) /\ i = Cap(k) + j
    BY <1>0, <1>3, <1>7, <1>8
  <1> HIDE DEF j
  <1>10. get(i) = <<k, j>>
    BY <1>6, <1>9, GetIs
  <1> QED  BY <1>6, <1>9, <1>10

(* The indices below the capacity name the entries, one each. *)
LEMMA GetInjective ==
  ASSUME NEW used \in 0..MaxSegments
  PROVE  /\ \A i \in 0..(Cap(used) - 1) : get(i) \in Places(used)
         /\ \A i, h \in 0..(Cap(used) - 1) : get(i) = get(h) => i = h
         /\ \A place \in Places(used) : \E i \in 0..(Cap(used) - 1) : get(i) = place
  <1>1. ASSUME NEW i \in 0..(Cap(used) - 1) PROVE get(i) \in Places(used)
    BY IndexIn DEF Places
  <1>2. ASSUME NEW i \in 0..(Cap(used) - 1), NEW h \in 0..(Cap(used) - 1), get(i) = get(h)
        PROVE  i = h
    <2>1. PICK k, j : i = Cap(k) + j /\ get(i) = <<k, j>>
      BY IndexIn
    <2>2. PICK k2, j2 : h = Cap(k2) + j2 /\ get(h) = <<k2, j2>>
      BY IndexIn
    <2> QED  BY <1>2, <2>1, <2>2
  <1>3. ASSUME NEW place \in Places(used)
        PROVE  \E i \in 0..(Cap(used) - 1) : get(i) = place
    <2>1. PICK k \in 0..(used - 1), j \in Nat : place = <<k, j>> /\ j < slots_in_segment(k)
      BY DEF Places
    <2>2. used \in Nat /\ k \in Nat /\ k < used /\ k \in 0..MaxSegments
      BY PoolAssumption
    <2>3. Cap(k) + slots_in_segment(k) <= Cap(used) /\ Cap(k) \in Nat /\ Cap(used) \in Nat
          /\ slots_in_segment(k) \in Nat
      BY <2>2, CapsGrow, Caps
    <2>4. get(Cap(k) + j) = <<k, j>>
      BY <2>1, <2>2, GetIs
    <2>5. Cap(k) + j \in 0..(Cap(used) - 1)
      BY <2>1, <2>3
    <2> QED  BY <2>1, <2>4, <2>5
  <1> QED  BY <1>1, <1>2, <1>3

-----------------------------------------------------------------------------
(* The invariant *)

Ix(used) == 0..(Cap(used) - 1)

NumbersOK ==
    /\ m_used_segments \in 0..MaxSegments
    /\ m_capacity = Cap(m_used_segments)
    /\ made \in Nat
    /\ m_latest_generation \in 0..(Generations - 1)
    /\ alive \subseteq 1..made /\ IsFiniteSet(alive) /\ m_count = Cardinality(alive)

TableOK(table, used, objects) ==
    /\ DOMAIN table = Places(used)
    /\ \A i \in Ix(used) :
          table[get(i)] \in [generation : 0..(Generations - 1), object : 0..objects,
                             next : Ix(used) \cup {EndOfList, NotInFreelist}]

(* The free list from its head to its end. *)
ListOK(table, used, head, list) ==
    /\ list \in Seq(Ix(used))
    /\ head = IF list = << >> THEN EndOfList ELSE list[1]
    /\ \A i \in 1..Len(list) :
          table[get(list[i])].next = IF i = Len(list) THEN EndOfList ELSE list[i + 1]
    /\ \A i, j \in 1..Len(list) : list[i] = list[j] => i = j
    /\ \A i \in Ix(used) : table[get(i)].next # NotInFreelist
                              => \E k \in 1..Len(list) : list[k] = i

IssuedOK(handles, objects) ==
    /\ DOMAIN handles = 1..objects
    /\ \A o \in 1..objects :
          handles[o].idx \in Nat /\ handles[o].generation \in 1..(Generations - 1)

(* An object that lives is in the entry of its handle; an entry that is in *)
(* use holds an object that lives, and none that was made after it was    *)
(* ever given the same index.                                              *)
HandlesOK(table, used, handles, living, objects) ==
    /\ \A o \in living :
          /\ handles[o].idx \in Ix(used)
          /\ LET entry == table[get(handles[o].idx)]
             IN  /\ entry.next = NotInFreelist /\ entry.object = o
                 /\ entry.generation = handles[o].generation
    /\ \A i \in Ix(used) :
          LET entry == table[get(i)]
          IN  entry.next = NotInFreelist =>
                /\ entry.object \in living /\ handles[entry.object].idx = i
                /\ \A o \in 1..objects : handles[o].idx = i => o <= entry.object

(* The generations of the last objects count down from the latest one, and *)
(* come round behind 1.                                                    *)
GenerationsOK ==
    /\ made > 0 => m_latest_generation > 0
    /\ \A o \in 1..made :
          made - o < Generations - 1 =>
             issued[o].generation =
                IF made - o < m_latest_generation THEN m_latest_generation - (made - o)
                ELSE m_latest_generation - (made - o) + (Generations - 1)

FreeListIs == \E list : /\ ListOK(entries, m_used_segments, m_head, list)
                        /\ m_count = m_capacity - Len(list)

PoolInv ==
    /\ NumbersOK
    /\ TableOK(entries, m_used_segments, made)
    /\ FreeListIs
    /\ IssuedOK(issued, made)
    /\ HandlesOK(entries, m_used_segments, issued, alive, made)
    /\ GenerationsOK

-----------------------------------------------------------------------------
LEMMA NothingInCap == Cap(0) = 0 /\ Ix(0) = {} /\ Places(0) = {}
  <1>1. Cap(0) = SmallSegment * 1 - SmallSegment
    BY NoPower DEF Cap, capacity_for_segment_count
  <1>2. Cap(0) = 0
    BY <1>1, PoolAssumption
  <1> QED  BY <1>2 DEF Ix, Places

LEMMA EmptyPool ==
  ASSUME NEW objects, NEW handles
  PROVE  /\ TableOK(<< >>, 0, objects)
         /\ ListOK(<< >>, 0, EndOfList, << >>)
         /\ HandlesOK(<< >>, 0, handles, {}, objects)
         /\ \E list : ListOK(<< >>, 0, EndOfList, list) /\ Len(list) = 0
  <1>1. DOMAIN << >> = {} /\ Len(<< >>) = 0 /\ << >> \in Seq(Ix(0))
    BY EmptySeq
  <1>2. TableOK(<< >>, 0, objects)
    BY <1>1, NothingInCap DEF TableOK
  <1>3. ListOK(<< >>, 0, EndOfList, << >>)
    BY <1>1, NothingInCap DEF ListOK
  <1>4. HandlesOK(<< >>, 0, handles, {}, objects)
    BY NothingInCap DEF HandlesOK
  <1>5. \E list : ListOK(<< >>, 0, EndOfList, list) /\ Len(list) = 0
    BY <1>1, <1>3, Zenon
  <1> QED  BY <1>2, <1>3, <1>4, <1>5

LEMMA InitPool == Init => PoolInv
  <1> SUFFICES ASSUME Init PROVE PoolInv
    OBVIOUS
  <1>1. NumbersOK
    BY NothingInCap, FS_EmptySet, PoolAssumption DEF Init, NumbersOK
  <1>2. /\ TableOK(entries, m_used_segments, made)
        /\ HandlesOK(entries, m_used_segments, issued, alive, made)
    BY EmptyPool DEF Init
  <1>3. FreeListIs
    <2>1. PICK list : ListOK(<< >>, 0, EndOfList, list) /\ Len(list) = 0
      BY EmptyPool
    <2>2. m_count = m_capacity - Len(list) /\ ListOK(entries, m_used_segments, m_head, list)
      BY <2>1 DEF Init
    <2> QED  BY <2>2 DEF FreeListIs
  <1>4. IssuedOK(issued, made) /\ GenerationsOK
    <2>1. DOMAIN << >> = {} /\ 1..0 = {}
      BY EmptySeq
    <2> QED  BY <2>1 DEF Init, IssuedOK, GenerationsOK
  <1> QED  BY <1>1, <1>2, <1>3, <1>4 DEF PoolInv

LEMMA ClearStep == PoolInv /\ clear => PoolInv'
  <1> SUFFICES ASSUME PoolInv, clear PROVE PoolInv'
    OBVIOUS
  <1>1. NumbersOK'
    BY NothingInCap, FS_EmptySet, PoolAssumption DEF clear, NumbersOK, PoolInv
  <1>2. /\ TableOK(entries', m_used_segments', made')
        /\ HandlesOK(entries', m_used_segments', issued', alive', made')
    BY EmptyPool DEF clear
  <1>3. FreeListIs'
    <2>1. PICK list : ListOK(<< >>, 0, EndOfList, list) /\ Len(list) = 0
      BY EmptyPool
    <2>2. m_count' = m_capacity' - Len(list)
          /\ ListOK(entries', m_used_segments', m_head', list)
      BY <2>1 DEF clear
    <2> QED  BY <2>2 DEF FreeListIs
  <1>4. IssuedOK(issued', made') /\ GenerationsOK'
    BY DEF clear, GenerationsOK, PoolInv
  <1> QED  BY <1>1, <1>2, <1>3, <1>4 DEF PoolInv

LEMMA UnchangedStep == PoolInv /\ UNCHANGED vars => PoolInv'
  <1> SUFFICES ASSUME PoolInv, UNCHANGED vars PROVE PoolInv'
    OBVIOUS
  <1>1. NumbersOK' /\ GenerationsOK'
    BY DEF vars, NumbersOK, GenerationsOK, PoolInv
  <1>2. FreeListIs'
    BY DEF vars, FreeListIs, PoolInv
  <1> QED  BY <1>1, <1>2 DEF vars, PoolInv

-----------------------------------------------------------------------------
(* emplace *)

(* The first free entry is taken off the list. *)
LEMMA ListTaken ==
  ASSUME NEW used \in 0..MaxSegments, NEW table, DOMAIN table = Places(used),
         NEW head, NEW list, ListOK(table, used, head, list), head # EndOfList,
         NEW entry, entry.next = NotInFreelist
  PROVE  /\ head \in Ix(used) /\ Len(list) \in Nat /\ list # << >>
         /\ table[get(head)].next # NotInFreelist
         /\ Len(Tail(list)) = Len(list) - 1
         /\ ListOK([table EXCEPT ![get(head)] = entry], used, table[get(head)].next, Tail(list))
  <1> DEFINE new  == [table EXCEPT ![get(head)] = entry]
             size == Len(list)
             rest == Tail(list)
  <1>1. /\ list \in Seq(Ix(used)) /\ size \in Nat /\ list # << >> /\ head = list[1]
    BY LenProperties DEF ListOK
  <1>2. /\ rest \in Seq(Ix(used)) /\ size > 0 /\ Len(rest) = size - 1
        /\ \A i \in 1..(size - 1) : rest[i] = list[i + 1]
    BY <1>1, HeadTailProperties, EmptySeq
  <1>3. \A i \in 1..size : list[i] \in Ix(used)
    BY <1>1, ElementOfSeq
  <1>4. /\ \A i \in Ix(used) : get(i) \in Places(used)
        /\ \A i, h \in Ix(used) : get(i) = get(h) => i = h
    BY GetInjective DEF Ix
  <1>5. \A i \in Ix(used) : new[get(i)] = IF i = head THEN entry ELSE table[get(i)]
    BY <1>1, <1>2, <1>3, <1>4
  <1> HIDE DEF size, rest, new
  <1>6. 1 \in 1..size /\ head \in Ix(used)
    BY <1>1, <1>2, <1>3
  <1>7. table[get(head)].next = IF 1 = size THEN EndOfList ELSE list[1 + 1]
    BY <1>1, <1>6, Zenon DEF ListOK, size
  <1>8. table[get(head)].next = IF rest = << >> THEN EndOfList ELSE rest[1]
    <2>1. rest = << >> <=> 1 = size
      BY <1>1, <1>2, EmptySeq
    <2>2. 1 # size => rest[1] = list[1 + 1]
      BY <1>1, <1>2
    <2> QED  BY <1>7, <2>1, <2>2
  <1>9. ASSUME NEW i \in 1..Len(rest)
        PROVE  /\ new[get(rest[i])].next = IF i = Len(rest) THEN EndOfList ELSE rest[i + 1]
               /\ \A j \in 1..Len(rest) : rest[i] = rest[j] => i = j
    <2>1. i + 1 \in 1..size /\ rest[i] = list[i + 1] /\ i + 1 # 1
      BY <1>1, <1>2
    <2>2. list[i + 1] \in Ix(used) /\ list[i + 1] # head
      BY <1>1, <1>3, <1>6, <2>1 DEF ListOK, size
    <2>3. new[get(rest[i])] = table[get(list[i + 1])]
      BY <1>5, <2>1, <2>2
    <2>4. table[get(list[i + 1])].next = IF i + 1 = size THEN EndOfList ELSE list[i + 1 + 1]
      BY <2>1, Zenon DEF ListOK, size
    <2>5. IF i = Len(rest) THEN i + 1 = size ELSE i + 1 # size /\ rest[i + 1] = list[i + 1 + 1]
      BY <1>1, <1>2
    <2>6. ASSUME NEW j \in 1..Len(rest), rest[i] = rest[j] PROVE i = j
      <3>1. j + 1 \in 1..size /\ list[i + 1] = list[j + 1]
        BY <1>1, <1>2, <2>1, <2>6
      <3>2. i + 1 = j + 1
        BY <2>1, <3>1 DEF ListOK, size
      <3> QED  BY <1>1, <1>2, <3>2
    <2> QED  BY <2>3, <2>4, <2>5, <2>6
  <1>10. ASSUME NEW i \in Ix(used), new[get(i)].next # NotInFreelist
         PROVE  \E k \in 1..Len(rest) : rest[k] = i
    <2>1. i # head /\ table[get(i)].next # NotInFreelist
      BY <1>5, <1>10
    <2>2. PICK k \in 1..size : list[k] = i
      BY <2>1 DEF ListOK, size
    <2>3. k # 1
      BY <1>1, <2>1, <2>2
    <2>4. k - 1 \in 1..Len(rest) /\ rest[k - 1] = i
      BY <1>1, <1>2, <2>2, <2>3
    <2> QED  BY <2>4
  <1>11. ListOK(new, used, table[get(head)].next, rest)
    BY <1>2, <1>8, <1>9, <1>10 DEF ListOK
  <1>12. table[get(head)].next # NotInFreelist
    <2>1. rest # << >> => rest[1] \in Ix(used)
      <3>1. rest # << >> => 1 \in 1..Len(rest)
        BY <1>1, <1>2, EmptySeq
      <3> QED  BY <1>2, <3>1, ElementOfSeq
    <2> QED  BY <1>8, <2>1 DEF Ix, EndOfList, NotInFreelist
  <1> QED  BY <1>1, <1>2, <1>6, <1>11, <1>12 DEF size, rest, new

LEMMA PlaceStep ==
  ASSUME NumbersOK, IssuedOK(issued, made), GenerationsOK,
         NEW used \in 0..MaxSegments, NEW table, TableOK(table, used, made),
         NEW idx, idx # EndOfList, NEW list, ListOK(table, used, idx, list),
         m_count = Cap(used) - Len(list),
         HandlesOK(table, used, issued, alive, made),
         m_used_segments' = used, m_capacity' = Cap(used), Place(idx, table)
  PROVE  PoolInv'
  <1>0. PICK entry : entry = [next |-> NotInFreelist, generation |-> m_latest_generation',
                              object |-> made + 1]
    OBVIOUS
  <1>1. /\ m_head' = table[get(idx)].next
        /\ m_latest_generation' = next_generation(m_latest_generation)
        /\ entries' = [table EXCEPT ![get(idx)] = entry]
        /\ m_count' = m_count + 1 /\ made' = made + 1
        /\ issued' = [o \in 1..made + 1 |->
                        IF o <= made THEN issued[o]
                        ELSE [idx |-> idx, generation |-> m_latest_generation']]
        /\ alive' = alive \cup {made + 1}
    BY <1>0 DEF Place
  <1>2. /\ made \in Nat /\ m_latest_generation \in 0..(Generations - 1)
        /\ Generations \in Nat /\ Generations > 2
        /\ alive \subseteq 1..made /\ IsFiniteSet(alive) /\ m_count = Cardinality(alive)
    BY PoolAssumption DEF NumbersOK
  <1>3. m_latest_generation' \in 1..(Generations - 1)
    BY <1>1, <1>2 DEF next_generation
  <1>4. NumbersOK'
    <2>1. made + 1 \notin alive
      BY <1>2
    <2>2. IsFiniteSet(alive') /\ Cardinality(alive') = m_count + 1
      BY <1>1, <1>2, <2>1, FS_AddElement
    <2> QED  BY <1>1, <1>2, <1>3, <2>2 DEF NumbersOK
  <1>5. entry.next = NotInFreelist /\ entry.object = made + 1
        /\ entry.generation = m_latest_generation'
    BY <1>0
  <1>6. entry \in [generation : 0..(Generations - 1), object : 0..(made + 1),
                   next : Ix(used) \cup {EndOfList, NotInFreelist}]
    BY <1>0, <1>2, <1>3
  <1>7. /\ idx \in Ix(used) /\ Len(list) \in Nat /\ Len(Tail(list)) = Len(list) - 1
        /\ table[get(idx)].next # NotInFreelist
        /\ ListOK(entries', used, m_head', Tail(list))
    <2>1. /\ idx \in Ix(used) /\ Len(list) \in Nat /\ Len(Tail(list)) = Len(list) - 1
          /\ table[get(idx)].next # NotInFreelist
          /\ ListOK([table EXCEPT ![get(idx)] = entry], used, table[get(idx)].next, Tail(list))
      <3>1. DOMAIN table = Places(used)
        BY DEF TableOK
      <3> QED  BY <1>5, <3>1, ListTaken, Zenon
    <2> QED  BY <1>1, <2>1
  <1>8. FreeListIs'
    <2>1. m_count' = m_capacity' - Len(Tail(list))
      <3>1. Cap(used) \in Nat
        <4>1. used \in Nat
          BY PoolAssumption
        <4> QED  BY <4>1, Caps
      <3> QED  BY <1>1, <1>7, <3>1
    <2> QED  BY <1>7, <2>1 DEF FreeListIs
  <1>9. /\ \A i \in Ix(used) : get(i) \in Places(used)
        /\ \A i, h \in Ix(used) : get(i) = get(h) => i = h
    BY GetInjective DEF Ix
  <1>10. \A i \in Ix(used) : entries'[get(i)] = IF i = idx THEN entry ELSE table[get(i)]
    BY <1>1, <1>7, <1>9 DEF TableOK
  <1>11. TableOK(entries', used, made')
    <2>1. DOMAIN entries' = Places(used)
      BY <1>1 DEF TableOK
    <2>2. ASSUME NEW i \in Ix(used)
          PROVE  entries'[get(i)] \in [generation : 0..(Generations - 1), object : 0..(made + 1),
                                       next : Ix(used) \cup {EndOfList, NotInFreelist}]
      <3>1. CASE i = idx
        BY <1>6, <1>10, <3>1
      <3>2. CASE i # idx
        <4>1. table[get(i)] \in [generation : 0..(Generations - 1), object : 0..made,
                                 next : Ix(used) \cup {EndOfList, NotInFreelist}]
          BY DEF TableOK
        <4>2. 0..made \subseteq 0..(made + 1)
          BY <1>2
        <4>3. entries'[get(i)] = table[get(i)]
          BY <1>10, <3>2
        <4> QED  BY <4>1, <4>2, <4>3
      <3> QED  BY <3>1, <3>2
    <2> QED  BY <1>1, <2>1, <2>2 DEF TableOK
  <1>12. /\ \A o \in 1..made : issued'[o] = issued[o]
         /\ issued'[made + 1].idx = idx /\ issued'[made + 1].generation = m_latest_generation'
         /\ DOMAIN issued' = 1..(made + 1)
    BY <1>1, <1>2
  <1>13. idx \in Nat
    BY <1>7 DEF Ix
  <1>14. IssuedOK(issued', made')
    BY <1>1, <1>2, <1>3, <1>12, <1>13 DEF IssuedOK
  <1>15. HandlesOK(entries', used, issued', alive', made')
    <2>1. ASSUME NEW o \in alive'
          PROVE  /\ issued'[o].idx \in Ix(used)
                 /\ entries'[get(issued'[o].idx)].next = NotInFreelist
                 /\ entries'[get(issued'[o].idx)].object = o
                 /\ entries'[get(issued'[o].idx)].generation = issued'[o].generation
      <3>1. CASE o = made + 1
        BY <1>5, <1>7, <1>10, <1>12, <3>1
      <3>2. CASE o \in alive
        <4>1. /\ issued'[o] = issued[o] /\ issued[o].idx \in Ix(used)
              /\ table[get(issued[o].idx)].next = NotInFreelist
              /\ table[get(issued[o].idx)].object = o
              /\ table[get(issued[o].idx)].generation = issued[o].generation
          BY <1>2, <1>12, <3>2 DEF HandlesOK
        <4>2. entries'[get(issued'[o].idx)] = table[get(issued[o].idx)]
          BY <1>7, <1>10, <4>1
        <4> QED  BY <4>1, <4>2
      <3> QED  BY <1>1, <3>1, <3>2
    <2>2. ASSUME NEW i \in Ix(used), entries'[get(i)].next = NotInFreelist
          PROVE  /\ entries'[get(i)].object \in alive'
                 /\ issued'[entries'[get(i)].object].idx = i
                 /\ \A o \in 1..(made + 1) : issued'[o].idx = i => o <= entries'[get(i)].object
      <3>1. CASE i = idx
        <4>1. entries'[get(i)].object = made + 1
          BY <1>5, <1>10, <3>1
        <4> QED  BY <1>1, <1>2, <1>12, <3>1, <4>1
      <3>2. CASE i # idx
        <4> DEFINE p == table[get(i)].object
        <4>1. entries'[get(i)] = table[get(i)] /\ table[get(i)].next = NotInFreelist
          BY <1>10, <2>2, <3>2
        <4>2. /\ p \in alive /\ issued[p].idx = i
              /\ \A o \in 1..made : issued[o].idx = i => o <= p
          BY <4>1 DEF HandlesOK
        <4> HIDE DEF p
        <4>3. p \in alive' /\ issued'[p].idx = i
          BY <1>1, <1>2, <1>12, <4>2
        <4>4. ASSUME NEW o \in 1..(made + 1), issued'[o].idx = i PROVE o <= p
          <5>1. o # made + 1
            BY <1>12, <3>2, <4>4
          <5>2. o \in 1..made
            BY <1>2, <5>1
          <5> QED  BY <1>12, <4>2, <4>4, <5>2
        <4> QED  BY <4>1, <4>3, <4>4 DEF p
      <3> QED  BY <3>1, <3>2
    <2> QED  BY <1>1, <2>1, <2>2 DEF HandlesOK
  <1>16. GenerationsOK'
    <2>1. ASSUME NEW o \in 1..(made + 1), made + 1 - o < Generations - 1
          PROVE  issued'[o].generation =
                    IF made + 1 - o < m_latest_generation'
                    THEN m_latest_generation' - (made + 1 - o)
                    ELSE m_latest_generation' - (made + 1 - o) + (Generations - 1)
      <3>1. CASE o = made + 1
        BY <1>2, <1>3, <1>12, <3>1
      <3>2. CASE o # made + 1
        <4> DEFINE d == made - o
        <4>1. o \in 1..made /\ d \in Nat /\ made + 1 - o = d + 1 /\ d < Generations - 1
              /\ d + 1 < Generations - 1
          BY <1>2, <2>1, <3>2
        <4>2. issued[o].generation =
                 IF d < m_latest_generation THEN m_latest_generation - d
                 ELSE m_latest_generation - d + (Generations - 1)
          BY <4>1 DEF GenerationsOK
        <4>3. m_latest_generation > 0
          BY <1>2, <4>1 DEF GenerationsOK
        <4> HIDE DEF d
        <4>4. issued'[o].generation = issued[o].generation
          BY <1>12, <4>1
        <4>5. m_latest_generation' = IF m_latest_generation + 1 = Generations THEN 1
                                     ELSE m_latest_generation + 1
          BY <1>1 DEF next_generation
        <4> QED  BY <1>2, <4>1, <4>2, <4>3, <4>4, <4>5
      <3> QED  BY <3>1, <3>2
    <2>2. m_latest_generation' > 0
      BY <1>3
    <2>3. made' = made + 1
      BY <1>1
    <2>4. \A o \in 1..made' :
             made' - o < Generations - 1 =>
               issued'[o].generation =
                  IF made' - o < m_latest_generation' THEN m_latest_generation' - (made' - o)
                  ELSE m_latest_generation' - (made' - o) + (Generations - 1)
      BY <1>2, <1>3, <2>1, <2>3
    <2> QED  BY <2>2, <2>4 DEF GenerationsOK
  <1> QED  BY <1>1, <1>4, <1>8, <1>11, <1>14, <1>15, <1>16 DEF PoolInv

(* A new segment: the old entries stay, and all new ones are on the list. *)
GrownOK(used) ==
    /\ used + 1 \in 0..MaxSegments
    /\ TableOK(Grown, used + 1, made)
    /\ HandlesOK(Grown, used + 1, issued, alive, made)
    /\ Cap(used) # EndOfList
    /\ \E list : ListOK(Grown, used + 1, Cap(used), list) /\ m_count = Cap(used + 1) - Len(list)

LEMMA GrownIs ==
  ASSUME PoolInv, m_head = EndOfList, m_used_segments < MaxSegments
  PROVE  GrownOK(m_used_segments)
  <1> DEFINE u     == m_used_segments
             cap   == Cap(u)
             slots == slots_in_segment(u)
  <1>1. /\ u \in Nat /\ u + 1 \in 0..MaxSegments /\ u \in 0..MaxSegments
        /\ MaxSegments \in Nat /\ made \in Nat /\ m_capacity = cap
        /\ Generations \in Nat /\ Generations > 2
    BY PoolAssumption DEF PoolInv, NumbersOK
  <1>2. cap \in Nat /\ slots \in Nat /\ slots > 0 /\ Cap(u + 1) = cap + slots
    BY <1>1, Caps
  <1>3. PICK old : ListOK(entries, u, m_head, old) /\ m_count = m_capacity - Len(old)
    BY DEF PoolInv, FreeListIs
  <1> HIDE DEF cap, slots
  <1>4. old = << >> /\ Len(old) = 0 /\ m_count = cap
    <2>1. old \in Seq(Ix(u)) /\ (old # << >> => m_head = old[1])
      BY <1>3 DEF ListOK
    <2>2. Len(old) \in Nat /\ (old # << >> => 1 \in 1..Len(old)) /\ (old = << >> => Len(old) = 0)
      BY <2>1, EmptySeq, LenProperties
    <2>3. old # << >> => old[1] \in Ix(u)
      BY <2>1, <2>2, ElementOfSeq
    <2>4. old = << >>
      BY <2>1, <2>3 DEF Ix, EndOfList
    <2> QED  BY <1>1, <1>2, <1>3, <2>2, <2>4
  <1>5. \A i \in Ix(u) : get(i) \in Places(u) /\ get(i)[1] # u
    <2>1. \A i \in Ix(u) : get(i) \in Places(u)
      BY <1>1, GetInjective DEF Ix
    <2>2. \A p \in Places(u) : p[1] # u
      BY <1>1 DEF Places
    <2> QED  BY <2>1, <2>2
  <1>6. \A j \in 0..(slots - 1) : get(cap + j) = <<u, j>> /\ cap + j \in Nat
    BY <1>1, <1>2, GetIs DEF cap, slots
  <1>7. Slots = {u} \X (0..(slots - 1)) /\ DOMAIN entries = Places(u)
    BY DEF Slots, slots, PoolInv, TableOK
  <1>8. \A p \in DOMAIN entries \cup Slots :
           Grown[p] = IF p \in DOMAIN entries THEN entries[p] ELSE Segment[p]
    BY DEF Grown
  <1>9. \A i \in Ix(u) : Grown[get(i)] = entries[get(i)]
    BY <1>5, <1>7, <1>8
  <1>10. ASSUME NEW j \in 0..(slots - 1)
         PROVE  Grown[get(cap + j)] = [generation |-> 0, object |-> 0,
                                       next |-> IF j + 1 = slots THEN EndOfList ELSE cap + j + 1]
    <2>1. <<u, j>> \in Slots /\ <<u, j>> \notin Places(u)
      BY <1>1, <1>7 DEF Places
    <2>2. Grown[<<u, j>>] = Segment[<<u, j>>]
      BY <1>7, <1>8, <2>1
    <2>3. Segment[<<u, j>>] = [generation |-> 0, object |-> 0,
                               next |-> IF j + 1 = slots THEN EndOfList ELSE cap + j + 1]
      BY <1>1, <2>1 DEF Segment, slots
    <2> QED  BY <1>6, <2>2, <2>3
  <1>20. ASSUME NEW j \in 0..(slots - 1)
         PROVE  Grown[get(cap + j)].next = IF j + 1 = slots THEN EndOfList ELSE cap + j + 1
    <2> DEFINE next == IF j + 1 = slots THEN EndOfList ELSE cap + j + 1
    <2>1. Grown[get(cap + j)] = [generation |-> 0, object |-> 0, next |-> next]
      BY <1>10, Zenon
    <2> HIDE DEF next
    <2>2. Grown[get(cap + j)].next = next
      BY <2>1
    <2> QED  BY <2>2 DEF next
  <1>11. Ix(u + 1) = Ix(u) \cup {cap + j : j \in 0..(slots - 1)}
    <2>1. Ix(u) = 0..(cap - 1) /\ Ix(u + 1) = 0..(cap + slots - 1)
      BY <1>2 DEF Ix, cap
    <2>2. \A i \in Ix(u + 1) : i \in Ix(u) \/ (i - cap \in 0..(slots - 1) /\ i = cap + (i - cap))
      BY <1>2, <2>1
    <2>3. \A i \in Ix(u + 1) : i \in Ix(u) \/ \E j \in 0..(slots - 1) : i = cap + j
      BY <2>2
    <2>4. Ix(u) \subseteq Ix(u + 1) /\ \A j \in 0..(slots - 1) : cap + j \in Ix(u + 1)
      BY <1>2, <2>1
    <2> QED  BY <2>3, <2>4
  <1> HIDE DEF u
  <1>12. TableOK(Grown, u + 1, made)
    <2>1. DOMAIN Grown = Places(u + 1)
      <3>1. DOMAIN Grown = Places(u) \cup Slots
        BY <1>7 DEF Grown
      <3>2. ASSUME NEW p \in Places(u + 1) PROVE p \in Places(u) \cup Slots
        <4>1. PICK k \in 0..u, j \in Nat : p = <<k, j>> /\ j < slots_in_segment(k)
          BY <1>1 DEF Places
        <4>2. CASE k = u
          <5>1. j \in 0..(slots - 1)
            BY <1>2, <4>1, <4>2 DEF slots, u
          <5> QED  BY <1>7, <4>1, <4>2, <5>1
        <4>3. CASE k # u
          <5>1. k \in 0..(u - 1)
            BY <1>1, <4>3
          <5> QED  BY <4>1, <5>1 DEF Places
        <4> QED  BY <4>2, <4>3
      <3>3. Places(u) \subseteq Places(u + 1)
        <4>1. ASSUME NEW p \in Places(u) PROVE p \in Places(u + 1)
          <5>1. PICK k \in 0..(u - 1), j \in Nat : p = <<k, j>> /\ j < slots_in_segment(k)
            BY DEF Places
          <5>2. k \in 0..((u + 1) - 1)
            BY <1>1
          <5>3. p \in (0..((u + 1) - 1)) \X Nat /\ p[1] = k /\ p[2] = j
            BY <5>1, <5>2
          <5>4. p[2] < slots_in_segment(p[1])
            BY <5>1, <5>3
          <5> QED  BY <5>3, <5>4, PlaceOf, Zenon
        <4> QED  BY <4>1
      <3>4. Slots \subseteq Places(u + 1)
        <4>1. \A j \in 0..(slots - 1) : j \in Nat /\ j < slots /\ u \in 0..((u + 1) - 1)
          BY <1>1, <1>2
        <4> QED  BY <1>7, <4>1 DEF Places, slots, u
      <3> QED  BY <3>1, <3>2, <3>3, <3>4
    <2>2. ASSUME NEW i \in Ix(u + 1)
          PROVE  Grown[get(i)] \in [generation : 0..(Generations - 1), object : 0..made,
                                    next : Ix(u + 1) \cup {EndOfList, NotInFreelist}]
      <3>1. CASE i \in Ix(u)
        <4>1. entries[get(i)] \in [generation : 0..(Generations - 1), object : 0..made,
                                   next : Ix(u) \cup {EndOfList, NotInFreelist}]
          BY <3>1 DEF PoolInv, TableOK, u
        <4>2. Ix(u) \subseteq Ix(u + 1)
          BY <1>11
        <4>3. Grown[get(i)] = entries[get(i)]
          BY <1>9, <3>1
        <4> QED  BY <4>1, <4>2, <4>3
      <3>2. ASSUME NEW j \in 0..(slots - 1), i = cap + j
            PROVE  <2>2!2
        <4>1. j + 1 # slots => j + 1 \in 0..(slots - 1) /\ cap + (j + 1) = cap + j + 1
          BY <1>2
        <4>2. j + 1 # slots => cap + j + 1 \in Ix(u + 1)
          BY <1>11, <4>1
        <4>3. 0 \in 0..(Generations - 1) /\ 0 \in 0..made
          BY <1>1
        <4>4. Grown[get(i)] = [generation |-> 0, object |-> 0,
                               next |-> IF j + 1 = slots THEN EndOfList ELSE cap + j + 1]
          BY <1>10, <3>2
        <4> QED  BY <4>2, <4>3, <4>4
      <3> QED  BY <1>11, <3>1, <3>2
    <2> QED  BY <2>1, <2>2 DEF TableOK
  <1>13. \A j \in 0..(slots - 1) : Grown[get(cap + j)].next # NotInFreelist
    <2>1. ASSUME NEW j \in 0..(slots - 1) PROVE Grown[get(cap + j)].next # NotInFreelist
      <3>1. Grown[get(cap + j)].next = IF j + 1 = slots THEN EndOfList ELSE cap + j + 1
        BY <1>20, Zenon
      <3>2. cap + j + 1 # NotInFreelist /\ EndOfList # NotInFreelist
        BY <1>2 DEF NotInFreelist, EndOfList
      <3> QED  BY <3>1, <3>2
    <2> QED  BY <2>1
  <1>14. HandlesOK(Grown, u + 1, issued, alive, made)
    <2>1. HandlesOK(entries, u, issued, alive, made)
      BY DEF PoolInv, u
    <2>2. ASSUME NEW o \in alive
          PROVE  /\ issued[o].idx \in Ix(u + 1)
                 /\ Grown[get(issued[o].idx)].next = NotInFreelist
                 /\ Grown[get(issued[o].idx)].object = o
                 /\ Grown[get(issued[o].idx)].generation = issued[o].generation
      <3>1. issued[o].idx \in Ix(u)
        BY <2>1 DEF HandlesOK
      <3>2. Grown[get(issued[o].idx)] = entries[get(issued[o].idx)]
        BY <1>9, <3>1
      <3> QED  BY <1>11, <2>1, <3>1, <3>2 DEF HandlesOK
    <2>3. ASSUME NEW i \in Ix(u + 1), Grown[get(i)].next = NotInFreelist
          PROVE  /\ Grown[get(i)].object \in alive /\ issued[Grown[get(i)].object].idx = i
                 /\ \A o \in 1..made : issued[o].idx = i => o <= Grown[get(i)].object
      <3>1. i \in Ix(u)
        BY <1>11, <1>13, <2>3
      <3>2. Grown[get(i)] = entries[get(i)]
        BY <1>9, <3>1
      <3> QED  BY <2>1, <2>3, <3>1, <3>2 DEF HandlesOK
    <2> QED  BY <2>2, <2>3 DEF HandlesOK
  <1>15. PICK list : list = [k \in 1..slots |-> cap + k - 1]
    OBVIOUS
  <1>16. /\ \A k \in 1..slots : list[k] = cap + k - 1 /\ list[k] \in Ix(u + 1)
         /\ list \in Seq(Ix(u + 1)) /\ Len(list) = slots
    <2>1. \A k \in 1..slots : k - 1 \in 0..(slots - 1) /\ cap + (k - 1) = cap + k - 1
      BY <1>2
    <2>2. \A k \in 1..slots : list[k] = cap + k - 1 /\ list[k] \in Ix(u + 1)
      BY <1>11, <1>15, <2>1
    <2>3. list \in [1..slots -> Ix(u + 1)]
      BY <1>15, <2>2
    <2> QED  BY <1>2, <2>2, <2>3
  <1>17. ListOK(Grown, u + 1, cap, list)
    <2>1. cap = IF list = << >> THEN EndOfList ELSE list[1]
      <3>1. 1 \in 1..slots /\ list # << >>
        BY <1>2, <1>16, EmptySeq
      <3>2. list[1] = cap + 1 - 1
        BY <1>16, <3>1
      <3> QED  BY <1>2, <3>1, <3>2
    <2>2. ASSUME NEW k \in 1..slots
          PROVE  /\ Grown[get(list[k])].next = IF k = slots THEN EndOfList ELSE list[k + 1]
                 /\ \A j \in 1..slots : list[k] = list[j] => k = j
      <3>1. k - 1 \in 0..(slots - 1) /\ list[k] = cap + (k - 1) /\ k - 1 + 1 = k
            /\ cap + (k - 1) + 1 = cap + k
        BY <1>2, <1>16
      <3>2. Grown[get(list[k])].next = IF k - 1 + 1 = slots THEN EndOfList ELSE cap + (k - 1) + 1
        <4>1. Grown[get(cap + (k - 1))].next
                = IF k - 1 + 1 = slots THEN EndOfList ELSE cap + (k - 1) + 1
          BY <1>20, <3>1, Zenon
        <4> QED  BY <3>1, <4>1, Zenon
      <3>3. k # slots => k + 1 \in 1..slots /\ list[k + 1] = cap + (k + 1) - 1
        BY <1>2, <1>16
      <3>4. cap + (k + 1) - 1 = cap + k
        BY <1>2
      <3>5. ASSUME NEW j \in 1..slots, list[k] = list[j] PROVE k = j
        BY <1>2, <1>16, <3>5
      <3> QED  BY <3>1, <3>2, <3>3, <3>4, <3>5
    <2>3. ASSUME NEW i \in Ix(u + 1), Grown[get(i)].next # NotInFreelist
          PROVE  \E k \in 1..slots : list[k] = i
      <3>1. CASE i \in Ix(u)
        <4>1. entries[get(i)].next # NotInFreelist
          BY <1>9, <2>3, <3>1
        <4>2. \E k \in 1..Len(old) : old[k] = i
          BY <1>3, <3>1, <4>1 DEF ListOK, u
        <4> QED  BY <1>4, <4>2
      <3>2. ASSUME NEW j \in 0..(slots - 1), i = cap + j
            PROVE  \E k \in 1..slots : list[k] = i
        <4>1. j + 1 \in 1..slots /\ cap + (j + 1) - 1 = i
          BY <1>2, <3>2
        <4>2. list[j + 1] = i
          BY <1>16, <4>1
        <4> QED  BY <4>1, <4>2
      <3> QED  BY <1>11, <3>1, <3>2
    <2> QED  BY <1>16, <2>1, <2>2, <2>3 DEF ListOK
  <1>18. m_count = Cap(u + 1) - Len(list) /\ cap # EndOfList
    BY <1>2, <1>4, <1>16 DEF u, EndOfList
  <1> QED  BY <1>1, <1>12, <1>14, <1>17, <1>18 DEF GrownOK, cap, u

LEMMA EmplaceStep == PoolInv /\ emplace => PoolInv'
  <1> SUFFICES ASSUME PoolInv, emplace PROVE PoolInv'
    OBVIOUS
  <1>1. /\ NumbersOK /\ IssuedOK(issued, made) /\ GenerationsOK
        /\ m_used_segments \in 0..MaxSegments /\ m_used_segments \in Nat
        /\ m_capacity = Cap(m_used_segments)
    BY PoolAssumption DEF PoolInv, NumbersOK
  <1>2. CASE m_head # EndOfList /\ Place(m_head, entries)
             /\ UNCHANGED <<m_used_segments, m_capacity>>
    <2>1. PICK list : ListOK(entries, m_used_segments, m_head, list)
                      /\ m_count = m_capacity - Len(list)
      BY DEF PoolInv, FreeListIs
    <2>2. /\ TableOK(entries, m_used_segments, made)
          /\ HandlesOK(entries, m_used_segments, issued, alive, made)
      BY DEF PoolInv
    <2>3. /\ m_count = Cap(m_used_segments) - Len(list)
          /\ m_used_segments' = m_used_segments /\ m_capacity' = Cap(m_used_segments)
      BY <1>1, <1>2, <2>1
    <2> QED  BY <1>1, <1>2, <2>1, <2>2, <2>3, PlaceStep, Zenon
  <1>3. CASE add_segment /\ Place(m_capacity, Grown)
    <2>1. m_head = EndOfList /\ m_used_segments < MaxSegments
      BY <1>3 DEF add_segment
    <2>2. GrownOK(m_used_segments)
      BY <2>1, GrownIs
    <2> DEFINE u == m_used_segments + 1
    <2>3. /\ m_used_segments' = u /\ m_capacity' = Cap(u) /\ u \in 0..MaxSegments
      BY <1>1, <1>3, <2>2, Caps DEF add_segment, GrownOK
    <2>4. PICK list : ListOK(Grown, u, m_capacity, list) /\ m_count = Cap(u) - Len(list)
      BY <1>1, <2>2 DEF GrownOK
    <2>5. /\ TableOK(Grown, u, made) /\ HandlesOK(Grown, u, issued, alive, made)
          /\ m_capacity # EndOfList
      BY <1>1, <2>2 DEF GrownOK
    <2> HIDE DEF u
    <2> QED  BY <1>1, <1>3, <2>3, <2>4, <2>5, PlaceStep, Zenon
  <1> QED  BY <1>2, <1>3 DEF emplace

LEMMA EmplaceThrowsStep == PoolInv /\ emplace_throws => PoolInv'
  <1> SUFFICES ASSUME PoolInv, emplace_throws PROVE PoolInv'
    OBVIOUS
  <1>1. m_head = EndOfList /\ m_used_segments < MaxSegments
    BY DEF emplace_throws, add_segment
  <1>2. GrownOK(m_used_segments)
    BY <1>1, GrownIs
  <1>3. m_used_segments \in Nat /\ m_capacity = Cap(m_used_segments)
    BY PoolAssumption DEF PoolInv, NumbersOK
  <1>4. /\ m_used_segments' = m_used_segments + 1
        /\ m_capacity' = Cap(m_used_segments + 1)
        /\ entries' = Grown /\ m_head' = Cap(m_used_segments)
        /\ m_count' = m_count /\ m_latest_generation' = m_latest_generation
        /\ made' = made /\ issued' = issued /\ alive' = alive
    BY <1>3, Caps DEF emplace_throws, add_segment
  <1>5. NumbersOK' /\ GenerationsOK'
    BY <1>2, <1>4 DEF PoolInv, NumbersOK, GenerationsOK, GrownOK
  <1>6. FreeListIs'
    BY <1>2, <1>4 DEF GrownOK, FreeListIs
  <1> QED  BY <1>2, <1>4, <1>5, <1>6 DEF PoolInv, GrownOK

-----------------------------------------------------------------------------
(* erase *)

(* An entry that is in use becomes the first of the list. *)
LEMMA ListGiven ==
  ASSUME NEW used \in 0..MaxSegments, NEW table, DOMAIN table = Places(used),
         NEW head, NEW list, ListOK(table, used, head, list),
         NEW idx \in Ix(used), table[get(idx)].next = NotInFreelist,
         NEW entry, entry.next = head
  PROVE  \E longer : ListOK([table EXCEPT ![get(idx)] = entry], used, idx, longer)
                     /\ Len(longer) = Len(list) + 1 /\ Len(list) \in Nat
  <1> DEFINE new  == [table EXCEPT ![get(idx)] = entry]
             size == Len(list)
  <1>1. /\ list \in Seq(Ix(used)) /\ size \in Nat
        /\ head = IF list = << >> THEN EndOfList ELSE list[1]
    BY LenProperties DEF ListOK
  <1>2. PICK longer : longer = << idx >> \o list
    OBVIOUS
  <1>3. /\ longer \in Seq(Ix(used)) /\ Len(longer) = size + 1
        /\ longer[1] = idx /\ \A i \in 2..(size + 1) : longer[i] = list[i - 1]
    BY <1>1, <1>2
  <1>4. /\ \A i \in Ix(used) : get(i) \in Places(used)
        /\ \A i, h \in Ix(used) : get(i) = get(h) => i = h
    BY GetInjective DEF Ix
  <1>5. \A i \in Ix(used) : new[get(i)] = IF i = idx THEN entry ELSE table[get(i)]
    BY <1>4
  <1>6. \A i \in 1..size : list[i] \in Ix(used)
    BY <1>1, ElementOfSeq
  <1> HIDE DEF size, new
  <1>7. \A i \in 1..size : list[i] # idx
    <2>1. ASSUME NEW i \in 1..size PROVE table[get(list[i])].next # NotInFreelist
      <3>1. table[get(list[i])].next = IF i = size THEN EndOfList ELSE list[i + 1]
        BY Zenon DEF ListOK, size
      <3>2. i # size => list[i + 1] \in Ix(used)
        <4>1. i # size => i + 1 \in 1..size
          BY <1>1
        <4> QED  BY <1>6, <4>1
      <3> QED  BY <3>1, <3>2 DEF Ix, EndOfList, NotInFreelist
    <2> QED  BY <2>1
  <1>8. longer # << >> /\ (list = << >> <=> size = 0)
    BY <1>1, <1>3, EmptySeq DEF size
  <1>9. ASSUME NEW i \in 1..(size + 1)
        PROVE  /\ new[get(longer[i])].next
                    = IF i = size + 1 THEN EndOfList ELSE longer[i + 1]
               /\ \A j \in 1..(size + 1) : longer[i] = longer[j] => i = j
    <2>1. CASE i = 1
      <3>1. new[get(longer[i])].next = head
        BY <1>3, <1>5, <2>1
      <3>2. size # 0 => longer[i + 1] = list[1]
        <4>1. size # 0 => 2 \in 2..(size + 1)
          BY <1>1
        <4> QED  BY <1>3, <2>1, <4>1
      <3>3. ASSUME NEW j \in 1..(size + 1), longer[i] = longer[j] PROVE i = j
        <4>1. j # 1 => j \in 2..(size + 1) /\ j - 1 \in 1..size
          BY <1>1
        <4> QED  BY <1>3, <1>7, <2>1, <3>3, <4>1
      <3>4. i = size + 1 <=> size = 0
        BY <1>1, <2>1
      <3> QED  BY <1>1, <1>8, <3>1, <3>2, <3>3, <3>4
    <2>2. CASE i # 1
      <3>1. i \in 2..(size + 1) /\ i - 1 \in 1..size /\ i - 1 + 1 = i
        BY <1>1, <2>2
      <3>2. longer[i] = list[i - 1] /\ list[i - 1] \in Ix(used) /\ list[i - 1] # idx
        BY <1>3, <1>6, <1>7, <3>1
      <3>3. new[get(longer[i])] = table[get(list[i - 1])]
        BY <1>5, <3>2
      <3>4. table[get(list[i - 1])].next = IF i - 1 = size THEN EndOfList ELSE list[i - 1 + 1]
        BY <3>1, Zenon DEF ListOK, size
      <3>5. i # size + 1 => longer[i + 1] = list[i]
        <4>1. i # size + 1 => i + 1 \in 2..(size + 1) /\ i + 1 - 1 = i
          BY <1>1, <3>1
        <4> QED  BY <1>3, <4>1
      <3>6. i = size + 1 <=> i - 1 = size
        BY <1>1, <3>1
      <3>7. ASSUME NEW j \in 1..(size + 1), longer[i] = longer[j] PROVE i = j
        <4>1. j # 1
          BY <1>3, <3>2, <3>7
        <4>2. j \in 2..(size + 1) /\ j - 1 \in 1..size
          BY <1>1, <4>1
        <4>3. list[i - 1] = list[j - 1]
          BY <1>3, <3>2, <3>7, <4>2
        <4>4. i - 1 = j - 1
          BY <3>1, <4>2, <4>3 DEF ListOK, size
        <4> QED  BY <1>1, <4>4
      <3> QED  BY <3>1, <3>3, <3>4, <3>5, <3>6, <3>7
    <2> QED  BY <2>1, <2>2
  <1>10. ASSUME NEW i \in Ix(used), new[get(i)].next # NotInFreelist
         PROVE  \E k \in 1..(size + 1) : longer[k] = i
    <2>1. CASE i = idx
      <3>1. 1 \in 1..(size + 1)
        BY <1>1
      <3> QED  BY <1>3, <2>1, <3>1
    <2>2. CASE i # idx
      <3>1. PICK k \in 1..size : list[k] = i
        BY <1>5, <1>10, <2>2 DEF ListOK, size
      <3>2. k + 1 \in 2..(size + 1) /\ k + 1 \in 1..(size + 1) /\ k + 1 - 1 = k
        BY <1>1
      <3> QED  BY <1>3, <3>1, <3>2
    <2> QED  BY <2>1, <2>2
  <1>11. ListOK(new, used, idx, longer)
    BY <1>3, <1>8, <1>9, <1>10 DEF ListOK
  <1> QED  BY <1>1, <1>3, <1>11 DEF size, new

LEMMA EraseStep ==
  ASSUME PoolInv, NEW object \in 1..made, erase(object)
  PROVE  PoolInv'
  <1> DEFINE idx == issued[object].idx
             u   == m_used_segments
  <1>0. PICK entry : entry = [entries[get(idx)] EXCEPT !.next = m_head]
    OBVIOUS
  <1>1. PICK p : p = entries[get(idx)].object
    OBVIOUS
  <1>2. /\ idx < m_capacity /\ entries[get(idx)].next = NotInFreelist
        /\ entries' = [entries EXCEPT ![get(idx)] = entry]
        /\ m_head' = idx /\ m_count' = m_count - 1 /\ alive' = alive \ {p}
        /\ m_used_segments' = u /\ m_capacity' = m_capacity
        /\ m_latest_generation' = m_latest_generation
        /\ made' = made /\ issued' = issued
    BY <1>0, <1>1 DEF erase, get_if_valid
  <1>3. /\ u \in 0..MaxSegments /\ m_capacity = Cap(u) /\ u \in Nat /\ Cap(u) \in Nat
        /\ m_count = Cardinality(alive) /\ IsFiniteSet(alive)
    BY PoolAssumption, Caps DEF PoolInv, NumbersOK
  <1>4. idx \in Ix(u)
    <2>1. idx \in Nat
      BY DEF PoolInv, IssuedOK
    <2> QED  BY <1>2, <1>3, <2>1 DEF Ix
  <1>5. /\ TableOK(entries, u, made) /\ HandlesOK(entries, u, issued, alive, made)
        /\ IssuedOK(issued, made)
    BY DEF PoolInv
  <1> HIDE DEF idx, u
  <1>6. entries[get(idx)] \in [generation : 0..(Generations - 1), object : 0..made,
                               next : Ix(u) \cup {EndOfList, NotInFreelist}]
    BY <1>4, <1>5 DEF TableOK
  <1>7. entry.next = m_head
    BY <1>0, <1>6
  <1>8. PICK list : ListOK(entries, u, m_head, list) /\ m_count = m_capacity - Len(list)
    BY DEF PoolInv, FreeListIs, u
  <1>9. PICK longer : ListOK(entries', u, idx, longer)
                      /\ Len(longer) = Len(list) + 1 /\ Len(list) \in Nat
    <2>1. DOMAIN entries = Places(u)
      BY <1>5 DEF TableOK
    <2>2. \E longer : ListOK([entries EXCEPT ![get(idx)] = entry], u, idx, longer)
                      /\ Len(longer) = Len(list) + 1 /\ Len(list) \in Nat
      BY <1>2, <1>3, <1>4, <1>7, <1>8, <2>1, ListGiven, Zenon
    <2> QED  BY <1>2, <2>2
  <1>10. FreeListIs'
    <2>1. m_count' = m_capacity' - Len(longer)
      BY <1>2, <1>3, <1>8, <1>9
    <2> QED  BY <1>2, <1>9, <2>1 DEF FreeListIs
  <1>11. m_head \in Ix(u) \cup {EndOfList}
    <2>1. /\ list \in Seq(Ix(u)) /\ m_head = IF list = << >> THEN EndOfList ELSE list[1]
      BY <1>8 DEF ListOK
    <2>2. list # << >> => 1 \in 1..Len(list)
      BY <2>1, EmptySeq, LenProperties
    <2>3. list # << >> => list[1] \in Ix(u)
      BY <2>1, <2>2, ElementOfSeq
    <2> QED  BY <2>1, <2>3
  <1>12. /\ \A i \in Ix(u) : get(i) \in Places(u)
         /\ \A i, h \in Ix(u) : get(i) = get(h) => i = h
    BY <1>3, GetInjective DEF Ix
  <1>13. \A i \in Ix(u) : entries'[get(i)] = IF i = idx THEN entry ELSE entries[get(i)]
    BY <1>2, <1>4, <1>5, <1>12 DEF TableOK
  <1>14. TableOK(entries', u, made)
    <2>1. DOMAIN entries' = Places(u)
      BY <1>2, <1>5 DEF TableOK
    <2>2. entry \in [generation : 0..(Generations - 1), object : 0..made,
                     next : Ix(u) \cup {EndOfList, NotInFreelist}]
      BY <1>0, <1>6, <1>11
    <2>3. ASSUME NEW i \in Ix(u)
          PROVE  entries'[get(i)] \in [generation : 0..(Generations - 1), object : 0..made,
                                       next : Ix(u) \cup {EndOfList, NotInFreelist}]
      <3>1. CASE i = idx
        BY <1>13, <2>2, <3>1
      <3>2. CASE i # idx
        <4>1. entries'[get(i)] = entries[get(i)]
          BY <1>13, <3>2
        <4> QED  BY <1>5, <4>1 DEF TableOK
      <3> QED  BY <3>1, <3>2
    <2> QED  BY <2>1, <2>3 DEF TableOK
  <1>15. /\ p \in alive /\ issued[p].idx = idx
    BY <1>1, <1>2, <1>4, <1>5 DEF HandlesOK
  <1>16. NumbersOK'
    <2>1. IsFiniteSet(alive') /\ Cardinality(alive') = m_count - 1
      BY <1>2, <1>3, <1>15, FS_RemoveElement
    <2> QED  BY <1>2, <2>1 DEF NumbersOK, PoolInv, u
  <1>17. GenerationsOK'
    BY <1>2 DEF GenerationsOK, PoolInv
  <1>18. HandlesOK(entries', u, issued', alive', made')
    <2>1. ASSUME NEW o \in alive'
          PROVE  /\ issued[o].idx \in Ix(u)
                 /\ entries'[get(issued[o].idx)].next = NotInFreelist
                 /\ entries'[get(issued[o].idx)].object = o
                 /\ entries'[get(issued[o].idx)].generation = issued[o].generation
      <3>1. o \in alive /\ o # p
        BY <1>2
      <3>2. /\ issued[o].idx \in Ix(u)
            /\ entries[get(issued[o].idx)].next = NotInFreelist
            /\ entries[get(issued[o].idx)].object = o
            /\ entries[get(issued[o].idx)].generation = issued[o].generation
        BY <1>5, <3>1 DEF HandlesOK
      <3>3. issued[o].idx # idx
        BY <1>1, <3>1, <3>2
      <3>4. entries'[get(issued[o].idx)] = entries[get(issued[o].idx)]
        BY <1>13, <3>2, <3>3
      <3> QED  BY <3>2, <3>4
    <2>2. ASSUME NEW i \in Ix(u), entries'[get(i)].next = NotInFreelist
          PROVE  /\ entries'[get(i)].object \in alive'
                 /\ issued[entries'[get(i)].object].idx = i
                 /\ \A o \in 1..made : issued[o].idx = i => o <= entries'[get(i)].object
      <3>1. i # idx
        <4>1. m_head # NotInFreelist
          BY <1>11 DEF Ix, EndOfList, NotInFreelist
        <4> QED  BY <1>7, <1>13, <2>2, <4>1
      <3>2. entries'[get(i)] = entries[get(i)]
        BY <1>13, <3>1
      <3>3. /\ entries[get(i)].object \in alive /\ issued[entries[get(i)].object].idx = i
            /\ \A o \in 1..made : issued[o].idx = i => o <= entries[get(i)].object
        BY <1>5, <2>2, <3>2 DEF HandlesOK
      <3>4. entries[get(i)].object # p
        BY <1>15, <3>1, <3>3
      <3> QED  BY <1>2, <3>2, <3>3, <3>4
    <2> QED  BY <1>2, <2>1, <2>2 DEF HandlesOK
  <1> QED  BY <1>2, <1>5, <1>10, <1>14, <1>16, <1>17, <1>18 DEF PoolInv

LEMMA StepPool == PoolInv /\ [Next]_vars => PoolInv'
  BY EmplaceStep, EmplaceThrowsStep, ClearStep, EraseStep, UnchangedStep DEF Next

LEMMA PoolInvHolds == Spec => []PoolInv
  BY InitPool, StepPool, PTL DEF Spec

-----------------------------------------------------------------------------
(* The theorems *)

(* The head of the free list, the generation of every entry and the objects *)
(* that live stay in their ranges, whatever is emplaced, erased or cleared. *)
THEOREM PoolTypesKept == Spec => []TypeOK
  <1>1. PoolInv => TypeOK
    <2> SUFFICES ASSUME PoolInv PROVE TypeOK
      OBVIOUS
    <2>1. /\ m_used_segments \in 0..MaxSegments /\ m_capacity = Cap(m_used_segments)
          /\ Indices = Ix(m_used_segments)
      BY DEF PoolInv, NumbersOK, Indices, Ix
    <2>2. m_head \in Indices \cup {EndOfList}
      <3>1. PICK list : ListOK(entries, m_used_segments, m_head, list)
        BY DEF PoolInv, FreeListIs
      <3>2. /\ list \in Seq(Indices) /\ m_head = IF list = << >> THEN EndOfList ELSE list[1]
        BY <2>1, <3>1 DEF ListOK
      <3>3. list # << >> => 1 \in 1..Len(list)
        BY <3>2, EmptySeq, LenProperties
      <3>4. list # << >> => list[1] \in Indices
        BY <3>2, <3>3, ElementOfSeq
      <3> QED  BY <3>2, <3>4
    <2>3. ASSUME NEW p \in DOMAIN entries
          PROVE  /\ entries[p].next \in Indices \cup {EndOfList, NotInFreelist}
                 /\ entries[p].generation \in 0..(Generations - 1)
                 /\ entries[p].object \in 0..made
      <3>1. PICK j \in Ix(m_used_segments) : get(j) = p
        <4>1. p \in Places(m_used_segments)
          BY DEF PoolInv, TableOK
        <4> QED  BY <2>1, <4>1, GetInjective DEF Ix
      <3>2. entries[get(j)] \in [generation : 0..(Generations - 1), object : 0..made,
                                 next : Ix(m_used_segments) \cup {EndOfList, NotInFreelist}]
        BY DEF PoolInv, TableOK
      <3> QED  BY <2>1, <3>1, <3>2
    <2> QED  BY <2>1, <2>2, <2>3 DEF PoolInv, NumbersOK, IssuedOK, TypeOK
  <1> QED  BY <1>1, PoolInvHolds, PTL

FreeDef == Free = [i \in Nat |-> IF i = 0 THEN m_head
                                 ELSE IF Free[i - 1] = EndOfList THEN EndOfList
                                 ELSE entries[get(Free[i - 1])].next]

(* There is a function as Free is defined: the list, and its end behind it. *)
LEMMA FreeIs ==
  ASSUME NEW used, NEW list, ListOK(entries, used, m_head, list)
  PROVE  FreeDef
  <1> DEFINE f == [i \in Nat |-> IF i < Len(list) THEN list[i + 1] ELSE EndOfList]
  <1>1. list \in Seq(Ix(used)) /\ Len(list) \in Nat
    BY LenProperties DEF ListOK
  <1>2. \A i \in 1..Len(list) : list[i] # EndOfList
    <2>1. \A i \in 1..Len(list) : list[i] \in Ix(used)
      BY <1>1, ElementOfSeq
    <2> QED  BY <2>1 DEF Ix, EndOfList
  <1>3. m_head = IF Len(list) = 0 THEN EndOfList ELSE list[1]
    BY <1>1, EmptySeq DEF ListOK
  <1>4. ASSUME NEW i \in Nat
        PROVE  f[i] = IF i = 0 THEN m_head
                      ELSE IF f[i - 1] = EndOfList THEN EndOfList ELSE entries[get(f[i - 1])].next
    <2>1. CASE i = 0
      BY <1>1, <1>3, <2>1
    <2>2. CASE i # 0
      <3>1. i - 1 \in Nat /\ i - 1 + 1 = i
        BY <2>2
      <3>2. CASE i - 1 < Len(list)
        <4>1. i \in 1..Len(list) /\ f[i - 1] = list[i]
          BY <1>1, <3>1, <3>2
        <4>2. entries[get(list[i])].next = IF i = Len(list) THEN EndOfList ELSE list[i + 1]
          BY <4>1, Zenon DEF ListOK
        <4>3. f[i] = IF i = Len(list) THEN EndOfList ELSE list[i + 1]
          BY <1>1, <4>1
        <4> HIDE DEF f
        <4> QED  BY <1>2, <2>2, <4>1, <4>2, <4>3
      <3>3. CASE ~(i - 1 < Len(list))
        <4>1. f[i - 1] = EndOfList /\ f[i] = EndOfList
          BY <1>1, <3>1, <3>3
        <4> HIDE DEF f
        <4> QED  BY <2>2, <4>1
      <3> QED  BY <3>2, <3>3
    <2> QED  BY <2>1, <2>2
  <1> HIDE DEF f
  <1> DEFINE Shape(g) == g = [i \in Nat |-> IF i = 0 THEN m_head
                                            ELSE IF g[i - 1] = EndOfList THEN EndOfList
                                            ELSE entries[get(g[i - 1])].next]
  <1>5. f = [i \in Nat |-> f[i]]
    BY DEF f
  <1>6. Shape(f)
    BY <1>4, <1>5
  <1>7. Free = CHOOSE g : Shape(g)
    BY DEF Free
  <1> HIDE DEF Shape
  <1>8. Shape(Free)
    BY <1>6, <1>7
  <1> QED  BY <1>8, Zenon DEF Shape, FreeDef

LEMMA FreeGives ==
  ASSUME NEW used, NEW list, ListOK(entries, used, m_head, list), NEW i \in Nat
  PROVE  Free[i] = IF i < Len(list) THEN list[i + 1] ELSE EndOfList
  <1> DEFINE Want(k) == IF k < Len(list) THEN list[k + 1] ELSE EndOfList
             Bad == {k \in Nat : Free[k] # Want(k)}
  <1>1. list \in Seq(Ix(used)) /\ Len(list) \in Nat
    BY LenProperties DEF ListOK
  <1>2. \A k \in 1..Len(list) : list[k] # EndOfList
    <2>1. \A k \in 1..Len(list) : list[k] \in Ix(used)
      BY <1>1, ElementOfSeq
    <2> QED  BY <2>1 DEF Ix, EndOfList
  <1>3. m_head = IF Len(list) = 0 THEN EndOfList ELSE list[1]
    BY <1>1, EmptySeq DEF ListOK
  <1>4. \A k \in Nat : Free[k] = IF k = 0 THEN m_head
                                 ELSE IF Free[k - 1] = EndOfList THEN EndOfList
                                 ELSE entries[get(Free[k - 1])].next
    BY FreeIs, Zenon DEF FreeDef
  <1>5. SUFFICES ASSUME Bad # {} PROVE FALSE
    OBVIOUS
  <1>6. PICK k \in Bad : \A l \in Bad : <<l, k>> \notin OpToRel(<, Nat)
    <2>1. \E k \in Bad : \A l \in Bad : <<l, k>> \notin OpToRel(<, Nat)
      BY <1>5, WFMin, NatLessThanWellFounded
    <2> QED  BY <2>1
  <1>7. k \in Nat /\ Free[k] # Want(k)
    OBVIOUS
  <1>8. CASE k = 0
    BY <1>1, <1>3, <1>4, <1>7, <1>8
  <1>9. CASE k # 0
    <2>1. k - 1 \in Nat /\ k - 1 < k /\ k - 1 + 1 = k
      BY <1>7, <1>9
    <2>2. k - 1 \notin Bad
      BY <1>6, <1>7, <2>1 DEF OpToRel
    <2>3. Free[k - 1] = Want(k - 1)
      BY <2>1, <2>2
    <2>4. Free[k] = IF Free[k - 1] = EndOfList THEN EndOfList ELSE entries[get(Free[k - 1])].next
      BY <1>4, <1>7, <1>9
    <2>5. CASE k - 1 < Len(list)
      <3>1. k \in 1..Len(list) /\ Free[k - 1] = list[k]
        BY <1>1, <1>7, <2>1, <2>3, <2>5
      <3>2. entries[get(list[k])].next = IF k = Len(list) THEN EndOfList ELSE list[k + 1]
        BY <3>1, Zenon DEF ListOK
      <3>3. Free[k] = IF k = Len(list) THEN EndOfList ELSE list[k + 1]
        BY <1>2, <2>4, <3>1, <3>2
      <3> QED  BY <1>1, <1>7, <3>1, <3>3
    <2>6. CASE ~(k - 1 < Len(list))
      <3>1. Free[k] = EndOfList
        BY <2>3, <2>4, <2>6
      <3> QED  BY <1>1, <1>7, <2>1, <2>6, <3>1
    <2> QED  BY <2>5, <2>6
  <1> QED  BY <1>8, <1>9

(* The free list holds exactly the entries that are not in use, and the     *)
(* counters agree with it, after any number of objects were emplaced,      *)
(* erased and cleared away: an entry is neither lost nor given out twice.  *)
THEOREM FreeListStaysComplete == Spec => []FreeListComplete
  <1>1. PoolInv => FreeListComplete
    <2> SUFFICES ASSUME PoolInv PROVE FreeListComplete
      OBVIOUS
    <2> DEFINE u    == m_used_segments
               free == {i \in Indices : entries[get(i)].next # NotInFreelist}
    <2>1. /\ u \in 0..MaxSegments /\ Indices = Ix(u)
          /\ m_count = Cardinality(alive)
      BY DEF PoolInv, NumbersOK, Indices, Ix
    <2>2. PICK list : ListOK(entries, u, m_head, list) /\ m_count = m_capacity - Len(list)
      BY DEF PoolInv, FreeListIs
    <2> DEFINE n == Len(list)
               f == [i \in 1..n |-> list[i]]
    <2> HIDE DEF u
    <2>3. list \in Seq(Ix(u)) /\ n \in Nat
      BY <2>2, LenProperties DEF ListOK
    <2>4. \A i \in 1..n : list[i] \in Ix(u)
      BY <2>3, ElementOfSeq
    <2>5. ASSUME NEW i \in 1..n PROVE list[i] \in free
      <3>1. entries[get(list[i])].next = IF i = n THEN EndOfList ELSE list[i + 1]
        BY <2>2, Zenon DEF ListOK
      <3>2. i # n => list[i + 1] \in Ix(u)
        <4>1. i # n => i + 1 \in 1..n
          BY <2>3
        <4> QED  BY <2>4, <4>1
      <3>3. entries[get(list[i])].next # NotInFreelist
        BY <3>1, <3>2 DEF Ix, EndOfList, NotInFreelist
      <3> QED  BY <2>1, <2>4, <3>3
    <2>6. \A i \in free : \E k \in 1..n : list[k] = i
      BY <2>1, <2>2 DEF ListOK
    <2>7. \A i, j \in 1..n : list[i] = list[j] => i = j
      BY <2>2 DEF ListOK
    <2>8. \A i \in Nat : Free[i] = IF i < n THEN list[i + 1] ELSE EndOfList
      BY <2>2, FreeGives
    <2> HIDE DEF n, free
    <2>9. IsFiniteSet(1..n) /\ Cardinality(1..n) = n
      BY <2>3, UpTo
    <2>10. f \in Surjection(1..n, free) /\ f \in Injection(1..n, free)
      BY <2>5, <2>6, <2>7 DEF Surjection, Injection, IsInjective
    <2> HIDE DEF f
    <2>11. Cardinality(free) = n
      BY <2>9, <2>10, FS_Surjection, Zenon
    <2>12. {Free[k] : k \in 0..n} = free \cup {EndOfList}
      <3>1. ASSUME NEW k \in 0..n PROVE Free[k] \in free \cup {EndOfList}
        <4>1. k \in Nat /\ (k < n => k + 1 \in 1..n)
          BY <2>3
        <4> QED  BY <2>5, <2>8, <4>1
      <3>2. ASSUME NEW i \in free PROVE \E k \in 0..n : Free[k] = i
        <4>1. PICK k \in 1..n : list[k] = i
          BY <2>6
        <4>2. k - 1 \in 0..n /\ k - 1 \in Nat /\ k - 1 < n /\ k - 1 + 1 = k
          BY <2>3
        <4> QED  BY <2>8, <4>1, <4>2
      <3>3. n \in 0..n /\ Free[n] = EndOfList
        BY <2>3, <2>8
      <3> QED  BY <3>1, <3>2, <3>3
    <2> QED  BY <2>1, <2>2, <2>11, <2>12 DEF FreeListComplete, free, n
  <1> QED  BY <1>1, PoolInvHolds, PTL

(* The handle of an object finds this object as long as it lives, and is    *)
(* refused afterwards, however often its entry was given out again, until  *)
(* the generation has come round.                                          *)
THEOREM HandlesKeepTheirMeaning == Spec => []HandlesMeanTheirObject
  <1>1. PoolInv => HandlesMeanTheirObject
    <2> SUFFICES ASSUME PoolInv PROVE HandlesMeanTheirObject
      OBVIOUS
    <2>1. /\ m_used_segments \in 0..MaxSegments /\ m_capacity = Cap(m_used_segments)
          /\ made \in Nat /\ alive \subseteq 1..made
          /\ Cap(m_used_segments) \in Nat
          /\ m_latest_generation \in 0..(Generations - 1)
          /\ Generations \in Nat /\ Generations > 2
      <3>1. m_used_segments \in Nat
        BY PoolAssumption DEF PoolInv, NumbersOK
      <3> QED  BY <3>1, Caps, PoolAssumption DEF PoolInv, NumbersOK
    <2>2. /\ HandlesOK(entries, m_used_segments, issued, alive, made)
          /\ IssuedOK(issued, made) /\ GenerationsOK
      BY DEF PoolInv
    <2>3. ASSUME NEW o \in alive
          PROVE  get_if_valid(issued[o]) /\ entries[get(issued[o].idx)].object = o
      <3>1. /\ issued[o].idx \in Ix(m_used_segments)
            /\ entries[get(issued[o].idx)].next = NotInFreelist
            /\ entries[get(issued[o].idx)].object = o
            /\ entries[get(issued[o].idx)].generation = issued[o].generation
        BY <2>2 DEF HandlesOK
      <3>2. issued[o].generation # 0
        BY <2>1, <2>2 DEF IssuedOK
      <3>3. issued[o].idx < m_capacity
        BY <2>1, <3>1 DEF Ix
      <3> QED  BY <3>1, <3>2, <3>3 DEF get_if_valid
    <2>4. ASSUME NEW o \in 1..made \ alive, get_if_valid(issued[o])
          PROVE  made - o >= Generations - 1
      <3> DEFINE idx == issued[o].idx
                 p   == entries[get(idx)].object
                 gap == made - o
                 age == made - p
      <3>1. /\ idx \in Ix(m_used_segments) /\ entries[get(idx)].next = NotInFreelist
            /\ entries[get(idx)].generation = issued[o].generation
        BY <2>1, <2>2, <2>4 DEF IssuedOK, get_if_valid, Ix
      <3> HIDE DEF idx
      <3>2. p \in alive /\ issued[p].idx = idx /\ o <= p
        <4>1. issued[o].idx = idx
          BY DEF idx
        <4> QED  BY <2>2, <3>1, <4>1 DEF HandlesOK
      <3>3. issued[p].generation = issued[o].generation
        BY <2>2, <3>1, <3>2 DEF HandlesOK
      <3> HIDE DEF p
      <3>4. p \in 1..made /\ o \in 1..made /\ p # o
        BY <2>1, <3>2
      <3>5. age \in Nat /\ gap \in Nat /\ age < gap
        BY <2>1, <3>2, <3>4
      <3>6. SUFFICES ASSUME gap < Generations - 1 PROVE FALSE
        BY <2>1, <3>5
      <3>7. /\ issued[o].generation =
                  IF gap < m_latest_generation THEN m_latest_generation - gap
                  ELSE m_latest_generation - gap + (Generations - 1)
            /\ issued[p].generation =
                  IF age < m_latest_generation THEN m_latest_generation - age
                  ELSE m_latest_generation - age + (Generations - 1)
        <4>1. age < Generations - 1
          BY <2>1, <3>5, <3>6
        <4> QED  BY <2>2, <3>4, <3>6, <4>1 DEF GenerationsOK
      <3> HIDE DEF gap, age
      <3> QED  BY <2>1, <3>3, <3>5, <3>6, <3>7
    <2> QED  BY <2>3, <2>4 DEF HandlesMeanTheirObject, LiveHandlesFindTheirObject,
                               StaleHandlesRefused
  <1> QED  BY <1>1, PoolInvHolds, PTL

=============================================================================
