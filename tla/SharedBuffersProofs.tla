-------------------------- MODULE SharedBuffersProofs --------------------------
(***************************************************************************)
(* For every finite set of holders, the storage behind a document outlives *)
(* those who read it, and is released exactly once.                        *)
(***************************************************************************)
EXTENDS SharedBuffers, FiniteSetTheorems, TLAPS

(* Each counter counts its readers, and an arena has been released once   *)
(* exactly if it has no reader left.                                      *)
CountersExact ==
    /\ source_ref_count = Cardinality(SourceReaders)
    /\ immutable_ref_count = Cardinality(ImmutableReaders)
    /\ source_releases = IF SourceReaders = {} THEN 1 ELSE 0
    /\ immutable_releases = IF ImmutableReaders = {} THEN 1 ELSE 0

IInv == TypeOK /\ CountersExact

(* Readers are holders, of which there are finitely many. *)
LEMMA ReadersFinite ==
    /\ IsFiniteSet(SourceReaders)
    /\ IsFiniteSet(ImmutableReaders)
    /\ IsFiniteSet(SourceReaders')
    /\ IsFiniteSet(ImmutableReaders')
  BY HoldersAssumption, FS_Subset DEF SourceReaders, ImmutableReaders

(* Adding a new element to a finite set counts one up. *)
LEMMA CountUp ==
  ASSUME NEW S, NEW x, IsFiniteSet(S), x \notin S
  PROVE  /\ Cardinality(S \cup {x}) = Cardinality(S) + 1
         /\ Cardinality(S) \in Nat
         /\ S \cup {x} # {}
  BY FS_AddElement, FS_CardinalityType

(* Taking an element from a finite set counts one down, and the set is    *)
(* empty after it exactly if its count was one.                           *)
LEMMA CountDown ==
  ASSUME NEW S, NEW x \in S, IsFiniteSet(S)
  PROVE  /\ Cardinality(S \ {x}) = Cardinality(S) - 1
         /\ Cardinality(S) \in Nat \ {0}
         /\ Cardinality(S) = 1 <=> S \ {x} = {}
  <1>1. /\ IsFiniteSet(S \ {x})
        /\ Cardinality(S \ {x}) = Cardinality(S) - 1
    BY FS_RemoveElement
  <1>2. Cardinality(S) \in Nat /\ Cardinality(S \ {x}) \in Nat
    BY <1>1, FS_CardinalityType
  <1>3. Cardinality(S \ {x}) = 0 <=> S \ {x} = {}
    BY <1>1, FS_EmptySet
  <1> QED  BY <1>1, <1>2, <1>3

LEMMA InitIInv == Init => IInv
  <1> SUFFICES ASSUME Init PROVE IInv  OBVIOUS
  <1>1. SourceReaders = {Tree} /\ ImmutableReaders = {Tree}
    BY HoldersAssumption DEF Init, SourceReaders, ImmutableReaders
  <1>2. Cardinality({Tree}) = 1
    BY FS_Singleton
  <1> QED  BY <1>1, <1>2 DEF Init, IInv, TypeOK, CountersExact, Retention

LEMMA StepIInv == IInv /\ [Next]_vars => IInv'
  <1> SUFFICES ASSUME IInv, [Next]_vars PROVE IInv'  OBVIOUS
  <1> USE DEF Retention
  <1>1. ASSUME NEW from \in Holders, NEW to \in Holders, take_buffer_ref(from, to)
        PROVE  IInv'
    <2>1. /\ from \in SourceReaders /\ from \in ImmutableReaders
          /\ to \notin SourceReaders /\ to \notin ImmutableReaders
          /\ to \notin dropping
      BY <1>1 DEF IInv, TypeOK, take_buffer_ref, SourceReaders, ImmutableReaders
    <2>2. /\ SourceReaders' = SourceReaders \cup {to}
          /\ ImmutableReaders' = ImmutableReaders \cup {to}
      BY <1>1, <2>1 DEF IInv, TypeOK, take_buffer_ref, SourceReaders, ImmutableReaders
    <2>3. TypeOK'
      BY <1>1, <2>2 DEF IInv, TypeOK, take_buffer_ref
    <2>4. CountersExact'
      BY <1>1, <2>1, <2>2, ReadersFinite, CountUp
         DEF IInv, CountersExact, take_buffer_ref
    <2> QED  BY <2>3, <2>4 DEF IInv
  <1>2. ASSUME NEW h \in Holders, take_immutable_buffer_ref(h)
        PROVE  IInv'
    <2>1. /\ Tree \in SourceReaders /\ Tree \in ImmutableReaders
          /\ h \notin SourceReaders /\ h \notin ImmutableReaders
      BY <1>2, HoldersAssumption
         DEF IInv, TypeOK, take_immutable_buffer_ref, SourceReaders, ImmutableReaders
    <2>2. /\ SourceReaders' = SourceReaders
          /\ ImmutableReaders' = ImmutableReaders \cup {h}
      BY <1>2, <2>1
         DEF IInv, TypeOK, take_immutable_buffer_ref, SourceReaders, ImmutableReaders
    <2>3. TypeOK'
      BY <1>2, <2>2 DEF IInv, TypeOK, take_immutable_buffer_ref
    <2>4. CountersExact'
      BY <1>2, <2>1, <2>2, ReadersFinite, CountUp
         DEF IInv, CountersExact, take_immutable_buffer_ref
    <2> QED  BY <2>3, <2>4 DEF IInv
  <1>3. ASSUME NEW h \in Holders, DecSource(h)
        PROVE  IInv'
    <2>1. ImmutableReaders' = ImmutableReaders /\ h \in ImmutableReaders
      BY <1>3 DEF DecSource, ImmutableReaders
    <2>2. SourceReaders' = SourceReaders \ {h}
      BY <1>3 DEF DecSource, SourceReaders
    <2>3. CASE held[h] = "source"
      <3>1. h \in SourceReaders
        BY <1>3, <2>3 DEF DecSource, SourceReaders
      <3>2. /\ source_ref_count' = Cardinality(SourceReaders')
            /\ source_ref_count' \in Nat
            /\ source_ref_count = 1 <=> SourceReaders' = {}
        BY <1>3, <2>2, <2>3, <3>1, CountDown, ReadersFinite
           DEF DecSource, IInv, CountersExact
      <3>3. source_releases = 0
        BY <3>1 DEF IInv, CountersExact
      <3> QED  BY <1>3, <2>1, <2>3, <3>2, <3>3
                  DEF DecSource, IInv, TypeOK, CountersExact
    <2>4. CASE held[h] # "source"
      <3>1. SourceReaders' = SourceReaders
        BY <2>2, <2>4 DEF SourceReaders
      <3> QED  BY <1>3, <2>1, <2>4, <3>1
                  DEF DecSource, IInv, TypeOK, CountersExact
    <2> QED  BY <2>3, <2>4
  <1>4. ASSUME NEW h \in Holders, DecImmutable(h)
        PROVE  IInv'
    <2>1. h \in ImmutableReaders /\ held[h] # "nothing"
      BY <1>4 DEF DecImmutable, IInv, TypeOK, ImmutableReaders
    <2>2. ImmutableReaders' = ImmutableReaders \ {h}
      BY <1>4 DEF DecImmutable, IInv, TypeOK, ImmutableReaders
    <2>3. SourceReaders' = SourceReaders
      BY <1>4 DEF DecImmutable, IInv, TypeOK, SourceReaders
    <2>4. /\ immutable_ref_count' = Cardinality(ImmutableReaders')
          /\ immutable_ref_count' \in Nat
          /\ immutable_ref_count = 1 <=> ImmutableReaders' = {}
      <3>1. /\ Cardinality(ImmutableReaders \ {h}) = Cardinality(ImmutableReaders) - 1
            /\ Cardinality(ImmutableReaders) \in Nat \ {0}
            /\ Cardinality(ImmutableReaders) = 1 <=> ImmutableReaders \ {h} = {}
        BY <2>1, CountDown, ReadersFinite
      <3> QED  BY <1>4, <2>2, <3>1 DEF DecImmutable, IInv, CountersExact
    <2>5. immutable_releases = 0
      BY <2>1 DEF IInv, CountersExact
    <2>6. TypeOK'
      BY <1>4, <2>2, <2>4, <2>5 DEF DecImmutable, IInv, TypeOK
    <2>7. CountersExact'
      BY <1>4, <2>3, <2>4, <2>5 DEF DecImmutable, IInv, CountersExact
    <2> QED  BY <2>6, <2>7 DEF IInv
  <1>5. CASE UNCHANGED vars
    BY <1>5 DEF vars, IInv, TypeOK, CountersExact, SourceReaders, ImmutableReaders
  <1> QED  BY <1>1, <1>2, <1>3, <1>4, <1>5 DEF Next

(* The counters are exact in every reachable state. *)
THEOREM CountersAlwaysExact == Spec => []IInv
  <1> QED  BY InitIInv, StepIInv, PTL DEF Spec

(* Nobody reads an arena that has been released: dec_buffer_ref frees the *)
(* source arenas after their last reader, and the immutable arena, which  *)
(* holds the counters, after the last decrement.                          *)
THEOREM StorageOutlivesReaders == Spec => []ReadersHaveStorage
  <1>1. IInv => ReadersHaveStorage
    BY DEF IInv, CountersExact, ReadersHaveStorage
  <1> QED  BY <1>1, CountersAlwaysExact, PTL

(* No interleaving of copies and releases frees an arena twice or keeps   *)
(* one that nobody reads.                                                 *)
THEOREM StorageReleasedOnce == Spec => []ReleasedExactlyOnce
  <1>1. IInv => ReleasedExactlyOnce
    BY DEF IInv, CountersExact, ReleasedExactlyOnce
  <1> QED  BY <1>1, CountersAlwaysExact, PTL

=============================================================================
