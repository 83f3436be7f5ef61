----------------------------- MODULE SharedBuffers -----------------------------
(***************************************************************************)
(* The life of the storage behind a document: the Tree and its snapshots   *)
(* each hold a BufferCollection, and two atomic counters in SharedBuffers  *)
(* say when the arenas can go (take_buffer_ref, take_immutable_buffer_ref  *)
(* and dec_buffer_ref of src/src/piece_tree/piece_tree.cpp).               *)
(*                                                                         *)
(*   source arenas    modification buffer, its line starts, undo entries   *)
(*   immutable arena  the accepted texts, the tree nodes, the Tree object  *)
(*                    and SharedBuffers itself, so also both counters      *)
(*                                                                         *)
(* Snapshots may be copied and destroyed by different threads, so the two  *)
(* decrements of dec_buffer_ref are two steps, between which every other   *)
(* holder may do anything.                                                 *)
(***************************************************************************)
EXTENDS Integers, FiniteSets

CONSTANTS
    Holders,  \* the objects that can hold a BufferCollection
    Tree      \* the one that the builder creates first

ASSUME HoldersAssumption == IsFiniteSet(Holders) /\ Tree \in Holders

VARIABLES
    held,                 \* what a holder's BufferCollection retains
    dropping,             \* the holders between the two decrements
    source_ref_count,
    immutable_ref_count,
    source_releases,      \* how often the source arenas were released
    immutable_releases    \* how often the immutable arena was released

vars == <<held, dropping, source_ref_count, immutable_ref_count,
          source_releases, immutable_releases>>

(* "source": shared # 0 with retains_source_arenas, "immutable": without   *)
(* it, "nothing": shared = 0.                                             *)
Retention == {"source", "immutable", "nothing"}

(* tree_builder_finish sets both counters to 1 for the tree. *)
Init ==
    /\ held = [h \in Holders |-> IF h = Tree THEN "source" ELSE "nothing"]
    /\ dropping = {}
    /\ source_ref_count = 1
    /\ immutable_ref_count = 1
    /\ source_releases = 0
    /\ immutable_releases = 0

(* Fault: a copy that is not counted as a reader of the source arenas. *)
take_buffer_ref_uncounted(from, to) ==
    /\ held[from] = "source" /\ from \notin dropping
    /\ held[to] = "nothing" /\ to # Tree
    /\ held' = [held EXCEPT ![to] = "source"]
    /\ immutable_ref_count' = immutable_ref_count + 1
    /\ UNCHANGED <<dropping, source_ref_count, source_releases, immutable_releases>>

(* ReferenceSnapshot(tree) and the copies of a reference snapshot. *)
take_buffer_ref(from, to) ==
    /\ held[from] = "source" /\ from \notin dropping
    /\ held[to] = "nothing" /\ to # Tree
    /\ held' = [held EXCEPT ![to] = "source"]
    /\ immutable_ref_count' = immutable_ref_count + 1
    /\ source_ref_count' = source_ref_count + 1
    /\ UNCHANGED <<dropping, source_releases, immutable_releases>>

(* OwningSnapshot(arena, tree). *)
take_immutable_buffer_ref(to) ==
    /\ held[Tree] = "source" /\ Tree \notin dropping
    /\ held[to] = "nothing" /\ to # Tree
    /\ held' = [held EXCEPT ![to] = "immutable"]
    /\ immutable_ref_count' = immutable_ref_count + 1
    /\ UNCHANGED <<dropping, source_ref_count, source_releases, immutable_releases>>

(* Fault: the value after the decrement is taken for the one before it. *)
DecSourceTestsNew(h) ==
    /\ held[h] # "nothing" /\ h \notin dropping
    /\ dropping' = dropping \cup {h}
    /\ IF held[h] = "source"
       THEN /\ source_ref_count' = source_ref_count - 1
            /\ source_releases' = IF source_ref_count' = 1 THEN source_releases + 1
                                  ELSE source_releases
       ELSE UNCHANGED <<source_ref_count, source_releases>>
    /\ UNCHANGED <<held, immutable_ref_count, immutable_releases>>

(* The first half of dec_buffer_ref: from here on the holder no longer    *)
(* reads through its collection.  The last source reference releases the  *)
(* source arenas.                                                         *)
DecSource(h) ==
    /\ held[h] # "nothing" /\ h \notin dropping
    /\ dropping' = dropping \cup {h}
    /\ IF held[h] = "source"
       THEN /\ source_ref_count' = source_ref_count - 1
            /\ source_releases' = IF source_ref_count = 1 THEN source_releases + 1
                                  ELSE source_releases
       ELSE UNCHANGED <<source_ref_count, source_releases>>
    /\ UNCHANGED <<held, immutable_ref_count, immutable_releases>>

(* Fault: the last holder leaves the immutable arena as it is. *)
DecImmutableLeaks(h) ==
    /\ h \in dropping
    /\ dropping' = dropping \ {h}
    /\ held' = [held EXCEPT ![h] = "nothing"]
    /\ immutable_ref_count' = immutable_ref_count - 1
    /\ UNCHANGED <<source_ref_count, source_releases, immutable_releases>>

(* The second half: the counter is in the immutable arena, which the last *)
(* reference releases.                                                    *)
DecImmutable(h) ==
    /\ h \in dropping
    /\ dropping' = dropping \ {h}
    /\ held' = [held EXCEPT ![h] = "nothing"]
    /\ immutable_ref_count' = immutable_ref_count - 1
    /\ immutable_releases' = IF immutable_ref_count = 1 THEN immutable_releases + 1
                             ELSE immutable_releases
    /\ UNCHANGED <<source_ref_count, source_releases>>

Next ==
    \/ \E from, to \in Holders : take_buffer_ref(from, to)
    \/ \E h \in Holders :
          take_immutable_buffer_ref(h) \/ DecSource(h) \/ DecImmutable(h)

(* A holder that began to drop its references finishes: dec_buffer_ref    *)
(* does not block.                                                        *)
Spec == Init /\ [][Next]_vars /\ \A h \in Holders : WF_vars(DecImmutable(h))

-----------------------------------------------------------------------------
(* The holders that read the modification buffer through their collection. *)
SourceReaders == {h \in Holders : held[h] = "source" /\ h \notin dropping}

(* The holders that read the immutable arena, if only for the counter.    *)
ImmutableReaders == {h \in Holders : held[h] # "nothing"}

TypeOK ==
    /\ held \in [Holders -> Retention]
    /\ dropping \subseteq ImmutableReaders
    /\ source_ref_count \in Nat
    /\ immutable_ref_count \in Nat
    /\ source_releases \in Nat
    /\ immutable_releases \in Nat

(* Nobody reads an arena that was released: the source arenas outlive     *)
(* every tree and reference snapshot, and the immutable arena, with the   *)
(* counters in it, everyone who still has a decrement to make.            *)
ReadersHaveStorage ==
    /\ SourceReaders # {} => source_releases = 0
    /\ ImmutableReaders # {} => immutable_releases = 0

(* The last reader releases what it read, and nobody releases it again:   *)
(* no interleaving of the decrements leaks an arena or frees one twice.   *)
ReleasedExactlyOnce ==
    /\ source_releases <= 1 /\ immutable_releases <= 1
    /\ SourceReaders = {} => source_releases = 1
    /\ ImmutableReaders = {} => immutable_releases = 1

(* Once the tree is gone and every snapshot is being dropped, all storage *)
(* is released in the end, whoever comes last.                            *)
StorageReleasedInTheEnd ==
    (\A h \in Holders : held[h] # "nothing" => h \in dropping)
        ~> (source_releases = 1 /\ immutable_releases = 1)

=============================================================================
