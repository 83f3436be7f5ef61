---------------------------------- MODULE Arena --------------------------------
(***************************************************************************)
(* The arena of src/src/arena/arena.cpp: a chain of reserved blocks, each  *)
(* committed as far as needed, from which memory is pushed and, back to a  *)
(* position, popped.  A position counts bytes from the first block on, so  *)
(* it names a block and an offset; the header of a block lies at its start.*)
(*                                                                         *)
(* A cell stands for as many bytes as a header has; it is dirty when it is *)
(* committed and need not be zero.                                         *)
(***************************************************************************)
EXTENDS Integers, Sequences, SequencesExt, FiniteSetsExt

CONSTANTS
    Page,         \* cells of a page
    ReserveSize,  \* Params::reserve_size
    CommitSize,   \* Params::commit_size
    Flags,        \* the values of ArenaFlags_NoChain that arenas are allocated with
    Sizes,        \* the sizes that clients push
    Alignments,   \* and their alignments, powers of two up to a page
    Wide,         \* values of an unsigned size, for its underflow
    MaxBlocks,    \* bound on the blocks: reserving another one fails
    MaxPushes,    \* bound on the allocations that live at a time
    MaxTemps      \* bound on the nesting of begin()

arena_header_size == 1

(* Clients align to what their types ask for, which divides a page: a block *)
(* is committed up to a page, so an aligned position never lies above that. *)
ASSUME ArenaAssumption ==
    /\ {Page, ReserveSize, CommitSize} \subseteq Nat \ {0}
    /\ CommitSize <= ReserveSize /\ arena_header_size < CommitSize
    /\ Flags \subseteq BOOLEAN
    /\ Wide \in Nat /\ Sizes \subseteq 0 .. Wide - 1
    /\ Alignments \subseteq {a \in Nat \ {0} : Page % a = 0}

VARIABLES
    no_chain, \* ArenaFlags_NoChain: never a second block
    blocks,  \* the blocks from the first to arena->current
    dirty,   \* the cells that were written since they were committed
    allocs,  \* the allocations clients use, in the order of their pushes
    temps,   \* the Temps clients hold, inner ones last
    clean    \* whether the last push cleared what it had to and no more

vars == <<no_chain, blocks, dirty, allocs, temps, clean>>

AlignPow2(x, b) == ((x + b - 1) \div b) * b

Least(a, b) == IF a < b THEN a ELSE b

Block(reserve_size, commit_size, base_pos) ==
    LET res == AlignPow2(reserve_size, Page)
        cmt == AlignPow2(commit_size, Page)
    IN  [base_pos |-> base_pos, pos |-> arena_header_size,
         cmt |-> cmt, res |-> res, cmt_size |-> cmt, res_size |-> res]

allocated == <<Block(ReserveSize, CommitSize, 0)>>

Init ==
    /\ no_chain \in Flags
    /\ blocks = allocated
    /\ dirty = {}
    /\ allocs = <<>>
    /\ temps = <<>>
    /\ clean = TRUE

Cells(a) == a.first .. a.first + a.size - 1

AllCells(b) == b.base_pos .. b.base_pos + b.res - 1

pos == Last(blocks).base_pos + Last(blocks).pos

(*----------------------------------- push ---------------------------------*)

(* Does the current block hold the allocation, aligned as asked? *)
Fits(size, align) ==
    AlignPow2(Last(blocks).pos, align) + size <= Last(blocks).res

Chains(size, align) == ~Fits(size, align) /\ ~no_chain

(* The block that is chained: of the arena's own sizes, or a larger one.   *)
NewBlock(size, align) ==
    LET current == Last(blocks)
        large == AlignPow2(size + arena_header_size, align)
        base == current.base_pos + current.res
    IN  IF size + arena_header_size > current.res_size
        THEN Block(large, large, base)
        ELSE Block(current.res_size, current.cmt_size, base)

Target(size, align) ==
    IF Chains(size, align) THEN NewBlock(size, align) ELSE Last(blocks)

(* Fault: memory is taken to be zero because it was when it was committed. *)
ZeroedNothing(size, align) == {}

(* What memset clears: the part that was committed before.  The size is    *)
(* unsigned, so it is huge if the aligned position lies above the limit.   *)
Zeroed(size, align) ==
    LET b == Last(blocks)
        pre == AlignPow2(b.pos, align)
        count == (Least(b.cmt, pre + size) - pre) % Wide
    IN  IF Chains(size, align) THEN {}
        ELSE b.base_pos + pre .. b.base_pos + pre + count - 1

(* Fault: more is committed than the block has reserved. *)
CommittedBeyond(b, end) == AlignPow2(end, b.cmt_size)

(* The commit limit after a push that ends at the given offset. *)
Committed(b, end) ==
    IF b.cmt < end THEN Least(AlignPow2(end, b.cmt_size), b.res) ELSE b.cmt

WithCurrent(chained, b) ==
    IF chained THEN Append(blocks, b) ELSE [blocks EXCEPT ![Len(blocks)] = b]

(* A push that returns memory; the client then writes to all of it. *)
push(size, align, zero) ==
    LET b == Target(size, align)
        pre == AlignPow2(b.pos, align)
        end == pre + size
        zeroed == IF zero THEN Zeroed(size, align) ELSE {}
        new == [first |-> b.base_pos + pre, size |-> size]
    IN  /\ blocks # <<>> /\ Len(allocs) < MaxPushes
        /\ Chains(size, align) => Len(blocks) < MaxBlocks
        /\ Committed(b, end) >= end
        /\ blocks' = WithCurrent(Chains(size, align),
                        [b EXCEPT !.pos = end, !.cmt = Committed(b, end)])
        /\ allocs' = Append(allocs, new)
        /\ clean' = /\ zero => Cells(new) \cap (dirty \ zeroed) = {}
                    /\ zeroed \subseteq Cells(new)
        /\ dirty' = (dirty \ zeroed) \cup Cells(new)
        /\ UNCHANGED <<no_chain, temps>>

(* A push that returns 0 and yet leaves something behind: the block it     *)
(* chained, if commit fails, or what it committed, if the allocation does  *)
(* not fit a block that is not chained.                                    *)
push_fails(size, align) ==
    LET b == Target(size, align)
        end == AlignPow2(b.pos, align) + size
    IN  /\ blocks # <<>> /\ b.cmt < end
        /\ Chains(size, align) => Len(blocks) < MaxBlocks
        /\ \/ /\ Chains(size, align)
              /\ blocks' = Append(blocks, b)
           \/ /\ Committed(b, end) < end
              /\ blocks' = WithCurrent(Chains(size, align),
                              [b EXCEPT !.cmt = Committed(b, end)])
        /\ UNCHANGED <<no_chain, dirty, allocs, temps, clean>>

(*------------------------------ pop, end, clear ---------------------------*)

BigPos(p) == IF p < arena_header_size THEN arena_header_size ELSE p

(* The blocks up to the last one that starts below the position are kept. *)
Kept(p) ==
    SubSeq(blocks, 1, Max({i \in 1 .. Len(blocks) : blocks[i].base_pos < BigPos(p)}))

(* Where pop_to(p) puts the position of the last block it keeps. *)
NewPos(p) == BigPos(p) - Last(Kept(p)).base_pos

pop_to(p) ==
    /\ blocks' = [Kept(p) EXCEPT ![Len(Kept(p))].pos = NewPos(p)]
    /\ dirty' = {c \in dirty : \E i \in 1 .. Len(Kept(p)) : c \in AllCells(Kept(p)[i])}

(* Fault: the position of the current block and not of the arena. *)
begin_in_block ==
    /\ blocks # <<>> /\ Len(temps) < MaxTemps
    /\ temps' = Append(temps, [pos |-> Last(blocks).pos, live |-> Len(allocs)])
    /\ UNCHANGED <<no_chain, blocks, dirty, allocs, clean>>

begin ==
    /\ blocks # <<>> /\ Len(temps) < MaxTemps
    /\ temps' = Append(temps, [pos |-> pos, live |-> Len(allocs)])
    /\ UNCHANGED <<no_chain, blocks, dirty, allocs, clean>>

end ==
    /\ blocks # <<>> /\ temps # <<>>
    /\ pop_to(Last(temps).pos)
    /\ allocs' = SubSeq(allocs, 1, Last(temps).live)
    /\ temps' = Front(temps)
    /\ UNCHANGED <<no_chain, clean>>

(* What a client pushed last: the sizes of its n latest allocations. *)
SizeOfLast(n) ==
    LET sum[k \in 0 .. n] ==
            IF k = 0 THEN 0 ELSE sum[k - 1] + allocs[Len(allocs) - k + 1].size
    IN  sum[n]

(* Only allocations after the innermost begin() can be popped, and only    *)
(* those of the current block: a chained block starts behind the rest of    *)
(* the one before it, so sizes do not add up to positions across blocks.    *)
Poppable ==
    {n \in 1 .. Len(allocs) - (IF temps = <<>> THEN 0 ELSE Last(temps).live) :
        allocs[Len(allocs) - n + 1].first > Last(blocks).base_pos}

AfterPop(amt) == IF amt < pos THEN pos - amt ELSE pos

pop(n) ==
    /\ blocks # <<>>
    /\ pop_to(AfterPop(SizeOfLast(n)))
    /\ allocs' = SubSeq(allocs, 1, Len(allocs) - n)
    /\ UNCHANGED <<no_chain, temps, clean>>

clear ==
    /\ blocks # <<>>
    /\ pop_to(0)
    /\ allocs' = <<>> /\ temps' = <<>>
    /\ UNCHANGED <<no_chain, clean>>

release ==
    /\ blocks # <<>>
    /\ blocks' = <<>> /\ dirty' = {} /\ allocs' = <<>> /\ temps' = <<>>
    /\ UNCHANGED <<no_chain, clean>>

(* A new arena. *)
allocate ==
    /\ blocks = <<>>
    /\ no_chain' \in Flags
    /\ blocks' = allocated
    /\ UNCHANGED <<dirty, allocs, temps, clean>>

Next ==
    \/ \E size \in Sizes, align \in Alignments :
        (\E zero \in BOOLEAN : push(size, align, zero)) \/ push_fails(size, align)
    \/ begin \/ end \/ clear \/ release \/ allocate
    \/ \E n \in Poppable : pop(n)

Spec == Init /\ [][Next]_vars

--------------------------------------------------------------------------------
(* A block is committed up to its limit and used up to its position, and    *)
(* the blocks cover the positions without a gap.                           *)
TypeOK ==
    /\ \A i \in 1 .. Len(blocks) :
        /\ arena_header_size <= blocks[i].pos /\ blocks[i].pos <= blocks[i].cmt
        /\ blocks[i].cmt <= blocks[i].res
        /\ blocks[i].base_pos =
              IF i = 1 THEN 0 ELSE blocks[i - 1].base_pos + blocks[i - 1].res
    /\ dirty \subseteq UNION {AllCells(blocks[i]) : i \in 1 .. Len(blocks)}
    /\ clean \in BOOLEAN

(* The cells of a block that are in use: no header, and nothing that a      *)
(* later push will give out.                                               *)
Used(b) == b.base_pos + arena_header_size .. b.base_pos + b.pos - 1

(* What a client was given stays its own until the end() of a Temp that is  *)
(* older, or clear(): within the used part of one block, apart from every  *)
(* other allocation, and with the contents the client wrote.               *)
AllocationsKept ==
    \A i \in 1 .. Len(allocs) :
        /\ allocs[i].size > 0 =>
              \E k \in 1 .. Len(blocks) : Cells(allocs[i]) \subseteq Used(blocks[k])
        /\ \A j \in 1 .. i - 1 : Cells(allocs[i]) \cap Cells(allocs[j]) = {}
        /\ Cells(allocs[i]) \subseteq dirty

(* push_array returns zeros, though only the part below the commit limit is *)
(* cleared and popped memory stays committed with what was written to it;  *)
(* and memset stays within the allocation, though its size is the unsigned *)
(* difference of the smaller of two limits and the aligned position.       *)
ZeroedPushesClean == clean

================================================================================
