------------------------------ MODULE ArenaProofs ------------------------------
(***************************************************************************)
(* For all sizes of pages, blocks, allocations and alignments, with and    *)
(* without chains: what clients push stays their own until it is popped,   *)
(* what they were promised to be zero is zero, and a pop never moves the   *)
(* position of a block up, as the assertion in pop_to demands.             *)
(***************************************************************************)
EXTENDS Arena, SequenceTheorems, FiniteSetTheorems, WellFoundedInduction, TLAPS

BlockRecord ==
    [base_pos : Nat, pos : Nat, cmt : Nat, res : Nat, cmt_size : Nat, res_size : Nat]

AllocRecord == [first : Nat, size : Nat]

(* Blocks are reserved and committed by whole pages. *)
WholePages(n) == \E k \in Nat : n = k * Page

BlockOK(b) ==
    /\ b \in BlockRecord
    /\ WholePages(b.cmt) /\ WholePages(b.res) /\ WholePages(b.cmt_size)
    /\ 1 <= b.pos /\ b.pos <= b.cmt /\ b.cmt <= b.res
    /\ 1 <= b.cmt_size /\ b.cmt_size <= b.res_size

(* The blocks cover the positions from 0 on: each begins where the one     *)
(* before it ends, and so behind all that are below it.                    *)
BlocksOK(bs) ==
    /\ bs \in Seq(BlockRecord)
    /\ \A i \in 1 .. Len(bs) : BlockOK(bs[i])
    /\ \A i \in 1 .. Len(bs) :
          bs[i].base_pos = IF i = 1 THEN 0 ELSE bs[i - 1].base_pos + bs[i - 1].res
    /\ \A i, j \in 1 .. Len(bs) :
          i < j => bs[i].base_pos + bs[i].res <= bs[j].base_pos

(* A position behind the header of a block and not behind what it holds. *)
HeldAt(bs, p) ==
    \E k \in 1 .. Len(bs) :
        bs[k].base_pos + 1 <= p /\ p <= bs[k].base_pos + bs[k].pos

Placed(bs, a) ==
    \E k \in 1 .. Len(bs) :
        /\ bs[k].base_pos + 1 <= a.first
        /\ a.first + a.size <= bs[k].base_pos + bs[k].pos

CommittedCell(bs, c) ==
    \E k \in 1 .. Len(bs) :
        bs[k].base_pos <= c /\ c < bs[k].base_pos + bs[k].cmt

(* Allocations lie in the used parts of blocks, in the order of their      *)
(* pushes, and hold what was written to them.                              *)
AllocsOK(bs, as, ds) ==
    /\ as \in Seq(AllocRecord)
    /\ \A i \in 1 .. Len(as) : Placed(bs, as[i]) /\ Cells(as[i]) \subseteq ds
    /\ \A i, j \in 1 .. Len(as) : i < j => as[i].first + as[i].size <= as[j].first

(* The position of a Temp parts the allocations that are older from those  *)
(* that are younger, and inner Temps lie behind outer ones.                *)
Parts(bs, as, t) ==
    /\ t.live <= Len(as) /\ HeldAt(bs, t.pos)
    /\ \A i \in 1 .. t.live : as[i].first + as[i].size <= t.pos
    /\ \A i \in t.live + 1 .. Len(as) : t.pos <= as[i].first

TempsOK(bs, as, ts) ==
    /\ ts \in Seq([pos : Nat, live : Nat])
    /\ \A i \in 1 .. Len(ts) : Parts(bs, as, ts[i])
    /\ \A i, j \in 1 .. Len(ts) :
          i < j => ts[i].pos <= ts[j].pos /\ ts[i].live <= ts[j].live

DirtyOK(bs, ds) == ds \subseteq Int /\ \A c \in ds : CommittedCell(bs, c)

ArenaInv ==
    /\ no_chain \in BOOLEAN
    /\ BlocksOK(blocks)
    /\ DirtyOK(blocks, dirty)
    /\ AllocsOK(blocks, allocs, dirty)
    /\ TempsOK(blocks, allocs, temps)
    /\ clean = TRUE

-----------------------------------------------------------------------------
(* Alignment *)

LEMMA AlignTyped ==
  ASSUME NEW x \in Nat, NEW b \in Nat \ {0}
  PROVE  AlignPow2(x, b) \in Nat /\ AlignPow2(x, b) >= x
  <1> DEFINE q == (x + b - 1) \div b
             r == (x + b - 1) % b
  <1>1. q \in Nat /\ r \in 0 .. b - 1 /\ x + b - 1 = b * q + r
    OBVIOUS
  <1>2. AlignPow2(x, b) = q * b
    BY DEF AlignPow2
  <1> QED BY <1>1, <1>2

LEMMA AlignGrows ==
  ASSUME NEW x \in Nat, NEW y \in Nat, x <= y, NEW b \in Nat \ {0}
  PROVE  AlignPow2(x, b) <= AlignPow2(y, b)
  <1> QED BY DEF AlignPow2

LEMMA AlignIsMultiple ==
  ASSUME NEW x \in Nat, NEW b \in Nat \ {0}
  PROVE  \E k \in Nat : AlignPow2(x, b) = k * b
  <1>1. (x + b - 1) \div b \in Nat
    OBVIOUS
  <1>2. AlignPow2(x, b) = ((x + b - 1) \div b) * b
    BY DEF AlignPow2
  <1> QED BY <1>1, <1>2

LEMMA MultipleIsAligned ==
  ASSUME NEW k \in Nat, NEW b \in Nat \ {0}
  PROVE  AlignPow2(k * b, b) = k * b
  <1> DEFINE y == k * b
  <1>1. y \in Nat
    OBVIOUS
  <1>2. (y + b - 1) \div b = k
    <2>1. y + b - 1 = b * k + (b - 1)
      OBVIOUS
    <2> QED BY <2>1
  <1> QED BY <1>2 DEF AlignPow2

LEMMA PagesRounded ==
  ASSUME NEW x \in Nat, NEW b \in Nat \ {0}, WholePages(b)
  PROVE  WholePages(AlignPow2(x, b))
  <1>1. PICK k \in Nat : AlignPow2(x, b) = k * b
    BY AlignIsMultiple
  <1>2. PICK l \in Nat : b = l * Page
    BY DEF WholePages
  <1>3. Page \in Nat \ {0}
    BY ArenaAssumption
  <1>4. k * l \in Nat /\ k * (l * Page) = (k * l) * Page
    BY <1>3
  <1>5. AlignPow2(x, b) = (k * l) * Page
    BY <1>1, <1>2, <1>4
  <1> QED BY <1>4, <1>5 DEF WholePages

(* A limit of whole pages is itself aligned as clients ask for: a position  *)
(* that is not above the limit is not above it when aligned either.        *)
LEMMA AlignedBelowLimit ==
  ASSUME NEW x \in Nat, NEW y \in Nat, x <= y, WholePages(y), NEW a \in Alignments
  PROVE  AlignPow2(x, a) <= y
  <1>1. Page \in Nat \ {0} /\ a \in Nat \ {0} /\ Page % a = 0
    BY ArenaAssumption
  <1>2. PICK k \in Nat : y = k * Page
    BY DEF WholePages
  <1> DEFINE m == Page \div a
  <1>3. m \in Nat /\ Page = m * a
    BY <1>1
  <1> HIDE DEF m
  <1>4. k * m \in Nat /\ k * (m * a) = (k * m) * a
    BY <1>1, <1>3
  <1>5. y = (k * m) * a
    BY <1>2, <1>3, <1>4
  <1>6. AlignPow2(y, a) = y
    BY <1>1, <1>4, <1>5, MultipleIsAligned
  <1> QED BY <1>1, <1>6, AlignGrows

-----------------------------------------------------------------------------
(* Blocks *)

LEMMA BlockIsOK ==
  ASSUME NEW r \in Nat \ {0}, NEW c \in Nat \ {0}, c <= r, NEW base \in Nat
  PROVE  /\ BlockOK(Block(r, c, base))
         /\ Block(r, c, base).base_pos = base /\ Block(r, c, base).pos = 1
  <1>1. Page \in Nat \ {0}
    BY ArenaAssumption
  <1> DEFINE res == AlignPow2(r, Page)
             cmt == AlignPow2(c, Page)
  <1>2. res \in Nat /\ res >= r /\ cmt \in Nat /\ cmt >= c /\ cmt <= res
    BY <1>1, AlignTyped, AlignGrows
  <1>4. WholePages(res) /\ WholePages(cmt)
    BY <1>1, AlignIsMultiple DEF WholePages
  <1> HIDE DEF res, cmt
  <1>3. Block(r, c, base) =
            [base_pos |-> base, pos |-> 1, cmt |-> cmt, res |-> res,
             cmt_size |-> cmt, res_size |-> res]
    BY DEF Block, arena_header_size, res, cmt
  <1> QED BY <1>2, <1>3, <1>4 DEF BlockOK, BlockRecord

LEMMA BlockIs ==
  ASSUME NEW bs, BlocksOK(bs), NEW i \in 1 .. Len(bs)
  PROVE  /\ BlockOK(bs[i])
         /\ bs[i].base_pos \in Nat /\ bs[i].pos \in Nat /\ bs[i].cmt \in Nat /\ bs[i].res \in Nat
         /\ 1 <= bs[i].pos /\ bs[i].pos <= bs[i].cmt /\ bs[i].cmt <= bs[i].res
         /\ bs[i].pos <= bs[i].res
  <1>1. BlockOK(bs[i])
    BY DEF BlocksOK
  <1> QED BY <1>1 DEF BlockOK, BlockRecord

LEMMA LastIs ==
  ASSUME NEW bs, BlocksOK(bs), bs # << >>
  PROVE  /\ Len(bs) \in Nat \ {0} /\ Last(bs) = bs[Len(bs)] /\ BlockOK(Last(bs))
         /\ \A k \in 1 .. Len(bs) :
               /\ bs[k].base_pos + bs[k].pos <= Last(bs).base_pos + Last(bs).pos
               /\ bs[k].base_pos + bs[k].cmt <= Last(bs).base_pos + Last(bs).res
  <1>1. bs \in Seq(BlockRecord)
    BY DEF BlocksOK
  <1>2. Len(bs) \in Nat \ {0}
    BY <1>1, bs # << >>
  <1>3. Last(bs) = bs[Len(bs)] /\ Len(bs) \in 1 .. Len(bs)
    BY <1>2 DEF Last
  <1>4. BlockOK(Last(bs))
    BY <1>3 DEF BlocksOK
  <1>5. ASSUME NEW k \in 1 .. Len(bs)
        PROVE  /\ bs[k].base_pos + bs[k].pos <= Last(bs).base_pos + Last(bs).pos
               /\ bs[k].base_pos + bs[k].cmt <= Last(bs).base_pos + Last(bs).res
    <2>1. BlockOK(bs[k])
      BY DEF BlocksOK
    <2>2. k = Len(bs) \/ k < Len(bs)
      BY <1>2
    <2>3. k < Len(bs) => bs[k].base_pos + bs[k].res <= bs[Len(bs)].base_pos
      BY <1>3 DEF BlocksOK
    <2> DEFINE x == bs[k].base_pos
               y == bs[k].pos
               z == bs[k].cmt
               r == bs[k].res
               lx == Last(bs).base_pos
               ly == Last(bs).pos
               lz == Last(bs).cmt
               lr == Last(bs).res
    <2>4. /\ x \in Nat /\ y \in Nat /\ z \in Nat /\ r \in Nat /\ y <= z /\ z <= r
          /\ lx \in Nat /\ ly \in Nat /\ lz \in Nat /\ lr \in Nat /\ ly <= lz /\ lz <= lr
      BY <1>4, <2>1 DEF BlockOK, BlockRecord
    <2>5. k < Len(bs) => x + r <= lx
      BY <1>3, <2>3
    <2>6. k = Len(bs) => x = lx /\ y = ly /\ z = lz /\ r = lr
      BY <1>3
    <2> HIDE DEF x, y, z, r, lx, ly, lz, lr
    <2>7. x + y <= lx + ly /\ x + z <= lx + lr
      BY <2>2, <2>4, <2>5, <2>6
    <2> QED BY <2>7 DEF x, y, z, lx, ly, lr
  <1> QED BY <1>2, <1>3, <1>4, <1>5

LEMMA Extended ==
  ASSUME NEW bs, BlocksOK(bs), bs # << >>, NEW b, BlockOK(b),
         b.base_pos = Last(bs).base_pos + Last(bs).res
  PROVE  /\ BlocksOK(Append(bs, b))
         /\ Len(Append(bs, b)) = Len(bs) + 1 /\ Append(bs, b)[Len(bs) + 1] = b
         /\ \A k \in 1 .. Len(bs) : Append(bs, b)[k] = bs[k]
  <1> DEFINE cs == Append(bs, b)
             n == Len(bs)
  <1>1. bs \in Seq(BlockRecord) /\ n \in Nat \ {0} /\ Last(bs) = bs[n]
    BY LastIs DEF BlocksOK
  <1>2. b \in BlockRecord
    BY DEF BlockOK
  <1>3. /\ cs \in Seq(BlockRecord) /\ Len(cs) = n + 1 /\ cs[n + 1] = b
        /\ \A k \in 1 .. n : cs[k] = bs[k]
    BY <1>1, <1>2
  <1> HIDE DEF cs
  <1>4. ASSUME NEW i \in 1 .. n + 1
        PROVE  /\ BlockOK(cs[i])
               /\ cs[i].base_pos = IF i = 1 THEN 0 ELSE cs[i - 1].base_pos + cs[i - 1].res
    <2>1. CASE i = n + 1
      <3>1. i # 1 /\ i - 1 = n /\ n \in 1 .. n
        BY <1>1, <2>1
      <3> QED BY <1>1, <1>3, <2>1, <3>1
    <2>2. CASE i # n + 1
      <3>1. i \in 1 .. n /\ (i # 1 => i - 1 \in 1 .. n)
        BY <1>1, <2>2
      <3>2. BlockOK(bs[i]) /\ bs[i].base_pos = IF i = 1 THEN 0 ELSE bs[i - 1].base_pos + bs[i - 1].res
        BY <3>1 DEF BlocksOK
      <3> QED BY <1>3, <3>1, <3>2
    <2> QED BY <2>1, <2>2
  <1>5. ASSUME NEW i \in 1 .. n + 1, NEW j \in 1 .. n + 1, i < j
        PROVE  cs[i].base_pos + cs[i].res <= cs[j].base_pos
    <2>1. i \in 1 .. n /\ BlockOK(bs[i]) /\ BlockOK(bs[n])
      BY <1>1, <1>5 DEF BlocksOK
    <2>2. CASE j = n + 1
      <3>1. i = n \/ (i < n /\ bs[i].base_pos + bs[i].res <= bs[n].base_pos)
        BY <1>1, <2>1 DEF BlocksOK
      <3>2. /\ bs[i].base_pos \in Nat /\ bs[i].res \in Nat
            /\ bs[n].base_pos \in Nat /\ bs[n].res \in Nat
        BY <2>1 DEF BlockOK, BlockRecord
      <3>3. bs[i].base_pos + bs[i].res <= bs[n].base_pos + bs[n].res
        <4>1. CASE i = n
          BY <3>2, <4>1
        <4>2. CASE i < n
          <5> DEFINE u == bs[i].base_pos + bs[i].res
          <5>1. u \in Nat /\ (i = n \/ u <= bs[n].base_pos) /\ ~ (i = n)
            BY <1>1, <3>1, <3>2, <4>2
          <5> HIDE DEF u
          <5> QED BY <3>2, <5>1 DEF u
        <4> QED BY <3>1, <4>1, <4>2
      <3>4. cs[j].base_pos = bs[n].base_pos + bs[n].res /\ cs[i] = bs[i]
        BY <1>1, <1>3, <2>1, <2>2
      <3> QED BY <3>3, <3>4
    <2>3. CASE j # n + 1
      <3>1. j \in 1 .. n
        BY <1>1, <2>3
      <3>2. bs[i].base_pos + bs[i].res <= bs[j].base_pos
        BY <1>5, <2>1, <3>1 DEF BlocksOK
      <3> QED BY <1>3, <2>1, <3>1, <3>2
    <2> QED BY <2>2, <2>3
  <1>6. BlocksOK(cs)
    BY <1>3, <1>4, <1>5 DEF BlocksOK
  <1> QED BY <1>3, <1>6 DEF cs

LEMMA Replaced ==
  ASSUME NEW bs, BlocksOK(bs), bs # << >>, NEW b, BlockOK(b),
         b.base_pos = Last(bs).base_pos, b.res = Last(bs).res
  PROVE  /\ BlocksOK([bs EXCEPT ![Len(bs)] = b])
         /\ Len([bs EXCEPT ![Len(bs)] = b]) = Len(bs)
         /\ [bs EXCEPT ![Len(bs)] = b][Len(bs)] = b
         /\ \A k \in 1 .. Len(bs) - 1 : [bs EXCEPT ![Len(bs)] = b][k] = bs[k]
  <1> DEFINE cs == [bs EXCEPT ![Len(bs)] = b]
             n == Len(bs)
  <1>1. bs \in Seq(BlockRecord) /\ n \in Nat \ {0} /\ Last(bs) = bs[n]
    BY LastIs DEF BlocksOK
  <1>2. b \in BlockRecord
    BY DEF BlockOK
  <1>3. /\ cs \in Seq(BlockRecord) /\ Len(cs) = n /\ cs[n] = b
        /\ \A k \in 1 .. n - 1 : cs[k] = bs[k]
    BY <1>1, <1>2
  <1> HIDE DEF cs
  <1>4. ASSUME NEW i \in 1 .. n
        PROVE  BlockOK(cs[i]) /\ cs[i].base_pos = bs[i].base_pos /\ cs[i].res = bs[i].res
    <2>1. CASE i = n
      BY <1>1, <1>3, <2>1
    <2>2. CASE i # n
      <3>1. i \in 1 .. n - 1 /\ BlockOK(bs[i])
        BY <1>1, <2>2 DEF BlocksOK
      <3> QED BY <1>3, <3>1
    <2> QED BY <2>1, <2>2
  <1>5. ASSUME NEW i \in 1 .. n
        PROVE  cs[i].base_pos = IF i = 1 THEN 0 ELSE cs[i - 1].base_pos + cs[i - 1].res
    <2>1. i # 1 => i - 1 \in 1 .. n
      BY <1>1
    <2>2. bs[i].base_pos = IF i = 1 THEN 0 ELSE bs[i - 1].base_pos + bs[i - 1].res
      BY DEF BlocksOK
    <2> QED BY <1>4, <2>1, <2>2
  <1>6. ASSUME NEW i \in 1 .. n, NEW j \in 1 .. n, i < j
        PROVE  cs[i].base_pos + cs[i].res <= cs[j].base_pos
    <2>1. bs[i].base_pos + bs[i].res <= bs[j].base_pos
      BY <1>6 DEF BlocksOK
    <2> QED BY <1>4, <2>1
  <1>7. BlocksOK(cs)
    BY <1>3, <1>4, <1>5, <1>6 DEF BlocksOK
  <1> QED BY <1>3, <1>7 DEF cs

LEMMA FirstBlocks ==
  ASSUME NEW bs, BlocksOK(bs), NEW k \in 1 .. Len(bs)
  PROVE  /\ BlocksOK(SubSeq(bs, 1, k)) /\ Len(SubSeq(bs, 1, k)) = k
         /\ SubSeq(bs, 1, k) # << >>
         /\ \A i \in 1 .. k : SubSeq(bs, 1, k)[i] = bs[i]
  <1> DEFINE cs == SubSeq(bs, 1, k)
  <1>1. bs \in Seq(BlockRecord) /\ Len(bs) \in Nat
    BY DEF BlocksOK
  <1>2. /\ cs \in Seq(BlockRecord) /\ Len(cs) = k
        /\ \A i \in 1 .. k : cs[i] = bs[i]
    BY <1>1
  <1> HIDE DEF cs
  <1>3. \A i \in 1 .. k : i \in 1 .. Len(bs) /\ (i # 1 => i - 1 \in 1 .. k)
    BY <1>1
  <1>4. \A i \in 1 .. k : BlockOK(cs[i])
    BY <1>2, <1>3 DEF BlocksOK
  <1>5. ASSUME NEW i \in 1 .. k
        PROVE  cs[i].base_pos = IF i = 1 THEN 0 ELSE cs[i - 1].base_pos + cs[i - 1].res
    <2>1. bs[i].base_pos = IF i = 1 THEN 0 ELSE bs[i - 1].base_pos + bs[i - 1].res
      BY <1>3 DEF BlocksOK
    <2> QED BY <1>2, <1>3, <2>1
  <1>6. ASSUME NEW i \in 1 .. k, NEW j \in 1 .. k, i < j
        PROVE  cs[i].base_pos + cs[i].res <= cs[j].base_pos
    <2>1. bs[i].base_pos + bs[i].res <= bs[j].base_pos
      BY <1>3, <1>6 DEF BlocksOK
    <2> QED BY <1>2, <2>1
  <1>7. BlocksOK(cs)
    BY <1>2, <1>4, <1>5, <1>6 DEF BlocksOK
  <1>8. cs # << >>
    BY <1>2
  <1> QED BY <1>2, <1>7, <1>8 DEF cs

-----------------------------------------------------------------------------
(* What a push does to the blocks *)

(* Everything that is held or committed in bs is so in cs. *)
Keeps(bs, cs) ==
    /\ Len(bs) <= Len(cs)
    /\ \A k \in 1 .. Len(bs) :
          /\ cs[k].base_pos = bs[k].base_pos
          /\ bs[k].pos <= cs[k].pos /\ bs[k].cmt <= cs[k].cmt

LEMMA KeepsAll ==
  ASSUME NEW bs, NEW cs, BlocksOK(bs), BlocksOK(cs), Keeps(bs, cs)
  PROVE  /\ \A p \in Nat : HeldAt(bs, p) => HeldAt(cs, p)
         /\ \A a \in AllocRecord : Placed(bs, a) => Placed(cs, a)
         /\ \A c \in Int : CommittedCell(bs, c) => CommittedCell(cs, c)
  <1>1. Len(bs) \in Nat /\ Len(cs) \in Nat /\ Len(bs) <= Len(cs)
    BY DEF BlocksOK, Keeps
  <1>2. ASSUME NEW k \in 1 .. Len(bs)
        PROVE  /\ k \in 1 .. Len(cs)
               /\ bs[k].base_pos \in Nat /\ bs[k].pos \in Nat /\ bs[k].cmt \in Nat
               /\ cs[k].pos \in Nat /\ cs[k].cmt \in Nat
               /\ cs[k].base_pos = bs[k].base_pos
               /\ bs[k].pos <= cs[k].pos /\ bs[k].cmt <= cs[k].cmt
    <2>1. k \in 1 .. Len(cs)
      BY <1>1
    <2>2. BlockOK(bs[k]) /\ BlockOK(cs[k])
      BY <2>1 DEF BlocksOK
    <2> QED BY <2>1, <2>2 DEF BlockOK, BlockRecord, Keeps
  <1>3. ASSUME NEW p \in Nat, HeldAt(bs, p)
        PROVE  HeldAt(cs, p)
    <2>1. PICK k \in 1 .. Len(bs) :
              bs[k].base_pos + 1 <= p /\ p <= bs[k].base_pos + bs[k].pos
      BY <1>3 DEF HeldAt
    <2>2. k \in 1 .. Len(cs) /\ cs[k].base_pos + 1 <= p /\ p <= cs[k].base_pos + cs[k].pos
      BY <1>2, <2>1
    <2> QED BY <2>2 DEF HeldAt
  <1>4. ASSUME NEW a \in AllocRecord, Placed(bs, a)
        PROVE  Placed(cs, a)
    <2>1. PICK k \in 1 .. Len(bs) :
              /\ bs[k].base_pos + 1 <= a.first
              /\ a.first + a.size <= bs[k].base_pos + bs[k].pos
      BY <1>4 DEF Placed
    <2>2. a.first \in Nat /\ a.size \in Nat
      BY DEF AllocRecord
    <2>3. /\ k \in 1 .. Len(cs) /\ cs[k].base_pos + 1 <= a.first
          /\ a.first + a.size <= cs[k].base_pos + cs[k].pos
      <3> DEFINE x == bs[k].base_pos
                 y == bs[k].pos
                 z == cs[k].pos
                 u == a.first + a.size
      <3>1. x \in Nat /\ y \in Nat /\ z \in Nat /\ y <= z /\ cs[k].base_pos = x
            /\ k \in 1 .. Len(cs)
        BY <1>2
      <3>2. u \in Nat /\ u <= x + y /\ x + 1 <= a.first
        BY <2>1, <2>2
      <3> HIDE DEF x, y, z, u
      <3>3. u <= x + z
        BY <3>1, <3>2
      <3> QED BY <3>1, <3>2, <3>3 DEF z, u
    <2> QED BY <2>3 DEF Placed
  <1>5. ASSUME NEW c \in Int, CommittedCell(bs, c)
        PROVE  CommittedCell(cs, c)
    <2>1. PICK k \in 1 .. Len(bs) :
              bs[k].base_pos <= c /\ c < bs[k].base_pos + bs[k].cmt
      BY <1>5 DEF CommittedCell
    <2>2. k \in 1 .. Len(cs) /\ cs[k].base_pos <= c /\ c < cs[k].base_pos + cs[k].cmt
      BY <1>2, <2>1
    <2> QED BY <2>2 DEF CommittedCell
  <1> QED BY <1>3, <1>4, <1>5

(* The block a push goes to is the current one, or a new one behind it. *)
LEMMA TargetIsOK ==
  ASSUME BlocksOK(blocks), blocks # << >>, NEW size \in Sizes, NEW align \in Alignments
  PROVE  /\ BlockOK(Target(size, align))
         /\ Chains(size, align) =>
               /\ Target(size, align).base_pos = Last(blocks).base_pos + Last(blocks).res
               /\ Target(size, align).pos = 1
         /\ ~ Chains(size, align) => Target(size, align) = Last(blocks)
  <1>1. size \in Nat /\ align \in Nat \ {0}
    BY ArenaAssumption
  <1>2. BlockOK(Last(blocks))
    BY LastIs
  <1> DEFINE current == Last(blocks)
             large == AlignPow2(size + 1, align)
             base == current.base_pos + current.res
  <1> HIDE DEF current
  <1>3. large \in Nat \ {0}
    <2>1. size + 1 \in Nat \ {0}
      BY <1>1
    <2>2. large \in Nat /\ large >= size + 1
      BY <1>1, <2>1, AlignTyped
    <2> QED BY <2>1, <2>2
  <1>4. /\ base \in Nat /\ current.res_size \in Nat \ {0}
        /\ current.cmt_size \in Nat \ {0} /\ current.cmt_size <= current.res_size
    BY <1>2 DEF BlockOK, BlockRecord, current
  <1> HIDE DEF large, base
  <1>5. NewBlock(size, align) = IF size + 1 > current.res_size
                                THEN Block(large, large, base)
                                ELSE Block(current.res_size, current.cmt_size, base)
    BY DEF NewBlock, arena_header_size, current, large, base
  <1>6. BlockOK(Block(large, large, base)) /\ Block(large, large, base).base_pos = base
        /\ Block(large, large, base).pos = 1
    BY <1>3, <1>4, BlockIsOK
  <1>7. /\ BlockOK(Block(current.res_size, current.cmt_size, base))
        /\ Block(current.res_size, current.cmt_size, base).base_pos = base
        /\ Block(current.res_size, current.cmt_size, base).pos = 1
    BY <1>4, BlockIsOK
  <1>8. BlockOK(NewBlock(size, align)) /\ NewBlock(size, align).base_pos = base
        /\ NewBlock(size, align).pos = 1
    BY <1>5, <1>6, <1>7, Zenon
  <1> QED BY <1>2, <1>8 DEF Target, base, current

LEMMA CommittedIsOK ==
  ASSUME NEW b, BlockOK(b), NEW limit \in Nat
  PROVE  Committed(b, limit) \in b.cmt .. b.res /\ WholePages(Committed(b, limit))
  <1>1. b.cmt \in Nat /\ b.res \in Nat /\ b.cmt <= b.res /\ b.cmt_size \in Nat \ {0}
    BY DEF BlockOK, BlockRecord
  <1>2. AlignPow2(limit, b.cmt_size) \in Nat /\ AlignPow2(limit, b.cmt_size) >= limit
    BY <1>1, AlignTyped
  <1>3. /\ WholePages(b.cmt) /\ WholePages(b.res)
        /\ WholePages(AlignPow2(limit, b.cmt_size))
    BY <1>1, PagesRounded DEF BlockOK
  <1> QED BY <1>1, <1>2, <1>3 DEF Committed, Least

(* The blocks after a push that raises the position and the commit limit  *)
(* of the block it goes to.                                               *)
LEMMA CurrentRaised ==
  ASSUME BlocksOK(blocks), blocks # << >>, NEW size \in Sizes, NEW align \in Alignments,
         NEW b, BlockOK(b),
         b.base_pos = Target(size, align).base_pos, b.res = Target(size, align).res,
         Target(size, align).pos <= b.pos, Target(size, align).cmt <= b.cmt,
         NEW bs, bs = WithCurrent(Chains(size, align), b)
  PROVE  BlocksOK(bs) /\ bs # << >> /\ Last(bs) = b /\ Keeps(blocks, bs)
  <1> DEFINE n == Len(blocks)
  <1>1. n \in Nat \ {0} /\ Last(blocks) = blocks[n] /\ BlockOK(Last(blocks))
    BY LastIs
  <1>2. \A k \in 1 .. n : BlockOK(blocks[k])
    BY DEF BlocksOK
  <1>3. \A k \in 1 .. n : /\ blocks[k].pos <= blocks[k].pos
                          /\ blocks[k].cmt <= blocks[k].cmt
    BY <1>2 DEF BlockOK, BlockRecord
  <1>4. CASE Chains(size, align)
    <2>1. bs = Append(blocks, b) /\ b.base_pos = Last(blocks).base_pos + Last(blocks).res
      BY <1>4, TargetIsOK DEF WithCurrent
    <2>2. BlocksOK(bs) /\ Len(bs) = n + 1 /\ bs[n + 1] = b
          /\ \A k \in 1 .. n : bs[k] = blocks[k]
      BY <2>1, Extended
    <2>3. bs # << >> /\ Last(bs) = b
      BY <1>1, <2>2 DEF Last, BlocksOK
    <2> QED BY <1>1, <1>3, <2>2, <2>3 DEF Keeps
  <1>5. CASE ~ Chains(size, align)
    <2>1. bs = [blocks EXCEPT ![n] = b] /\ Target(size, align) = Last(blocks)
      BY <1>5, TargetIsOK DEF WithCurrent
    <2>2. BlocksOK(bs) /\ Len(bs) = n /\ bs[n] = b
          /\ \A k \in 1 .. n - 1 : bs[k] = blocks[k]
      <3>1. b.base_pos = Last(blocks).base_pos /\ b.res = Last(blocks).res
        BY <2>1
      <3>2. /\ BlocksOK([blocks EXCEPT ![Len(blocks)] = b])
            /\ Len([blocks EXCEPT ![Len(blocks)] = b]) = Len(blocks)
            /\ [blocks EXCEPT ![Len(blocks)] = b][Len(blocks)] = b
            /\ \A k \in 1 .. Len(blocks) - 1 :
                  [blocks EXCEPT ![Len(blocks)] = b][k] = blocks[k]
        BY <3>1, Replaced, Zenon
      <3> DEFINE cs == [blocks EXCEPT ![Len(blocks)] = b]
      <3>3. BlocksOK(cs) /\ Len(cs) = n /\ cs[n] = b /\ \A k \in 1 .. n - 1 : cs[k] = blocks[k]
        BY <3>2, Zenon
      <3>4. bs = cs
        BY <2>1
      <3> HIDE DEF cs
      <3> QED BY <3>3, <3>4
    <2>3. bs # << >> /\ Last(bs) = b
      BY <1>1, <2>2 DEF Last, BlocksOK
    <2>4. ASSUME NEW k \in 1 .. n
          PROVE  /\ bs[k].base_pos = blocks[k].base_pos
                 /\ blocks[k].pos <= bs[k].pos /\ blocks[k].cmt <= bs[k].cmt
      <3>1. CASE k = n
        BY <1>1, <2>1, <2>2, <3>1
      <3>2. CASE k # n
        <4>1. k \in 1 .. n - 1
          BY <1>1, <3>2
        <4> QED BY <1>3, <2>2, <4>1
      <3> QED BY <3>1, <3>2
    <2> QED BY <1>1, <2>2, <2>3, <2>4 DEF Keeps
  <1> QED BY <1>4, <1>5

-----------------------------------------------------------------------------
(* What a pop does to the blocks *)

(* cs are the blocks up to the one that holds p, used up to p. *)
CutAt(bs, cs, p) ==
    /\ BlocksOK(cs) /\ cs # << >> /\ Len(cs) <= Len(bs)
    /\ Last(cs).base_pos + Last(cs).pos = p
    /\ Last(cs).pos <= bs[Len(cs)].pos
    /\ \A i \in 1 .. Len(cs) :
          /\ cs[i].base_pos = bs[i].base_pos /\ cs[i].cmt = bs[i].cmt
          /\ cs[i].res = bs[i].res
    /\ \A i \in 1 .. Len(cs) - 1 : cs[i].pos = bs[i].pos

LEMMA KeptIs ==
  ASSUME BlocksOK(blocks), NEW p \in Nat, NEW k \in 1 .. Len(blocks),
         blocks[k].base_pos + 1 <= BigPos(p),
         BigPos(p) <= blocks[k].base_pos + blocks[k].pos
  PROVE  Kept(p) = SubSeq(blocks, 1, k)
  <1> DEFINE S == {i \in 1 .. Len(blocks) : blocks[i].base_pos < BigPos(p)}
  <1>1. BigPos(p) \in Nat
    BY DEF BigPos, arena_header_size
  <1>2. ASSUME NEW i \in 1 .. Len(blocks)
        PROVE  BlockOK(blocks[i]) /\ blocks[i].base_pos \in Nat /\ blocks[i].pos \in Nat
               /\ blocks[i].res \in Nat /\ blocks[i].pos <= blocks[i].res
    BY BlockIs
  <1>3. k \in S
    BY <1>1, <1>2
  <1>4. ASSUME NEW i \in S PROVE i <= k
    <2>1. SUFFICES ASSUME k < i PROVE FALSE
      BY DEF BlocksOK
    <2>2. blocks[k].base_pos + blocks[k].res <= blocks[i].base_pos
      BY <2>1 DEF BlocksOK
    <2>3. blocks[i].base_pos < BigPos(p)
      OBVIOUS
    <2> DEFINE x == blocks[k].base_pos
               y == blocks[k].pos
               r == blocks[k].res
               z == blocks[i].base_pos
    <2>4. x \in Nat /\ y \in Nat /\ r \in Nat /\ z \in Nat /\ y <= r
      BY <1>2
    <2>5. x + r <= z /\ z < BigPos(p) /\ BigPos(p) <= x + y
      BY <2>2, <2>3
    <2> HIDE DEF x, y, r, z
    <2> QED BY <1>1, <2>4, <2>5
  <1>5. S \subseteq Nat
    BY DEF BlocksOK
  <1> HIDE DEF S
  <1>6. Max(S) \in S /\ \A i \in S : Max(S) >= i
    <2>1. \E x \in S : \A y \in S : x >= y
      BY <1>3, <1>4, <1>5
    <2> QED BY <2>1 DEF Max
  <1>7. Max(S) = k
    BY <1>3, <1>4, <1>5, <1>6
  <1> QED BY <1>7 DEF Kept, S

(* A pop to a position that some block holds only lowers the position of   *)
(* the block that holds it, and gives back those behind it.                *)
LEMMA PopCuts ==
  ASSUME BlocksOK(blocks), NEW p \in Nat, HeldAt(blocks, BigPos(p)), pop_to(p)
  PROVE  CutAt(blocks, blocks', BigPos(p))
  <1>1. PICK k \in 1 .. Len(blocks) :
            /\ blocks[k].base_pos + 1 <= BigPos(p)
            /\ BigPos(p) <= blocks[k].base_pos + blocks[k].pos
    BY DEF HeldAt
  <1> DEFINE bs == SubSeq(blocks, 1, k)
             b == [blocks[k] EXCEPT !.pos = BigPos(p) - blocks[k].base_pos]
  <1>2. Kept(p) = bs
    BY <1>1, KeptIs
  <1>3. /\ BlocksOK(bs) /\ Len(bs) = k /\ bs # << >>
        /\ \A i \in 1 .. k : bs[i] = blocks[i]
    BY FirstBlocks
  <1>4. BlockOK(blocks[k]) /\ BigPos(p) \in Nat /\ k \in Nat \ {0} /\ Len(blocks) \in Nat
    BY DEF BlocksOK, BigPos, arena_header_size
  <1>5. BlockOK(b) /\ b.base_pos = blocks[k].base_pos /\ b.res = blocks[k].res
        /\ b.cmt = blocks[k].cmt /\ b.base_pos + b.pos = BigPos(p) /\ b.pos <= blocks[k].pos
    <2> DEFINE np == BigPos(p) - blocks[k].base_pos
    <2>1. /\ blocks[k] \in BlockRecord /\ blocks[k].base_pos \in Nat /\ blocks[k].pos \in Nat
          /\ blocks[k].pos <= blocks[k].cmt /\ blocks[k].cmt <= blocks[k].res
          /\ blocks[k].cmt \in Nat
          /\ 1 <= blocks[k].cmt_size /\ blocks[k].cmt_size <= blocks[k].res_size
          /\ WholePages(blocks[k].cmt) /\ WholePages(blocks[k].res)
          /\ WholePages(blocks[k].cmt_size)
      BY BlockIs DEF BlockOK
    <2>2. np \in Nat /\ 1 <= np /\ np <= blocks[k].pos /\ np <= blocks[k].cmt
          /\ blocks[k].base_pos + np = BigPos(p)
      <3> DEFINE x == blocks[k].base_pos
                 y == blocks[k].pos
                 z == blocks[k].cmt
                 u == BigPos(p)
      <3>1. x \in Nat /\ y \in Nat /\ z \in Nat /\ u \in Nat /\ y <= z
        BY <1>4, <2>1
      <3>2. x + 1 <= u /\ u <= x + y /\ np = u - x
        BY <1>1
      <3> HIDE DEF x, y, z, u, np
      <3>3. np \in Nat /\ 1 <= np /\ np <= y /\ np <= z /\ x + np = u
        BY <3>1, <3>2
      <3> QED BY <3>3 DEF x, y, z, u
    <2> HIDE DEF np
    <2>3. b = [blocks[k] EXCEPT !.pos = np]
      BY DEF np
    <2>4. /\ b \in BlockRecord /\ b.pos = np /\ b.base_pos = blocks[k].base_pos
          /\ b.cmt = blocks[k].cmt /\ b.res = blocks[k].res
          /\ b.cmt_size = blocks[k].cmt_size /\ b.res_size = blocks[k].res_size
      BY <2>1, <2>2, <2>3 DEF BlockRecord
    <2> QED BY <2>1, <2>2, <2>4 DEF BlockOK
  <1>6. Last(bs) = blocks[k]
    BY <1>3, <1>4 DEF Last
  <1>7. blocks' = [bs EXCEPT ![Len(bs)] = b]
    <2>1. bs[k] = blocks[k]
      BY <1>3, <1>4
    <2>2. blocks' = [bs EXCEPT ![k].pos = BigPos(p) - blocks[k].base_pos]
      BY <1>2, <1>3, <1>6 DEF pop_to, NewPos
    <2> HIDE DEF bs
    <2> QED BY <1>3, <2>1, <2>2
  <1> HIDE DEF bs, b
  <1>8. /\ BlocksOK(blocks') /\ Len(blocks') = k /\ blocks'[k] = b
        /\ \A i \in 1 .. k - 1 : blocks'[i] = blocks[i]
    <2>1. b.base_pos = Last(bs).base_pos /\ b.res = Last(bs).res
      BY <1>5, <1>6
    <2>2. /\ BlocksOK(blocks') /\ Len(blocks') = Len(bs) /\ blocks'[Len(bs)] = b
          /\ \A i \in 1 .. Len(bs) - 1 : blocks'[i] = bs[i]
      <3> DEFINE cs == [bs EXCEPT ![Len(bs)] = b]
      <3>1. BlocksOK(cs) /\ Len(cs) = Len(bs) /\ cs[Len(bs)] = b
            /\ \A i \in 1 .. Len(bs) - 1 : cs[i] = bs[i]
        BY <1>3, <1>5, <2>1, Replaced, Zenon
      <3>2. blocks' = cs
        BY <1>7
      <3> HIDE DEF cs
      <3> QED BY <3>1, <3>2
    <2>3. \A i \in 1 .. k - 1 : i \in 1 .. k
      BY <1>4
    <2> QED BY <1>3, <2>2, <2>3
  <1>9. blocks' # << >> /\ Last(blocks') = b
    BY <1>4, <1>8 DEF Last, BlocksOK
  <1>10. ASSUME NEW i \in 1 .. k
         PROVE  /\ blocks'[i].base_pos = blocks[i].base_pos /\ blocks'[i].cmt = blocks[i].cmt
                /\ blocks'[i].res = blocks[i].res
    <2>1. CASE i = k
      BY <1>5, <1>8, <2>1
    <2>2. CASE i # k
      <3>1. i \in 1 .. k - 1
        BY <1>4, <2>2
      <3> QED BY <1>8, <3>1
    <2> QED BY <2>1, <2>2
  <1>11. \A i \in 1 .. k - 1 : blocks'[i].pos = blocks[i].pos
    BY <1>8
  <1> QED BY <1>4, <1>5, <1>8, <1>9, <1>10, <1>11 DEF CutAt

LEMMA CutKeeps ==
  ASSUME NEW bs, NEW cs, NEW p \in Nat, BlocksOK(bs), CutAt(bs, cs, p)
  PROVE  /\ \A q \in Nat : HeldAt(bs, q) /\ q <= p => HeldAt(cs, q)
         /\ \A a \in AllocRecord : Placed(bs, a) /\ a.first + a.size <= p => Placed(cs, a)
  <1> DEFINE k == Len(cs)
  <1>1. k \in Nat \ {0} /\ k \in 1 .. Len(bs) /\ Len(bs) \in Nat /\ Last(cs) = cs[k]
    BY LastIs DEF CutAt, BlocksOK
  <1>2. ASSUME NEW i \in 1 .. Len(bs)
        PROVE  BlockOK(bs[i]) /\ bs[i].base_pos \in Nat /\ bs[i].pos \in Nat
               /\ bs[i].res \in Nat /\ bs[i].pos <= bs[i].res
    BY BlockIs
  <1>3. /\ cs[k].base_pos = bs[k].base_pos /\ cs[k].base_pos + cs[k].pos = p
        /\ cs[k].pos \in Nat /\ cs[k].pos <= bs[k].pos
    <2>1. BlockOK(cs[k])
      BY <1>1 DEF CutAt, BlocksOK
    <2> QED BY <1>1, <2>1 DEF CutAt, BlockOK, BlockRecord
  <1>4. ASSUME NEW i \in 1 .. Len(bs), NEW u \in Nat, NEW v \in Nat, u <= v,
               bs[i].base_pos + 1 <= u, v <= bs[i].base_pos + bs[i].pos, v <= p
        PROVE  /\ i \in 1 .. k
               /\ cs[i].base_pos + 1 <= u /\ v <= cs[i].base_pos + cs[i].pos
    <2>1. CASE k < i
      <3>1. bs[k].base_pos + bs[k].res <= bs[i].base_pos
        BY <1>1, <2>1 DEF BlocksOK
      <3>2. p <= bs[k].base_pos + bs[k].res
        <4> DEFINE x == bs[k].base_pos
                   y == bs[k].pos
                   r == bs[k].res
                   z == cs[k].pos
        <4>1. x \in Nat /\ y \in Nat /\ r \in Nat /\ y <= r
          BY <1>1, <1>2
        <4>2. z \in Nat /\ x + z = p /\ z <= y
          BY <1>3
        <4> HIDE DEF x, y, r, z
        <4>3. p <= x + r
          BY <4>1, <4>2
        <4> QED BY <4>3 DEF x, r
      <3>3. bs[k].base_pos + bs[k].res \in Nat /\ bs[i].base_pos \in Nat
        BY <1>1, <1>2
      <3>4. FALSE
        BY <1>4, <3>1, <3>2, <3>3
      <3> QED BY <3>4
    <2>2. CASE i = k
      BY <1>1, <1>3, <1>4, <2>2
    <2>3. CASE i < k
      <3>1. i \in 1 .. k - 1 /\ i \in 1 .. k
        BY <1>1, <2>3
      <3>2. cs[i].base_pos = bs[i].base_pos /\ cs[i].pos = bs[i].pos
        BY <3>1 DEF CutAt
      <3> QED BY <1>4, <3>1, <3>2
    <2> QED BY <1>1, <2>1, <2>2, <2>3
  <1>5. ASSUME NEW q \in Nat, HeldAt(bs, q), q <= p
        PROVE  HeldAt(cs, q)
    <2>1. PICK i \in 1 .. Len(bs) :
              bs[i].base_pos + 1 <= q /\ q <= bs[i].base_pos + bs[i].pos
      BY <1>5 DEF HeldAt
    <2>2. i \in 1 .. k /\ cs[i].base_pos + 1 <= q /\ q <= cs[i].base_pos + cs[i].pos
      BY <1>4, <1>5, <2>1
    <2> QED BY <2>2 DEF HeldAt
  <1>6. ASSUME NEW a \in AllocRecord, Placed(bs, a), a.first + a.size <= p
        PROVE  Placed(cs, a)
    <2>1. PICK i \in 1 .. Len(bs) :
              /\ bs[i].base_pos + 1 <= a.first
              /\ a.first + a.size <= bs[i].base_pos + bs[i].pos
      BY <1>6 DEF Placed
    <2> DEFINE u == a.first
               v == a.first + a.size
    <2>2. u \in Nat /\ v \in Nat /\ u <= v
      BY DEF AllocRecord
    <2> HIDE DEF u, v
    <2>3. bs[i].base_pos + 1 <= u /\ v <= bs[i].base_pos + bs[i].pos /\ v <= p
      BY <1>6, <2>1 DEF u, v
    <2>4. i \in 1 .. k /\ cs[i].base_pos + 1 <= u /\ v <= cs[i].base_pos + cs[i].pos
      BY <1>4, <2>2, <2>3
    <2> QED BY <2>4 DEF Placed, u, v
  <1> QED BY <1>5, <1>6

(* What is still used stays dirty, and what is dirty lies in a block. *)
LEMMA CutDirty ==
  ASSUME NEW bs, NEW cs, NEW p \in Nat, BlocksOK(bs), CutAt(bs, cs, p),
         NEW ds, DirtyOK(bs, ds), NEW es,
         es = {c \in ds : \E i \in 1 .. Len(cs) : c \in AllCells(cs[i])}
  PROVE  /\ DirtyOK(cs, es)
         /\ \A a \in AllocRecord :
               Placed(cs, a) /\ Cells(a) \subseteq ds => Cells(a) \subseteq es
  <1>1. Len(cs) \in Nat /\ Len(bs) \in Nat /\ Len(cs) <= Len(bs) /\ BlocksOK(cs)
    BY DEF CutAt, BlocksOK
  <1>2. ASSUME NEW i \in 1 .. Len(bs)
        PROVE  /\ bs[i].base_pos \in Nat /\ bs[i].pos \in Nat /\ bs[i].cmt \in Nat
               /\ bs[i].res \in Nat /\ bs[i].pos <= bs[i].cmt /\ bs[i].cmt <= bs[i].res
    BY BlockIs
  <1>3. ASSUME NEW i \in 1 .. Len(cs)
        PROVE  /\ i \in 1 .. Len(bs) /\ cs[i].pos \in Nat /\ cs[i].pos <= cs[i].cmt
               /\ cs[i].base_pos = bs[i].base_pos /\ cs[i].cmt = bs[i].cmt
               /\ cs[i].res = bs[i].res
    <2>1. i \in 1 .. Len(bs) /\ BlockOK(cs[i])
      BY <1>1 DEF BlocksOK
    <2> QED BY <2>1 DEF CutAt, BlockOK, BlockRecord
  <1>4. ASSUME NEW c \in es PROVE c \in Int /\ CommittedCell(cs, c)
    <2>1. c \in ds /\ c \in Int /\ CommittedCell(bs, c)
      BY DEF DirtyOK
    <2>2. PICK j \in 1 .. Len(bs) : bs[j].base_pos <= c /\ c < bs[j].base_pos + bs[j].cmt
      BY <2>1 DEF CommittedCell
    <2>3. PICK i \in 1 .. Len(cs) : c \in AllCells(cs[i])
      OBVIOUS
    <2>4. i \in 1 .. Len(bs) /\ bs[i].base_pos <= c /\ c < bs[i].base_pos + bs[i].res
      <3>1. cs[i].base_pos <= c /\ c <= cs[i].base_pos + cs[i].res - 1
        BY <2>1, <2>3 DEF AllCells
      <3> DEFINE x == bs[i].base_pos
                 r == bs[i].res
      <3>2. i \in 1 .. Len(bs) /\ cs[i].base_pos = x /\ cs[i].res = r
        BY <1>3
      <3>3. x \in Nat /\ r \in Nat
        BY <1>2, <3>2
      <3>4. x <= c /\ c <= x + r - 1
        BY <3>1, <3>2
      <3> HIDE DEF x, r
      <3>5. x <= c /\ c < x + r
        BY <2>1, <3>3, <3>4
      <3> QED BY <3>2, <3>5 DEF x, r
    <2>5. i = j
      <3>1. i < j => bs[i].base_pos + bs[i].res <= bs[j].base_pos
        BY <2>4 DEF BlocksOK
      <3>2. j < i => bs[j].base_pos + bs[j].res <= bs[i].base_pos
        BY <2>4 DEF BlocksOK
      <3>3. ~ (i < j)
        <4> DEFINE x == bs[i].base_pos
                   r == bs[i].res
                   z == bs[j].base_pos
        <4>1. x \in Nat /\ r \in Nat /\ z \in Nat
          BY <1>2, <2>4
        <4>2. z <= c /\ c < x + r /\ (i < j => x + r <= z)
          BY <2>2, <2>4, <3>1
        <4> HIDE DEF x, r, z
        <4> QED BY <2>1, <4>1, <4>2
      <3>4. ~ (j < i)
        <4>1. /\ bs[j].base_pos \in Nat /\ bs[j].cmt \in Nat /\ bs[j].res \in Nat
              /\ bs[j].cmt <= bs[j].res /\ bs[i].base_pos \in Nat
          BY <1>2, <2>4
        <4> DEFINE x == bs[j].base_pos
                   y == bs[j].cmt
                   r == bs[j].res
                   z == bs[i].base_pos
        <4>2. x \in Nat /\ y \in Nat /\ r \in Nat /\ z \in Nat /\ y <= r
          BY <4>1
        <4>3. z <= c /\ c < x + y /\ (j < i => x + r <= z)
          BY <2>2, <2>4, <3>2
        <4> HIDE DEF x, y, r, z
        <4> QED BY <2>1, <4>2, <4>3
      <3> QED BY <1>1, <2>4, <3>3, <3>4
    <2>6. cs[i].base_pos <= c /\ c < cs[i].base_pos + cs[i].cmt
      BY <1>3, <2>2, <2>5
    <2> QED BY <2>1, <2>6 DEF CommittedCell
  <1>5. DirtyOK(cs, es)
    BY <1>4 DEF DirtyOK
  <1>6. ASSUME NEW a \in AllocRecord, Placed(cs, a), Cells(a) \subseteq ds
        PROVE  Cells(a) \subseteq es
    <2>1. PICK k \in 1 .. Len(cs) :
              /\ cs[k].base_pos + 1 <= a.first
              /\ a.first + a.size <= cs[k].base_pos + cs[k].pos
      BY <1>6 DEF Placed
    <2>2. SUFFICES ASSUME NEW c \in Cells(a) PROVE c \in AllCells(cs[k])
      BY <1>6, <2>1
    <2>3. a.first \in Nat /\ a.size \in Nat
      BY DEF AllocRecord
    <2>4. c \in Int /\ a.first <= c /\ c <= a.first + a.size - 1
      BY <2>3 DEF Cells
    <2>5. cs[k].base_pos \in Nat /\ cs[k].res \in Nat /\ cs[k].pos \in Nat
          /\ cs[k].pos <= cs[k].res
      BY <1>1, BlockIs
    <2>6. cs[k].base_pos <= c /\ c <= cs[k].base_pos + cs[k].res - 1
      <3> DEFINE b == cs[k].base_pos
                 v == a.first + a.size
      <3>1. b \in Nat /\ v \in Nat /\ b + 1 <= a.first /\ v <= b + cs[k].pos
        BY <2>1, <2>3, <2>5
      <3>2. c < v
        BY <2>3, <2>4
      <3> HIDE DEF b, v
      <3>3. b <= c
        BY <2>3, <2>4, <3>1
      <3>4. c <= b + cs[k].res - 1
        BY <2>4, <2>5, <3>1, <3>2
      <3> QED BY <3>3, <3>4 DEF b
    <2> QED BY <2>4, <2>5, <2>6 DEF AllCells
  <1> QED BY <1>5, <1>6

-----------------------------------------------------------------------------
(* The invariant, step by step *)

LEMMA AllocatedIsOK == BlocksOK(allocated) /\ allocated # << >>
  <1>1. ReserveSize \in Nat \ {0} /\ CommitSize \in Nat \ {0} /\ CommitSize <= ReserveSize
    BY ArenaAssumption
  <1> DEFINE b == Block(ReserveSize, CommitSize, 0)
  <1>2. BlockOK(b) /\ b.base_pos = 0
    BY <1>1, BlockIsOK
  <1> HIDE DEF b
  <1>3. b \in BlockRecord
    BY <1>2 DEF BlockOK
  <1>4. allocated = <<b>>
    BY DEF allocated, b
  <1>5. /\ allocated \in Seq(BlockRecord) /\ Len(allocated) = 1 /\ allocated[1] = b
        /\ allocated # << >>
    BY <1>3, <1>4
  <1>6. \A i \in 1 .. 1 : i = 1
    OBVIOUS
  <1>7. \A i, j \in 1 .. 1 : ~ (i < j)
    OBVIOUS
  <1> HIDE DEF allocated
  <1> QED BY <1>2, <1>5, <1>6, <1>7 DEF BlocksOK

LEMMA EmptyIsOK ==
  ASSUME NEW bs
  PROVE  DirtyOK(bs, {}) /\ AllocsOK(bs, << >>, {}) /\ TempsOK(bs, << >>, << >>)
  <1>1. DirtyOK(bs, {})
    BY DEF DirtyOK
  <1>2. \A S : << >> \in Seq(S) /\ Len(<< >>) = 0
    OBVIOUS
  <1>3. \A i \in 1 .. 0 : FALSE
    OBVIOUS
  <1>4. << >> \in Seq(AllocRecord) /\ << >> \in Seq([pos : Nat, live : Nat])
        /\ 1 .. Len(<< >>) = 1 .. 0
    BY <1>2
  <1>5. AllocsOK(bs, << >>, {})
    BY <1>3, <1>4, Zenon DEF AllocsOK
  <1>6. TempsOK(bs, << >>, << >>)
    BY <1>3, <1>4, Zenon DEF TempsOK
  <1> QED BY <1>1, <1>5, <1>6

(* The position of the arena lies behind everything that is held. *)
LEMMA PosIs ==
  ASSUME BlocksOK(blocks), blocks # << >>
  PROVE  /\ pos \in Nat /\ HeldAt(blocks, pos)
         /\ \A q \in Nat : HeldAt(blocks, q) => q <= pos
         /\ \A a \in AllocRecord : Placed(blocks, a) => a.first + a.size <= pos
  <1> DEFINE n == Len(blocks)
  <1>1. /\ n \in Nat \ {0} /\ Last(blocks) = blocks[n]
        /\ \A k \in 1 .. n : blocks[k].base_pos + blocks[k].pos <= pos
    BY LastIs DEF pos
  <1>2. n \in 1 .. n /\ pos = blocks[n].base_pos + blocks[n].pos
    BY <1>1 DEF pos
  <1>3. blocks[n].base_pos \in Nat /\ blocks[n].pos \in Nat /\ 1 <= blocks[n].pos
    BY <1>2, BlockIs
  <1>4. pos \in Nat /\ HeldAt(blocks, pos)
    BY <1>2, <1>3 DEF HeldAt
  <1>5. ASSUME NEW q \in Nat, HeldAt(blocks, q) PROVE q <= pos
    <2>1. PICK k \in 1 .. n : q <= blocks[k].base_pos + blocks[k].pos
      BY <1>5 DEF HeldAt
    <2>2. blocks[k].base_pos \in Nat /\ blocks[k].pos \in Nat
      BY BlockIs
    <2>3. blocks[k].base_pos + blocks[k].pos <= pos
      BY <1>1
    <2> QED BY <1>4, <2>1, <2>2, <2>3
  <1>6. ASSUME NEW a \in AllocRecord, Placed(blocks, a) PROVE a.first + a.size <= pos
    <2>1. PICK k \in 1 .. n : a.first + a.size <= blocks[k].base_pos + blocks[k].pos
      BY <1>6 DEF Placed
    <2>2. blocks[k].base_pos \in Nat /\ blocks[k].pos \in Nat
      BY BlockIs
    <2>3. blocks[k].base_pos + blocks[k].pos <= pos
      BY <1>1
    <2>4. a.first \in Nat /\ a.size \in Nat
      BY DEF AllocRecord
    <2> QED BY <1>4, <2>1, <2>2, <2>3, <2>4
  <1> QED BY <1>4, <1>5, <1>6

(* Blocks that keep all that was held keep the Temps. *)
LEMMA TempsKept ==
  ASSUME NEW bs, NEW cs, BlocksOK(bs), BlocksOK(cs), Keeps(bs, cs),
         NEW as, NEW ts, TempsOK(bs, as, ts)
  PROVE  TempsOK(cs, as, ts)
  <1>1. ts \in Seq([pos : Nat, live : Nat])
    BY DEF TempsOK
  <1>2. ASSUME NEW i \in 1 .. Len(ts) PROVE Parts(cs, as, ts[i])
    <2>1. ts[i].pos \in Nat
      <3>1. ts[i] \in [pos : Nat, live : Nat]
        BY <1>1, ElementOfSeq
      <3> QED BY <3>1
    <2>2. Parts(bs, as, ts[i])
      BY Zenon DEF TempsOK
    <2>3. HeldAt(cs, ts[i].pos)
      BY <2>1, <2>2, KeepsAll DEF Parts
    <2> QED BY <2>2, <2>3 DEF Parts
  <1> QED BY <1>2 DEF TempsOK

LEMMA AllocsStay ==
  ASSUME NEW bs, NEW cs, BlocksOK(bs), BlocksOK(cs), Keeps(bs, cs),
         NEW as, NEW ds, AllocsOK(bs, as, ds)
  PROVE  AllocsOK(cs, as, ds)
  <1>1. as \in Seq(AllocRecord)
    BY DEF AllocsOK
  <1>2. ASSUME NEW i \in 1 .. Len(as) PROVE Placed(cs, as[i])
    <2>1. as[i] \in AllocRecord
      BY <1>1, ElementOfSeq
    <2>2. Placed(bs, as[i])
      BY Zenon DEF AllocsOK
    <2> QED BY <2>1, <2>2, KeepsAll
  <1> QED BY <1>2 DEF AllocsOK

LEMMA DirtyStays ==
  ASSUME NEW bs, NEW cs, BlocksOK(bs), BlocksOK(cs), Keeps(bs, cs),
         NEW ds, DirtyOK(bs, ds)
  PROVE  DirtyOK(cs, ds)
  BY KeepsAll DEF DirtyOK

LEMMA FailingPushStep ==
  ASSUME ArenaInv, NEW size \in Sizes, NEW align \in Alignments, push_fails(size, align)
  PROVE  ArenaInv'
  <1> DEFINE t == Target(size, align)
             limit == AlignPow2(t.pos, align) + size
             b == [t EXCEPT !.cmt = Committed(t, limit)]
  <1>1. BlocksOK(blocks) /\ blocks # << >> /\ BlockOK(t)
    BY TargetIsOK DEF ArenaInv, push_fails
  <1>2. size \in Nat /\ align \in Nat \ {0} /\ t.pos \in Nat /\ t.cmt \in Nat /\ t.res \in Nat
        /\ t.pos <= t.cmt
    BY <1>1, ArenaAssumption DEF BlockOK, BlockRecord
  <1>3. limit \in Nat
    BY <1>2, AlignTyped
  <1>4. Committed(t, limit) \in t.cmt .. t.res /\ WholePages(Committed(t, limit))
    BY <1>1, <1>3, CommittedIsOK
  <1> HIDE DEF t, limit
  <1>5. /\ BlockOK(b) /\ b.base_pos = t.base_pos /\ b.res = t.res /\ b.pos = t.pos
        /\ t.cmt <= b.cmt
    <2> DEFINE c == Committed(t, limit)
    <2>1. c \in Nat /\ t.cmt <= c /\ c <= t.res /\ WholePages(c)
      BY <1>2, <1>4
    <2> HIDE DEF c
    <2>2. b = [t EXCEPT !.cmt = c]
      BY DEF c
    <2>3. /\ b \in BlockRecord /\ b.cmt = c /\ b.base_pos = t.base_pos /\ b.pos = t.pos
          /\ b.res = t.res /\ b.cmt_size = t.cmt_size /\ b.res_size = t.res_size
      BY <1>1, <2>1, <2>2 DEF BlockOK, BlockRecord
    <2> QED BY <1>1, <1>2, <2>1, <2>3 DEF BlockOK
  <1> HIDE DEF b
  <1>6. t.pos <= t.pos /\ t.pos <= b.pos /\ t.cmt <= t.cmt
    BY <1>2, <1>5
  <1>7. BlocksOK(blocks') /\ Keeps(blocks, blocks')
    <2>1. CASE Chains(size, align) /\ blocks' = Append(blocks, t)
      <3>1. blocks' = WithCurrent(Chains(size, align), t)
        BY <2>1 DEF WithCurrent
      <3> QED BY <1>1, <1>6, <3>1, CurrentRaised DEF t
    <2>2. CASE blocks' = WithCurrent(Chains(size, align), b)
      BY <1>1, <1>5, <1>6, <2>2, CurrentRaised DEF t
    <2> QED BY <2>1, <2>2 DEF push_fails, t, b, limit
  <1>8. UNCHANGED <<no_chain, dirty, allocs, temps, clean>>
    BY DEF push_fails
  <1>9. /\ TempsOK(blocks', allocs, temps) /\ AllocsOK(blocks', allocs, dirty)
        /\ DirtyOK(blocks', dirty)
    BY <1>1, <1>7, TempsKept, AllocsStay, DirtyStays DEF ArenaInv
  <1> QED BY <1>7, <1>8, <1>9 DEF ArenaInv

LEMMA InitInv == Init => ArenaInv
  <1> SUFFICES ASSUME Init PROVE ArenaInv
    OBVIOUS
  <1>1. BlocksOK(blocks) /\ blocks # << >>
    BY AllocatedIsOK DEF Init
  <1>2. no_chain \in BOOLEAN
    BY ArenaAssumption DEF Init
  <1> QED BY <1>1, <1>2, EmptyIsOK DEF Init, ArenaInv

(* Where a push puts its allocation: in the block it goes to, behind       *)
(* everything that is held.                                                *)
LEMMA PushedIs ==
  ASSUME BlocksOK(blocks), blocks # << >>, NEW size \in Sizes, NEW align \in Alignments
  PROVE  LET t == Target(size, align)
             pre == AlignPow2(t.pos, align)
         IN  /\ size \in Nat /\ pre \in Nat /\ t.base_pos \in Nat
             /\ t.pos \in Nat /\ 1 <= t.pos /\ t.pos <= pre
             /\ pos <= t.base_pos + pre
  <1> DEFINE t == Target(size, align)
             pre == AlignPow2(t.pos, align)
  <1>1. BlockOK(t) /\ BlockOK(Last(blocks))
    BY TargetIsOK, LastIs
  <1>2. size \in Nat /\ align \in Nat \ {0} /\ t.pos \in Nat /\ t.base_pos \in Nat /\ 1 <= t.pos
    BY <1>1, ArenaAssumption DEF BlockOK, BlockRecord
  <1>3. pre \in Nat /\ t.pos <= pre
    BY <1>2, AlignTyped
  <1>4. pos \in Nat /\ pos = Last(blocks).base_pos + Last(blocks).pos
    BY PosIs DEF pos
  <1>5. pos <= t.base_pos + pre
    <2>1. CASE Chains(size, align)
      <3>1. t.base_pos = Last(blocks).base_pos + Last(blocks).res
        BY <2>1, TargetIsOK
      <3>2. /\ Last(blocks).pos \in Nat /\ Last(blocks).res \in Nat
            /\ Last(blocks).base_pos \in Nat /\ Last(blocks).pos <= Last(blocks).res
        <4>1. \A b : BlockOK(b) =>
                 /\ b.pos \in Nat /\ b.res \in Nat /\ b.base_pos \in Nat /\ b.pos <= b.res
          BY DEF BlockOK, BlockRecord
        <4> QED BY <1>1, <4>1, Zenon
      <3> HIDE DEF t, pre
      <3> QED BY <1>2, <1>3, <1>4, <3>1, <3>2
    <2>2. CASE ~ Chains(size, align)
      <3>1. t = Last(blocks)
        BY <2>2, TargetIsOK
      <3> HIDE DEF t, pre
      <3> QED BY <1>2, <1>3, <1>4, <3>1
    <2> QED BY <2>1, <2>2
  <1> QED BY <1>2, <1>3, <1>5

(* What memset clears covers all that was committed of the allocation, so  *)
(* that nothing dirty is left in it.                                       *)
LEMMA ZeroedIsClean ==
  ASSUME BlocksOK(blocks), blocks # << >>, NEW size \in Sizes, NEW align \in Alignments,
         NEW ds, DirtyOK(blocks, ds),
         NEW a, a = [first |-> Target(size, align).base_pos
                               + AlignPow2(Target(size, align).pos, align),
                     size |-> size]
  PROVE  Cells(a) \cap (ds \ Zeroed(size, align)) = {}
  <1> DEFINE t == Target(size, align)
             pre == AlignPow2(t.pos, align)
             last == Last(blocks)
  <1>1. /\ size \in Nat /\ pre \in Nat /\ t.base_pos \in Nat
        /\ t.pos \in Nat /\ 1 <= t.pos /\ t.pos <= pre
    BY PushedIs
  <1>2. Wide \in Nat /\ size < Wide
    <2>1. Wide \in Nat /\ size \in 0 .. Wide - 1
      BY ArenaAssumption
    <2> QED BY <2>1
  <1>3. /\ last.base_pos \in Nat /\ last.cmt \in Nat /\ last.res \in Nat
        /\ Len(blocks) \in Nat \ {0} /\ last = blocks[Len(blocks)]
        /\ \A k \in 1 .. Len(blocks) :
              blocks[k].base_pos + blocks[k].cmt <= last.base_pos + last.res
    <2>1. Len(blocks) \in Nat \ {0} /\ last = blocks[Len(blocks)] /\ Len(blocks) \in 1 .. Len(blocks)
      BY LastIs
    <2>2. last.base_pos \in Nat /\ last.cmt \in Nat /\ last.res \in Nat
      BY <2>1, BlockIs
    <2> QED BY <2>1, <2>2, LastIs
  <1>4. /\ Chains(size, align) => t.base_pos = last.base_pos + last.res
        /\ ~ Chains(size, align) => t = last
    BY TargetIsOK
  <1>5. a.first = t.base_pos + pre /\ a.size = size
    OBVIOUS
  <1> HIDE DEF t, pre, last
  <1>6. SUFFICES ASSUME NEW c \in ds, c \in Cells(a), c \notin Zeroed(size, align)
                 PROVE  FALSE
    OBVIOUS
  <1>7. c \in Int /\ t.base_pos + pre <= c /\ c < t.base_pos + pre + size
    BY <1>1, <1>5, <1>6 DEF Cells
  <1>8. PICK k \in 1 .. Len(blocks) :
            blocks[k].base_pos <= c /\ c < blocks[k].base_pos + blocks[k].cmt
    BY DEF DirtyOK, CommittedCell
  <1>9. /\ blocks[k].base_pos \in Nat /\ blocks[k].cmt \in Nat /\ blocks[k].res \in Nat
        /\ blocks[k].cmt <= blocks[k].res
        /\ blocks[k].base_pos + blocks[k].cmt <= last.base_pos + last.res
    BY <1>3, BlockIs
  <1>10. CASE Chains(size, align)
    <2> DEFINE u == blocks[k].base_pos + blocks[k].cmt
               v == last.base_pos + last.res
    <2>1. u \in Nat /\ v \in Nat /\ u <= v /\ c < u
      <3>1. u \in Nat /\ c < u
        BY <1>8, <1>9
      <3>2. v \in Nat /\ u <= v
        BY <1>3, <1>9
      <3> QED BY <3>1, <3>2
    <2>2. v <= c
      BY <1>1, <1>4, <1>7, <1>10
    <2> HIDE DEF u, v
    <2> QED BY <1>7, <2>1, <2>2
  <1>11. CASE ~ Chains(size, align)
    <2>1. t = last
      BY <1>4, <1>11
    <2>2. k = Len(blocks)
      <3>1. k < Len(blocks) => blocks[k].base_pos + blocks[k].res <= last.base_pos
        BY <1>3 DEF BlocksOK
      <3>2. ~ (blocks[k].base_pos + blocks[k].res <= last.base_pos)
        <4> DEFINE u == blocks[k].base_pos + blocks[k].res
        <4>1. u \in Nat /\ c < u
          BY <1>7, <1>8, <1>9
        <4>2. last.base_pos <= c
          BY <1>1, <1>3, <1>7, <2>1
        <4> HIDE DEF u
        <4>3. ~ (u <= last.base_pos)
          BY <1>3, <1>7, <4>1, <4>2
        <4> QED BY <4>3 DEF u
      <3> QED BY <1>3, <3>1, <3>2
    <2>3. c < last.base_pos + last.cmt
      BY <1>3, <1>8, <2>2
    <2> DEFINE low == Least(last.cmt, pre + size)
               count == (low - pre) % Wide
    <2>4. Zeroed(size, align) = last.base_pos + pre .. last.base_pos + pre + count - 1
      <3>1. pre = AlignPow2(last.pos, align)
        BY <2>1 DEF pre
      <3> QED BY <1>11, <3>1 DEF Zeroed, last
    <2>5. low \in Nat /\ pre < low /\ low <= pre + size /\ c < last.base_pos + low
      <3> DEFINE x == last.base_pos
                 y == last.cmt
                 u == pre + size
      <3>1. x \in Nat /\ y \in Nat /\ u \in Nat /\ pre <= u
        BY <1>1, <1>3
      <3>2. c < x + y /\ x + pre <= c /\ c < x + u
        <4>1. c < x + y
          BY <2>3
        <4>2. x + pre <= c
          BY <1>7, <2>1
        <4>3. c < x + pre + size
          BY <1>7, <2>1
        <4>4. x + pre + size = x + u
          BY <1>1, <3>1
        <4> QED BY <4>1, <4>2, <4>3, <4>4
      <3>3. low = IF y < u THEN y ELSE u
        BY DEF Least
      <3> HIDE DEF x, y, u, low
      <3>4. low \in Nat /\ pre < low /\ low <= u /\ c < x + low
        BY <1>1, <1>7, <3>1, <3>2, <3>3
      <3> QED BY <3>4 DEF x, u
    <2> HIDE DEF low
    <2>6. count = low - pre
      <3> DEFINE d == low - pre
      <3>1. d \in Nat /\ d < Wide
        BY <1>1, <1>2, <2>5
      <3> HIDE DEF d
      <3>2. d % Wide = d
        BY <1>2, <3>1
      <3> QED BY <3>2 DEF d
    <2> HIDE DEF count
    <2>7. c \in last.base_pos + pre .. last.base_pos + pre + count - 1
      BY <1>1, <1>3, <1>7, <2>1, <2>5, <2>6
    <2> QED BY <1>6, <2>4, <2>7
  <1> QED BY <1>10, <1>11

(* What memset clears lies within the allocation: the aligned position is  *)
(* not above the commit limit, so that the size does not underflow.        *)
LEMMA ZeroedIsWithin ==
  ASSUME BlocksOK(blocks), blocks # << >>, NEW size \in Sizes, NEW align \in Alignments,
         NEW a, a = [first |-> Target(size, align).base_pos
                               + AlignPow2(Target(size, align).pos, align),
                     size |-> size]
  PROVE  Zeroed(size, align) \subseteq Cells(a)
  <1> DEFINE last == Last(blocks)
             pre == AlignPow2(last.pos, align)
             low == Least(last.cmt, pre + size)
             count == (low - pre) % Wide
  <1>1. CASE Chains(size, align)
    BY <1>1 DEF Zeroed
  <1>2. CASE ~ Chains(size, align)
    <2>1. Target(size, align) = last
      BY <1>2, TargetIsOK
    <2>2. /\ last.base_pos \in Nat /\ last.cmt \in Nat /\ last.pos \in Nat
          /\ last.pos <= last.cmt /\ WholePages(last.cmt)
      <3>1. BlockOK(last)
        BY LastIs
      <3> HIDE DEF last
      <3> QED BY <3>1 DEF BlockOK, BlockRecord
    <2>3. /\ size \in Nat /\ pre \in Nat
      BY <2>1, PushedIs
    <2>4. Wide \in Nat /\ size < Wide
      <3>1. Wide \in Nat /\ size \in 0 .. Wide - 1
        BY ArenaAssumption
      <3> QED BY <3>1
    <2>5. pre <= last.cmt
      BY <2>2, AlignedBelowLimit
    <2>6. Zeroed(size, align) = last.base_pos + pre .. last.base_pos + pre + count - 1
      BY <1>2 DEF Zeroed
    <2>7. a.first = last.base_pos + pre /\ a.size = size
      BY <2>1
    <2> HIDE DEF pre, last
    <2>8. count \in Nat /\ count <= size
      <3> DEFINE d == low - pre
      <3>1. d \in Nat /\ d <= size
        BY <2>2, <2>3, <2>5 DEF Least
      <3> HIDE DEF d
      <3>2. d % Wide = d
        BY <2>3, <2>4, <3>1
      <3> QED BY <3>1, <3>2 DEF d
    <2> HIDE DEF count
    <2> QED BY <2>2, <2>3, <2>6, <2>7, <2>8 DEF Cells
  <1> QED BY <1>1, <1>2

(* What memset clears lies behind everything that is held. *)
LEMMA ZeroedIsBehind ==
  ASSUME BlocksOK(blocks), blocks # << >>, NEW size \in Sizes, NEW align \in Alignments,
         NEW c \in Zeroed(size, align)
  PROVE  c \in Int /\ pos <= c
  <1> DEFINE pre == AlignPow2(Last(blocks).pos, align)
             count == (Least(Last(blocks).cmt, pre + size) - pre) % Wide
  <1>1. ~ Chains(size, align) /\ c \in Last(blocks).base_pos + pre .. Last(blocks).base_pos + pre + count - 1
    BY DEF Zeroed
  <1>2. Target(size, align) = Last(blocks)
    BY <1>1 DEF Target
  <1>3. pre \in Nat /\ Last(blocks).base_pos \in Nat /\ pos <= Last(blocks).base_pos + pre
    BY <1>2, PushedIs
  <1>4. pos \in Nat
    BY PosIs
  <1> HIDE DEF pre, count
  <1>5. c \in Int /\ Last(blocks).base_pos + pre <= c
    <2>1. \A x \in Int : \A y : c \in x .. y => c \in Int /\ x <= c
      OBVIOUS
    <2>2. Last(blocks).base_pos + pre \in Int
      BY <1>3
    <2> QED BY <1>1, <2>1, <2>2
  <1> QED BY <1>3, <1>4, <1>5

LEMMA PushStep ==
  ASSUME ArenaInv, NEW size \in Sizes, NEW align \in Alignments, NEW zero \in BOOLEAN,
         push(size, align, zero)
  PROVE  ArenaInv'
  <1> DEFINE t == Target(size, align)
             pre == AlignPow2(t.pos, align)
             limit == pre + size
             b == [t EXCEPT !.pos = limit, !.cmt = Committed(t, limit)]
             zeroed == IF zero THEN Zeroed(size, align) ELSE {}
             new == [first |-> t.base_pos + pre, size |-> size]
             n == Len(allocs)
  <1>1. BlocksOK(blocks) /\ blocks # << >> /\ BlockOK(t)
    BY TargetIsOK DEF ArenaInv, push
  <1>2. /\ size \in Nat /\ pre \in Nat /\ t.base_pos \in Nat
        /\ t.pos \in Nat /\ 1 <= t.pos /\ t.pos <= pre /\ pos <= t.base_pos + pre
    BY <1>1, PushedIs
  <1>3. pos \in Nat /\ limit \in Nat
    BY <1>1, <1>2, PosIs
  <1>4. Committed(t, limit) \in t.cmt .. t.res /\ WholePages(Committed(t, limit))
    BY <1>1, <1>3, CommittedIsOK
  <1>5. /\ Committed(t, limit) >= limit
        /\ blocks' = WithCurrent(Chains(size, align), b)
        /\ allocs' = Append(allocs, new)
        /\ clean' = /\ zero => Cells(new) \cap (dirty \ zeroed) = {}
                    /\ zeroed \subseteq Cells(new)
        /\ dirty' = (dirty \ zeroed) \cup Cells(new)
        /\ UNCHANGED <<no_chain, temps>>
    BY DEF push
  <1>6. new \in AllocRecord
    BY <1>2 DEF AllocRecord
  <1>7. clean' = TRUE
    <2>1. CASE zero = TRUE
      <3>1. Cells(new) \cap (dirty \ Zeroed(size, align)) = {}
        BY <1>1, ZeroedIsClean DEF ArenaInv
      <3>2. Zeroed(size, align) \subseteq Cells(new)
        BY <1>1, ZeroedIsWithin
      <3>3. zeroed = Zeroed(size, align)
        BY <2>1
      <3> HIDE DEF new, zeroed
      <3> QED BY <1>5, <2>1, <3>1, <3>2, <3>3, Zenon
    <2>2. CASE zero = FALSE
      <3>1. zeroed = {}
        BY <2>2
      <3> HIDE DEF new, zeroed
      <3> QED BY <1>5, <2>2, <3>1
    <2> QED BY <2>1, <2>2
  <1>8. \A c \in zeroed : c \in Int /\ pos <= c
    BY <1>1, ZeroedIsBehind
  <1> HIDE DEF t, pre, limit, zeroed
  <1>9. /\ BlockOK(b) /\ b.base_pos = t.base_pos /\ b.res = t.res
        /\ b.pos = limit /\ t.cmt <= b.cmt /\ t.pos <= b.pos /\ limit <= b.cmt
    <2> DEFINE c == Committed(t, limit)
    <2>1. /\ t.cmt \in Nat /\ t.res \in Nat /\ t.pos <= t.cmt /\ t.cmt <= t.res /\ t \in BlockRecord
          /\ 1 <= t.cmt_size /\ t.cmt_size <= t.res_size
          /\ WholePages(t.res) /\ WholePages(t.cmt_size)
      BY <1>1 DEF BlockOK, BlockRecord
    <2>2. c \in Nat /\ t.cmt <= c /\ c <= t.res /\ limit <= c /\ WholePages(c)
      BY <1>3, <1>4, <1>5, <2>1
    <2> HIDE DEF c
    <2>3. b = [t EXCEPT !.pos = limit, !.cmt = c]
      BY DEF c
    <2>4. /\ b \in BlockRecord /\ b.cmt = c /\ b.base_pos = t.base_pos /\ b.pos = limit
          /\ b.res = t.res /\ b.cmt_size = t.cmt_size /\ b.res_size = t.res_size
      BY <1>3, <2>1, <2>2, <2>3 DEF BlockRecord
    <2>5. 1 <= limit /\ t.pos <= limit
      BY <1>2 DEF limit
    <2> QED BY <2>1, <2>2, <2>4, <2>5 DEF BlockOK
  <1> HIDE DEF b
  <1>10. BlocksOK(blocks') /\ blocks' # << >> /\ Last(blocks') = b /\ Keeps(blocks, blocks')
    BY <1>1, <1>5, <1>9, CurrentRaised DEF t
  <1>11. /\ Len(blocks') \in 1 .. Len(blocks') /\ blocks'[Len(blocks')] = b
    BY <1>10, LastIs
  <1>12. Placed(blocks', new)
    <2>1. b.base_pos + 1 <= new.first /\ new.first + new.size <= b.base_pos + b.pos
      BY <1>2, <1>9 DEF limit
    <2> QED BY <1>11, <2>1 DEF Placed
  <1>13. \A c \in Cells(new) : c \in Int /\ pos <= c /\ CommittedCell(blocks', c)
    <2> SUFFICES ASSUME NEW c \in Cells(new)
                 PROVE  c \in Int /\ pos <= c /\ CommittedCell(blocks', c)
      OBVIOUS
    <2>1. c \in Int /\ t.base_pos + pre <= c /\ c < t.base_pos + limit
      BY <1>2 DEF Cells, limit
    <2>2. b.cmt \in Nat
      BY <1>9 DEF BlockOK, BlockRecord
    <2>3. b.base_pos <= c /\ c < b.base_pos + b.cmt
      BY <1>2, <1>3, <1>9, <2>1, <2>2
    <2>4. pos <= c
      BY <1>2, <1>3, <2>1
    <2> QED BY <1>11, <2>1, <2>3, <2>4 DEF CommittedCell
  <1>14. DirtyOK(blocks', dirty')
    <2>1. DirtyOK(blocks', dirty)
      BY <1>1, <1>10, DirtyStays DEF ArenaInv
    <2> QED BY <1>5, <1>13, <2>1 DEF DirtyOK
  <1> HIDE DEF new
  <1>15. n \in Nat /\ allocs \in Seq(AllocRecord)
    BY DEF ArenaInv, AllocsOK
  <1>16. /\ allocs' \in Seq(AllocRecord) /\ Len(allocs') = n + 1 /\ allocs'[n + 1] = new
         /\ \A i \in 1 .. n : allocs'[i] = allocs[i]
    BY <1>5, <1>6, <1>15
  <1>17. ASSUME NEW i \in 1 .. n
         PROVE  /\ allocs[i] \in AllocRecord /\ allocs[i].first \in Nat /\ allocs[i].size \in Nat
                /\ Placed(blocks, allocs[i]) /\ Cells(allocs[i]) \subseteq dirty
                /\ allocs[i].first + allocs[i].size <= pos
    <2>1. allocs[i] \in AllocRecord
      BY <1>15, ElementOfSeq
    <2>2. Placed(blocks, allocs[i]) /\ Cells(allocs[i]) \subseteq dirty
      BY Zenon DEF ArenaInv, AllocsOK
    <2>3. allocs[i].first + allocs[i].size <= pos
      BY <1>1, <2>1, <2>2, PosIs
    <2> QED BY <2>1, <2>2, <2>3 DEF AllocRecord
  <1>18. new.first \in Nat /\ pos <= new.first
    BY <1>2 DEF new
  <1>19. ASSUME NEW i \in 1 .. n + 1
         PROVE  Placed(blocks', allocs'[i]) /\ Cells(allocs'[i]) \subseteq dirty'
    <2>1. CASE i = n + 1
      BY <1>5, <1>12, <1>16, <2>1
    <2>2. CASE i # n + 1
      <3>1. i \in 1 .. n /\ allocs'[i] = allocs[i]
        BY <1>15, <1>16, <2>2
      <3>2. Placed(blocks', allocs[i])
        BY <1>1, <1>10, <1>17, <3>1, KeepsAll
      <3>3. ASSUME NEW c \in Cells(allocs[i]) PROVE c \in dirty'
        <4>1. c \in Int /\ c < pos
          BY <1>3, <1>17, <3>1 DEF Cells
        <4>2. c \notin zeroed
          BY <1>3, <1>8, <4>1
        <4> QED BY <1>5, <1>17, <3>1, <4>2
      <3> QED BY <3>1, <3>2, <3>3
    <2> QED BY <2>1, <2>2
  <1>20. ASSUME NEW i \in 1 .. n + 1, NEW j \in 1 .. n + 1, i < j
         PROVE  allocs'[i].first + allocs'[i].size <= allocs'[j].first
    <2>1. i \in 1 .. n /\ allocs'[i] = allocs[i]
      BY <1>15, <1>16, <1>20
    <2>2. CASE j = n + 1
      BY <1>3, <1>16, <1>17, <1>18, <2>1, <2>2
    <2>3. CASE j # n + 1
      <3>1. j \in 1 .. n /\ allocs'[j] = allocs[j]
        BY <1>15, <1>16, <2>3
      <3>2. allocs[i].first + allocs[i].size <= allocs[j].first
        BY <1>20, <2>1, <3>1 DEF ArenaInv, AllocsOK
      <3> QED BY <2>1, <3>1, <3>2
    <2> QED BY <2>2, <2>3
  <1>21. AllocsOK(blocks', allocs', dirty')
    BY <1>16, <1>19, <1>20 DEF AllocsOK
  <1>22. TempsOK(blocks', allocs, temps)
    BY <1>1, <1>10, TempsKept DEF ArenaInv
  <1>23. TempsOK(blocks', allocs', temps)
    <2>1. temps \in Seq([pos : Nat, live : Nat])
      BY DEF ArenaInv, TempsOK
    <2>2. ASSUME NEW i \in 1 .. Len(temps)
          PROVE  Parts(blocks', allocs', temps[i])
      <3> DEFINE s == temps[i]
      <3>1. s.pos \in Nat /\ s.live \in Nat
        <4>1. s \in [pos : Nat, live : Nat]
          BY <2>1, ElementOfSeq
        <4> QED BY <4>1
      <3>2. Parts(blocks', allocs, s) /\ Parts(blocks, allocs, s)
        BY <1>22, Zenon DEF ArenaInv, TempsOK
      <3> HIDE DEF s
      <3>3. s.pos <= pos
        BY <1>1, <3>1, <3>2, PosIs DEF Parts
      <3>4. s.live <= n /\ HeldAt(blocks', s.pos)
        BY <3>2 DEF Parts
      <3>5. \A j \in 1 .. s.live : allocs'[j].first + allocs'[j].size <= s.pos
        <4>1. \A j \in 1 .. s.live : j \in 1 .. n
          BY <1>15, <3>1, <3>4
        <4> QED BY <1>16, <3>2, <4>1 DEF Parts
      <3>6. ASSUME NEW j \in s.live + 1 .. n + 1 PROVE s.pos <= allocs'[j].first
        <4>1. CASE j = n + 1
          BY <1>3, <1>16, <1>18, <3>1, <3>3, <4>1
        <4>2. CASE j # n + 1
          <5>1. j \in s.live + 1 .. n /\ j \in 1 .. n
            BY <1>15, <3>1, <4>2
          <5> QED BY <1>16, <3>2, <5>1 DEF Parts
        <4> QED BY <4>1, <4>2
      <3>7. s.live <= n + 1
        BY <1>15, <3>1, <3>4
      <3> QED BY <1>16, <3>4, <3>5, <3>6, <3>7 DEF Parts, s
    <2> QED BY <1>22, <2>2 DEF TempsOK
  <1> QED BY <1>5, <1>7, <1>10, <1>14, <1>21, <1>23 DEF ArenaInv

LEMMA BeginStep == ASSUME ArenaInv, begin PROVE ArenaInv'
  <1> DEFINE t == [pos |-> pos, live |-> Len(allocs)]
             n == Len(temps)
  <1>1. /\ BlocksOK(blocks) /\ blocks # << >> /\ temps' = Append(temps, t)
        /\ UNCHANGED <<no_chain, blocks, dirty, allocs, clean>>
    BY DEF ArenaInv, begin
  <1>2. allocs \in Seq(AllocRecord) /\ Len(allocs) \in Nat
    BY DEF ArenaInv, AllocsOK
  <1>3. pos \in Nat /\ t \in [pos : Nat, live : Nat]
    BY <1>1, <1>2, PosIs
  <1>4. temps \in Seq([pos : Nat, live : Nat]) /\ n \in Nat
    BY DEF ArenaInv, TempsOK
  <1> HIDE DEF t
  <1>5. /\ temps' \in Seq([pos : Nat, live : Nat]) /\ Len(temps') = n + 1
        /\ temps'[n + 1] = t /\ \A i \in 1 .. n : temps'[i] = temps[i]
    BY <1>1, <1>3, <1>4
  <1>6. Parts(blocks, allocs, t)
    <2>1. HeldAt(blocks, t.pos) /\ t.live = Len(allocs) /\ t.pos = pos
      BY <1>1, PosIs DEF t
    <2>2. ASSUME NEW i \in 1 .. t.live PROVE allocs[i].first + allocs[i].size <= t.pos
      <3>1. allocs[i] \in AllocRecord
        BY <1>2, <2>1, ElementOfSeq
      <3>2. Placed(blocks, allocs[i])
        BY <2>1 DEF ArenaInv, AllocsOK
      <3> QED BY <1>1, <2>1, <3>1, <3>2, PosIs
    <2>3. \A i \in t.live + 1 .. Len(allocs) : FALSE
      BY <1>2, <2>1
    <2> QED BY <1>2, <2>1, <2>2, <2>3 DEF Parts
  <1>7. ASSUME NEW i \in 1 .. n
        PROVE  /\ Parts(blocks, allocs, temps[i])
               /\ temps[i].pos <= pos /\ temps[i].live <= Len(allocs)
    <2>1. Parts(blocks, allocs, temps[i])
      BY Zenon DEF ArenaInv, TempsOK
    <2>2. temps[i].pos \in Nat
      <3>1. temps[i] \in [pos : Nat, live : Nat]
        BY <1>4, ElementOfSeq
      <3> QED BY <3>1
    <2>3. temps[i].pos <= pos
      BY <1>1, <2>1, <2>2, PosIs DEF Parts
    <2> QED BY <2>1, <2>3 DEF Parts
  <1>8. ASSUME NEW i \in 1 .. n + 1 PROVE Parts(blocks', allocs', temps'[i])
    <2>1. CASE i = n + 1
      BY <1>1, <1>5, <1>6, <2>1
    <2>2. CASE i # n + 1
      <3>1. i \in 1 .. n /\ temps'[i] = temps[i]
        <4>1. i \in 1 .. n
          BY <1>4, <2>2
        <4> QED BY <1>5, <4>1
      <3> QED BY <1>1, <1>7, <3>1
    <2> QED BY <2>1, <2>2
  <1>9. ASSUME NEW i \in 1 .. n + 1, NEW j \in 1 .. n + 1, i < j
        PROVE  temps'[i].pos <= temps'[j].pos /\ temps'[i].live <= temps'[j].live
    <2>1. i \in 1 .. n /\ temps'[i] = temps[i]
      <3>1. i \in 1 .. n
        BY <1>4, <1>9
      <3> QED BY <1>5, <3>1
    <2>2. CASE j = n + 1
      <3>1. temps'[j].pos = pos /\ temps'[j].live = Len(allocs)
        BY <1>5, <2>2 DEF t
      <3> QED BY <1>7, <2>1, <3>1
    <2>3. CASE j # n + 1
      <3>1. j \in 1 .. n /\ temps'[j] = temps[j]
        <4>1. j \in 1 .. n
          BY <1>4, <2>3
        <4> QED BY <1>5, <4>1
      <3>2. temps[i].pos <= temps[j].pos /\ temps[i].live <= temps[j].live
        BY <1>9, <2>1, <3>1 DEF ArenaInv, TempsOK
      <3> QED BY <2>1, <3>1, <3>2
    <2> QED BY <2>2, <2>3
  <1>10. TempsOK(blocks', allocs', temps')
    BY <1>5, <1>8, <1>9 DEF TempsOK
  <1>11. BlocksOK(blocks') /\ DirtyOK(blocks', dirty') /\ AllocsOK(blocks', allocs', dirty')
    BY <1>1 DEF ArenaInv
  <1> QED BY <1>1, <1>10, <1>11 DEF ArenaInv

-----------------------------------------------------------------------------
(* Steps that pop *)

(* A pop that keeps the first allocations and the first Temps, to a        *)
(* position behind all of these and not behind what is dropped.            *)
LEMMA PopStep ==
  ASSUME ArenaInv, NEW p \in Nat, HeldAt(blocks, BigPos(p)), pop_to(p),
         NEW n \in 0 .. Len(allocs), allocs' = SubSeq(allocs, 1, n),
         \A i \in 1 .. n : allocs[i].first + allocs[i].size <= BigPos(p),
         NEW m \in 0 .. Len(temps), temps' = SubSeq(temps, 1, m),
         \A i \in 1 .. m : temps[i].pos <= BigPos(p) /\ temps[i].live <= n,
         UNCHANGED <<no_chain, clean>>
  PROVE  ArenaInv'
  <1> DEFINE q == BigPos(p)
             TempRecord == [pos : Nat, live : Nat]
  <1>1. q \in Nat /\ BlocksOK(blocks) /\ DirtyOK(blocks, dirty)
    BY DEF ArenaInv, BigPos, arena_header_size
  <1>2. CutAt(blocks, blocks', q)
    BY <1>1, PopCuts
  <1>3. BlocksOK(blocks')
    BY <1>2 DEF CutAt
  <1>4. dirty' = {c \in dirty : \E i \in 1 .. Len(blocks') : c \in AllCells(blocks'[i])}
    <2> DEFINE ks == Kept(p)
               cs == [ks EXCEPT ![Len(ks)].pos = NewPos(p)]
    <2>1. blocks' = cs /\ dirty' = {c \in dirty : \E i \in 1 .. Len(ks) : c \in AllCells(ks[i])}
      BY DEF pop_to
    <2>2. BlocksOK(ks)
      <3>1. PICK k \in 1 .. Len(blocks) :
                /\ blocks[k].base_pos + 1 <= BigPos(p)
                /\ BigPos(p) <= blocks[k].base_pos + blocks[k].pos
        BY DEF HeldAt
      <3>2. ks = SubSeq(blocks, 1, k)
        BY <1>1, <3>1, KeptIs
      <3> QED BY <1>1, <3>2, FirstBlocks
    <2> HIDE DEF ks
    <2>3. Len(cs) = Len(ks) /\ \A i \in 1 .. Len(ks) :
              cs[i].base_pos = ks[i].base_pos /\ cs[i].res = ks[i].res
      <3>1. ks \in Seq(BlockRecord) /\ Len(ks) \in Nat
        BY <2>2 DEF BlocksOK
      <3>2. Len(cs) = Len(ks) /\ DOMAIN ks = 1 .. Len(ks)
        BY <3>1
      <3>3. ASSUME NEW i \in 1 .. Len(ks)
            PROVE  cs[i].base_pos = ks[i].base_pos /\ cs[i].res = ks[i].res
        <4>1. ks[i] \in BlockRecord
          BY <3>1, ElementOfSeq
        <4>2. cs[i] = IF i = Len(ks) THEN [ks[i] EXCEPT !.pos = NewPos(p)] ELSE ks[i]
          BY <3>2
        <4> HIDE DEF cs
        <4> QED BY <4>1, <4>2 DEF BlockRecord
      <3> QED BY <3>2, <3>3
    <2> HIDE DEF cs
    <2>4. \A i \in 1 .. Len(ks) : AllCells(cs[i]) = AllCells(ks[i])
      BY <2>3 DEF AllCells
    <2> QED BY <2>1, <2>3, <2>4
  <1> HIDE DEF q
  <1>5. /\ \A r \in Nat : HeldAt(blocks, r) /\ r <= q => HeldAt(blocks', r)
        /\ \A a \in AllocRecord :
              Placed(blocks, a) /\ a.first + a.size <= q => Placed(blocks', a)
    BY <1>1, <1>2, CutKeeps
  <1>6. /\ DirtyOK(blocks', dirty')
        /\ \A a \in AllocRecord :
              Placed(blocks', a) /\ Cells(a) \subseteq dirty => Cells(a) \subseteq dirty'
    BY <1>1, <1>2, <1>4, CutDirty
  <1>7. /\ allocs \in Seq(AllocRecord) /\ Len(allocs) \in Nat
        /\ temps \in Seq(TempRecord) /\ Len(temps) \in Nat
    BY DEF ArenaInv, AllocsOK, TempsOK
  <1>8. /\ allocs' \in Seq(AllocRecord) /\ Len(allocs') = n
        /\ \A i \in 1 .. n : allocs'[i] = allocs[i] /\ i \in 1 .. Len(allocs)
    BY <1>7
  <1> HIDE DEF TempRecord
  <1>9. /\ temps' \in Seq(TempRecord) /\ Len(temps') = m
        /\ \A i \in 1 .. m : temps'[i] = temps[i] /\ i \in 1 .. Len(temps)
    BY <1>7
  <1>10. AllocsOK(blocks', allocs', dirty')
    <2>1. ASSUME NEW i \in 1 .. n
          PROVE  Placed(blocks', allocs'[i]) /\ Cells(allocs'[i]) \subseteq dirty'
      <3>1. allocs[i] \in AllocRecord
        BY <1>7, <1>8, ElementOfSeq
      <3>2. Placed(blocks, allocs[i]) /\ Cells(allocs[i]) \subseteq dirty
        BY <1>8 DEF ArenaInv, AllocsOK
      <3>3. allocs[i].first + allocs[i].size <= q
        BY DEF q
      <3> QED BY <1>5, <1>6, <1>8, <3>1, <3>2, <3>3
    <2>2. ASSUME NEW i \in 1 .. n, NEW j \in 1 .. n, i < j
          PROVE  allocs'[i].first + allocs'[i].size <= allocs'[j].first
      <3>1. allocs[i].first + allocs[i].size <= allocs[j].first
        BY <1>8, <2>2 DEF ArenaInv, AllocsOK
      <3> QED BY <1>8, <3>1
    <2> QED BY <1>8, <2>1, <2>2 DEF AllocsOK
  <1>11. TempsOK(blocks', allocs', temps')
    <2>1. ASSUME NEW i \in 1 .. m
          PROVE  Parts(blocks', allocs', temps'[i])
      <3> DEFINE s == temps[i]
      <3>1. s.pos \in Nat /\ s.live \in Nat
        <4>1. s \in TempRecord
          BY <1>7, <1>9, ElementOfSeq
        <4> QED BY <4>1 DEF TempRecord
      <3>2. Parts(blocks, allocs, s)
        BY <1>9 DEF ArenaInv, TempsOK
      <3>3. s.pos <= q /\ s.live <= n
        BY DEF q
      <3>4. temps'[i] = s
        BY <1>9
      <3> HIDE DEF s
      <3>5. HeldAt(blocks', s.pos)
        BY <1>5, <3>1, <3>2, <3>3 DEF Parts
      <3>6. \A j \in 1 .. s.live : allocs'[j].first + allocs'[j].size <= s.pos
        <4>1. \A j \in 1 .. s.live : j \in 1 .. n
          BY <1>7, <3>1, <3>3
        <4> QED BY <1>8, <3>2, <4>1 DEF Parts
      <3>7. \A j \in s.live + 1 .. n : s.pos <= allocs'[j].first
        <4>1. \A j \in s.live + 1 .. n : j \in s.live + 1 .. Len(allocs) /\ j \in 1 .. n
          BY <1>7, <3>1, <3>3
        <4> QED BY <1>8, <3>2, <4>1 DEF Parts
      <3> QED BY <1>8, <3>3, <3>4, <3>5, <3>6, <3>7 DEF Parts
    <2>2. ASSUME NEW i \in 1 .. m, NEW j \in 1 .. m, i < j
          PROVE  temps'[i].pos <= temps'[j].pos /\ temps'[i].live <= temps'[j].live
      <3>1. temps[i].pos <= temps[j].pos /\ temps[i].live <= temps[j].live
        BY <1>9, <2>2 DEF ArenaInv, TempsOK
      <3> QED BY <1>9, <3>1
    <2> QED BY <1>9, <2>1, <2>2 DEF TempsOK, TempRecord
  <1> QED BY <1>3, <1>6, <1>10, <1>11 DEF ArenaInv

LEMMA Induction ==
  ASSUME NEW S, 0 \in S, \A n \in Nat : n \in S => n + 1 \in S
  PROVE  Nat \subseteq S
  <1> DEFINE T == Nat \ S
  <1> SUFFICES ASSUME T # {} PROVE FALSE
    OBVIOUS
  <1>1. PICK x \in T : \A y \in T : ~ (<<y, x>> \in OpToRel(<, Nat))
    BY WFMin, NatLessThanWellFounded, T \subseteq Nat, Zenon
  <1>2. x \in Nat /\ x # 0
    OBVIOUS
  <1>3. x - 1 \in T
    BY <1>2
  <1>4. <<x - 1, x>> \in OpToRel(<, Nat)
    BY <1>2, SMT DEF OpToRel
  <1> QED BY <1>1, <1>3, <1>4

(* The sums of the sizes of the last allocations, summed up one by one. *)
SumsUp(sum, n) ==
    sum = [k \in 0 .. n |->
              IF k = 0 THEN 0 ELSE sum[k - 1] + allocs[Len(allocs) - k + 1].size]

LEMMA SumsExist ==
  ASSUME NEW n \in Nat
  PROVE  \E sum : SumsUp(sum, n)
  <1> DEFINE S == {m \in Nat : \E sum : SumsUp(sum, m)}
             size(k) == allocs[Len(allocs) - k + 1].size
  <1>1. 0 \in S
    <2> DEFINE g == [k \in 0 .. 0 |-> 0]
    <2>1. g = [k \in 0 .. 0 |-> IF k = 0 THEN 0 ELSE g[k - 1] + size(k)]
      OBVIOUS
    <2> HIDE DEF g
    <2>2. SumsUp(g, 0)
      BY <2>1 DEF SumsUp
    <2> QED BY <2>2
  <1>2. ASSUME NEW m \in Nat, m \in S PROVE m + 1 \in S
    <2>1. PICK f : SumsUp(f, m)
      BY <1>2
    <2> DEFINE g == [k \in 0 .. m + 1 |-> IF k = m + 1 THEN f[m] + size(m + 1) ELSE f[k]]
    <2>2. ASSUME NEW k \in 0 .. m + 1
          PROVE  g[k] = IF k = 0 THEN 0 ELSE g[k - 1] + size(k)
      <3>1. CASE k = m + 1
        <4>1. k # 0 /\ k - 1 = m /\ m \in 0 .. m + 1 /\ m # m + 1
          BY <3>1
        <4>2. g[m] = f[m]
          BY <4>1
        <4>3. g[k] = f[m] + size(m + 1)
          BY <3>1
        <4> HIDE DEF g, size
        <4> QED BY <3>1, <4>1, <4>2, <4>3
      <3>2. CASE k # m + 1
        <4>1. k \in 0 .. m /\ (k # 0 => k - 1 \in 0 .. m + 1 /\ k - 1 # m + 1)
          BY <3>2
        <4>2. g[k] = f[k] /\ (k # 0 => g[k - 1] = f[k - 1])
          BY <3>2, <4>1
        <4>3. f[k] = IF k = 0 THEN 0 ELSE f[k - 1] + size(k)
          BY <2>1, <4>1 DEF SumsUp
        <4> HIDE DEF g, size
        <4> QED BY <4>2, <4>3
      <3> QED BY <3>1, <3>2
    <2>3. g = [k \in 0 .. m + 1 |-> g[k]]
      OBVIOUS
    <2> HIDE DEF g
    <2>4. g = [k \in 0 .. m + 1 |-> IF k = 0 THEN 0 ELSE g[k - 1] + size(k)]
      BY <2>2, <2>3
    <2>5. SumsUp(g, m + 1)
      BY <2>4 DEF SumsUp
    <2> QED BY <2>5
  <1> HIDE DEF S
  <1>3. n \in S
    BY <1>1, <1>2, Induction
  <1> QED BY <1>3 DEF S

(* Allocations lie apart, so the sizes of the last ones add up to no more  *)
(* than the way from the first of these to the position.                   *)
LEMMA SizeOfLastIs ==
  ASSUME ArenaInv, blocks # << >>, NEW n \in 1 .. Len(allocs)
  PROVE  /\ SizeOfLast(n) \in Nat /\ allocs[Len(allocs) - n + 1].first \in Nat
         /\ SizeOfLast(n) + allocs[Len(allocs) - n + 1].first <= pos
  <1> DEFINE N == Len(allocs)
             a(k) == allocs[N - k + 1]
  <1>1. allocs \in Seq(AllocRecord) /\ N \in Nat /\ n \in Nat /\ n # 0 /\ n <= N
    BY DEF ArenaInv, AllocsOK
  <1>2. PICK sum : SumsUp(sum, n)
    BY <1>1, SumsExist
  <1> DEFINE g == CHOOSE f : SumsUp(f, n)
  <1>3. SumsUp(g, n)
    BY <1>2
  <1>4. SizeOfLast(n) = g[n]
    BY Zenon DEF SizeOfLast, SumsUp
  <1> HIDE DEF g
  <1>5. pos \in Nat
    BY PosIs DEF ArenaInv
  <1>6. ASSUME NEW k \in 1 .. n
        PROVE  /\ a(k).first \in Nat /\ a(k).size \in Nat
               /\ a(k).first + a(k).size <= pos
    <2>1. N - k + 1 \in 1 .. Len(allocs)
      BY <1>1
    <2>2. a(k) \in AllocRecord
      BY <1>1, <2>1, ElementOfSeq
    <2>3. Placed(blocks, a(k))
      BY <2>1 DEF ArenaInv, AllocsOK
    <2>4. a(k).first + a(k).size <= pos
      BY <2>2, <2>3, PosIs DEF ArenaInv
    <2> QED BY <2>2, <2>4 DEF AllocRecord
  <1>7. ASSUME NEW k \in 1 .. n, k # 1
        PROVE  a(k).first + a(k).size <= a(k - 1).first
    <2>1. /\ N - k + 1 \in 1 .. Len(allocs) /\ N - (k - 1) + 1 \in 1 .. Len(allocs)
          /\ N - k + 1 < N - (k - 1) + 1
      BY <1>1, <1>7
    <2> QED BY <2>1 DEF ArenaInv, AllocsOK
  <1>8. g[0] = 0 /\ \A k \in 1 .. n : g[k] = g[k - 1] + a(k).size
    <2>1. \A k \in 0 .. n : g[k] = IF k = 0 THEN 0 ELSE g[k - 1] + a(k).size
      BY <1>3 DEF SumsUp
    <2>2. 0 \in 0 .. n /\ \A k \in 1 .. n : k \in 0 .. n /\ k # 0
      BY <1>1
    <2> QED BY <2>1, <2>2
  <1> HIDE DEF a
  <1> DEFINE S == {m \in Nat : m + 1 \in 1 .. n =>
                      /\ g[m + 1] \in Nat /\ g[m + 1] + a(m + 1).first <= pos}
  <1>9. 0 \in S
    <2>1. 1 \in 1 .. n
      BY <1>1
    <2>2. g[1] = 0 + a(1).size
      BY <1>8, <2>1
    <2>3. a(1).first \in Nat /\ a(1).size \in Nat /\ a(1).first + a(1).size <= pos
      BY <1>6, <2>1
    <2> QED BY <1>5, <2>2, <2>3
  <1>10. ASSUME NEW m \in Nat, m \in S PROVE m + 1 \in S
    <2> DEFINE k == m + 2
    <2>1. SUFFICES ASSUME k \in 1 .. n PROVE g[k] \in Nat /\ g[k] + a(k).first <= pos
      <3>1. m + 1 + 1 = k
        OBVIOUS
      <3> HIDE DEF k
      <3> QED BY <3>1
    <2>2. k - 1 = m + 1 /\ m + 1 \in 1 .. n /\ k # 1
      BY <1>1, <2>1
    <2> HIDE DEF k
    <2>3. g[k - 1] \in Nat /\ g[k - 1] + a(k - 1).first <= pos
      BY <1>10, <2>2
    <2>4. g[k] = g[k - 1] + a(k).size
      BY <1>8, <2>1
    <2>5. a(k).first \in Nat /\ a(k).size \in Nat /\ a(k - 1).first \in Nat
      BY <1>6, <2>1, <2>2
    <2>6. a(k).first + a(k).size <= a(k - 1).first
      BY <1>7, <2>1, <2>2
    <2> QED BY <1>5, <2>3, <2>4, <2>5, <2>6
  <1> HIDE DEF S
  <1>11. n - 1 \in S
    <2>1. n - 1 \in Nat
      BY <1>1
    <2> QED BY <1>9, <1>10, <2>1, Induction
  <1>12. g[n] \in Nat /\ g[n] + a(n).first <= pos
    <2>1. n - 1 + 1 = n /\ n \in 1 .. n
      BY <1>1
    <2> QED BY <1>11, <2>1 DEF S
  <1> QED BY <1>1, <1>4, <1>6, <1>12 DEF a

(* A Temp's position is held, and so the end() of it pops to it. *)
LEMMA EndsAt ==
  ASSUME ArenaInv, blocks # << >>, temps # << >>
  PROVE  LET t == Last(temps)
         IN  /\ Len(temps) \in Nat \ {0} /\ t = temps[Len(temps)]
             /\ t.pos \in Nat /\ t.live \in 0 .. Len(allocs) /\ Parts(blocks, allocs, t)
             /\ BigPos(t.pos) = t.pos /\ HeldAt(blocks, BigPos(t.pos))
  <1> DEFINE t == Last(temps)
  <1>1. temps \in Seq([pos : Nat, live : Nat])
    BY DEF ArenaInv, TempsOK
  <1>2. Len(temps) \in Nat \ {0} /\ t = temps[Len(temps)] /\ Len(temps) \in 1 .. Len(temps)
    BY <1>1 DEF Last
  <1>3. t \in [pos : Nat, live : Nat]
    <2>1. temps[Len(temps)] \in [pos : Nat, live : Nat]
      BY <1>1, <1>2, ElementOfSeq
    <2> QED BY <1>2, <2>1
  <1>4. Parts(blocks, allocs, t)
    BY <1>2 DEF ArenaInv, TempsOK
  <1> HIDE DEF t
  <1>5. t.pos \in Nat /\ t.live \in Nat /\ t.live <= Len(allocs)
    BY <1>3, <1>4 DEF Parts
  <1>6. 1 <= t.pos
    <2>1. PICK k \in 1 .. Len(blocks) : blocks[k].base_pos + 1 <= t.pos
      BY <1>4 DEF Parts, HeldAt
    <2>2. blocks[k].base_pos \in Nat
      BY BlockIs DEF ArenaInv
    <2> QED BY <1>5, <2>1, <2>2
  <1>7. BigPos(t.pos) = t.pos
    BY <1>5, <1>6 DEF BigPos, arena_header_size
  <1>8. Len(allocs) \in Nat
    BY DEF ArenaInv, AllocsOK
  <1> QED BY <1>2, <1>4, <1>5, <1>7, <1>8 DEF Parts, t

LEMMA EndStep == ASSUME ArenaInv, end PROVE ArenaInv'
  <1> DEFINE t == Last(temps)
             m == Len(temps) - 1
  <1>1. /\ blocks # << >> /\ temps # << >> /\ pop_to(t.pos)
        /\ allocs' = SubSeq(allocs, 1, t.live) /\ temps' = SubSeq(temps, 1, m)
        /\ UNCHANGED <<no_chain, clean>>
    BY DEF end, Front
  <1>2. /\ Len(temps) \in Nat \ {0} /\ t = temps[Len(temps)]
        /\ t.pos \in Nat /\ t.live \in 0 .. Len(allocs) /\ Parts(blocks, allocs, t)
        /\ BigPos(t.pos) = t.pos /\ HeldAt(blocks, BigPos(t.pos))
    BY <1>1, EndsAt
  <1> HIDE DEF t
  <1>3. \A i \in 1 .. t.live : allocs[i].first + allocs[i].size <= BigPos(t.pos)
    BY <1>2 DEF Parts
  <1>4. ASSUME NEW i \in 1 .. m
        PROVE  temps[i].pos <= BigPos(t.pos) /\ temps[i].live <= t.live
    <2>1. i \in 1 .. Len(temps) /\ Len(temps) \in 1 .. Len(temps) /\ i < Len(temps)
      BY <1>2
    <2>2. temps[i].pos <= temps[Len(temps)].pos /\ temps[i].live <= temps[Len(temps)].live
      BY <2>1 DEF ArenaInv, TempsOK
    <2> QED BY <1>2, <2>2
  <1>5. m \in 0 .. Len(temps)
    BY <1>2
  <1> HIDE DEF m
  <1> QED BY <1>1, <1>2, <1>3, <1>4, <1>5, PopStep

(* Popping the last allocations of the current block ends at a position of *)
(* that block which is not below the first of them.                        *)
LEMMA PopsTo ==
  ASSUME ArenaInv, blocks # << >>, NEW n \in Poppable
  PROVE  LET p == AfterPop(SizeOfLast(n))
         IN  /\ n \in 1 .. Len(allocs) /\ p \in Nat /\ BigPos(p) = p /\ HeldAt(blocks, p)
             /\ p <= pos /\ allocs[Len(allocs) - n + 1].first <= p
             /\ temps # << >> => Last(temps).live <= Len(allocs) - n
  <1> DEFINE p == AfterPop(SizeOfLast(n))
             a == allocs[Len(allocs) - n + 1]
             N == Len(blocks)
             older == IF temps = << >> THEN 0 ELSE Last(temps).live
  <1>1. n \in 1 .. Len(allocs) - older /\ a.first > Last(blocks).base_pos
    BY DEF Poppable
  <1>2. Len(allocs) \in Nat /\ BlocksOK(blocks)
    BY DEF ArenaInv, AllocsOK
  <1>3. older \in Nat
    <2>1. temps # << >> => Last(temps).live \in 0 .. Len(allocs)
      BY EndsAt
    <2> QED BY <1>2, <2>1
  <1>4. n \in 1 .. Len(allocs) /\ older <= Len(allocs) - n
    <2> HIDE DEF older
    <2> QED BY <1>1, <1>2, <1>3
  <1>5. SizeOfLast(n) \in Nat /\ a.first \in Nat /\ SizeOfLast(n) + a.first <= pos
    BY <1>4, SizeOfLastIs
  <1>6. pos \in Nat /\ pos = Last(blocks).base_pos + Last(blocks).pos
    BY <1>2, PosIs DEF pos
  <1>7. N \in 1 .. N /\ Last(blocks) = blocks[N]
    BY <1>2, LastIs
  <1>8. blocks[N].base_pos \in Nat /\ blocks[N].pos \in Nat
    BY <1>2, <1>7, BlockIs
  <1> HIDE DEF a
  <1>9. p = pos - SizeOfLast(n)
    <2>1. SizeOfLast(n) < pos
      BY <1>1, <1>5, <1>6, <1>7, <1>8
    <2> QED BY <2>1 DEF AfterPop
  <1>10. p \in Nat /\ a.first <= p /\ p <= pos
    BY <1>5, <1>6, <1>9
  <1> HIDE DEF p
  <1>11. blocks[N].base_pos + 1 <= p /\ p <= blocks[N].base_pos + blocks[N].pos
    BY <1>1, <1>5, <1>6, <1>7, <1>8, <1>10
  <1>12. HeldAt(blocks, p)
    BY <1>7, <1>11 DEF HeldAt
  <1>13. BigPos(p) = p
    BY <1>8, <1>10, <1>11 DEF BigPos, arena_header_size
  <1> QED BY <1>4, <1>10, <1>12, <1>13 DEF a, p

LEMMA PopsStep == ASSUME ArenaInv, NEW n \in Poppable, pop(n) PROVE ArenaInv'
  <1> DEFINE p == AfterPop(SizeOfLast(n))
             k == Len(allocs) - n
             a == allocs[Len(allocs) - n + 1]
             m == Len(temps)
  <1>1. /\ blocks # << >> /\ pop_to(p) /\ allocs' = SubSeq(allocs, 1, k)
        /\ UNCHANGED <<no_chain, temps, clean>>
    BY DEF pop
  <1>2. /\ n \in 1 .. Len(allocs) /\ p \in Nat /\ BigPos(p) = p /\ HeldAt(blocks, p)
        /\ a.first <= p
        /\ temps # << >> => Last(temps).live <= k
    BY <1>1, PopsTo
  <1>3. /\ allocs \in Seq(AllocRecord) /\ Len(allocs) \in Nat
        /\ temps \in Seq([pos : Nat, live : Nat]) /\ m \in Nat
    BY DEF ArenaInv, AllocsOK, TempsOK
  <1>4. k \in 0 .. Len(allocs) /\ k + 1 \in 1 .. Len(allocs) /\ a = allocs[k + 1]
    BY <1>2, <1>3
  <1>5. a.first \in Nat
    <2>1. a \in AllocRecord
      BY <1>3, <1>4, ElementOfSeq
    <2> QED BY <2>1 DEF AllocRecord
  <1> HIDE DEF p, k, a
  <1>6. ASSUME NEW i \in 1 .. k PROVE allocs[i].first + allocs[i].size <= BigPos(p)
    <2>1. i \in 1 .. Len(allocs) /\ i < k + 1
      BY <1>3, <1>4
    <2>2. allocs[i].first + allocs[i].size <= a.first
      BY <1>4, <2>1 DEF ArenaInv, AllocsOK
    <2>3. allocs[i].first \in Nat /\ allocs[i].size \in Nat
      <3>1. allocs[i] \in AllocRecord
        BY <1>3, <2>1, ElementOfSeq
      <3> QED BY <3>1 DEF AllocRecord
    <2> QED BY <1>2, <1>5, <2>2, <2>3
  <1>7. ASSUME NEW i \in 1 .. m PROVE temps[i].pos <= BigPos(p) /\ temps[i].live <= k
    <2>1. temps # << >> /\ m \in 1 .. m /\ Last(temps) = temps[m]
      <3>1. temps # << >>
        BY <1>3
      <3> QED BY <1>1, <3>1, <1>3 DEF Last
    <2>2. \A j \in 1 .. m : temps[j].pos \in Nat /\ temps[j].live \in Nat
      <3> SUFFICES ASSUME NEW j \in 1 .. m PROVE temps[j].pos \in Nat /\ temps[j].live \in Nat
        OBVIOUS
      <3>1. temps[j] \in [pos : Nat, live : Nat]
        BY <1>3, ElementOfSeq
      <3> QED BY <3>1
    <2>3. temps[i].live <= k
      <3>1. temps[m].live <= k
        BY <1>2, <2>1
      <3>2. i = m \/ i < m
        BY <1>3
      <3>3. i < m => temps[i].live <= temps[m].live
        BY <2>1 DEF ArenaInv, TempsOK
      <3> QED BY <1>4, <2>1, <2>2, <3>1, <3>2, <3>3
    <2>4. temps[i].pos <= a.first
      <3>1. Parts(blocks, allocs, temps[i])
        BY Zenon DEF ArenaInv, TempsOK
      <3>2. k + 1 \in temps[i].live + 1 .. Len(allocs)
        BY <1>3, <1>4, <2>2, <2>3
      <3> QED BY <1>4, <3>1, <3>2 DEF Parts
    <2> QED BY <1>2, <1>5, <2>2, <2>3, <2>4
  <1>8. temps' = SubSeq(temps, 1, m) /\ m \in 0 .. Len(temps)
    <2>1. SubSeq(temps, 1, Len(temps)) = temps
      BY <1>3
    <2> QED BY <1>1, <1>3, <2>1
  <1> HIDE DEF m
  <1>9. HeldAt(blocks, BigPos(p)) /\ UNCHANGED <<no_chain, clean>>
    BY <1>1, <1>2
  <1> QED BY <1>1, <1>2, <1>4, <1>6, <1>7, <1>8, <1>9, PopStep

LEMMA ZeroIsHeld ==
  ASSUME ArenaInv, blocks # << >>
  PROVE  HeldAt(blocks, BigPos(0))
  <1>1. BigPos(0) = 1
    BY DEF BigPos, arena_header_size
  <1>2. BlocksOK(blocks) /\ Len(blocks) \in Nat \ {0}
    BY LastIs DEF ArenaInv
  <1>3. 1 \in 1 .. Len(blocks)
    BY <1>2
  <1>4. blocks[1].base_pos = 0
    BY <1>2, <1>3 DEF BlocksOK
  <1>5. blocks[1].pos \in Nat /\ 1 <= blocks[1].pos
    BY <1>2, <1>3, BlockIs
  <1>6. blocks[1].base_pos + 1 <= 1 /\ 1 <= blocks[1].base_pos + blocks[1].pos
    BY <1>4, <1>5
  <1> QED BY <1>1, <1>3, <1>6 DEF HeldAt

LEMMA ClearStep == ASSUME ArenaInv, clear PROVE ArenaInv'
  <1>1. /\ blocks # << >> /\ pop_to(0) /\ allocs' = << >> /\ temps' = << >>
        /\ UNCHANGED <<no_chain, clean>>
    BY DEF clear
  <1>2. BigPos(0) = 1
    BY DEF BigPos, arena_header_size
  <1>3. HeldAt(blocks, 1)
    BY <1>1, <1>2, ZeroIsHeld
  <1>4. /\ allocs \in Seq(AllocRecord) /\ Len(allocs) \in Nat
        /\ temps \in Seq([pos : Nat, live : Nat]) /\ Len(temps) \in Nat
    BY DEF ArenaInv, AllocsOK, TempsOK
  <1>5. allocs' = SubSeq(allocs, 1, 0) /\ temps' = SubSeq(temps, 1, 0)
    BY <1>1, <1>4
  <1>6. 0 \in 0 .. Len(allocs) /\ 0 \in 0 .. Len(temps) /\ \A i \in 1 .. 0 : FALSE
    BY <1>4
  <1>7. /\ \A i \in 1 .. 0 : allocs[i].first + allocs[i].size <= BigPos(0)
        /\ \A i \in 1 .. 0 : temps[i].pos <= BigPos(0) /\ temps[i].live <= 0
    BY <1>6
  <1>8. HeldAt(blocks, BigPos(0)) /\ UNCHANGED <<no_chain, clean>> /\ 0 \in Nat
    BY <1>1, <1>2, <1>3
  <1> QED BY <1>1, <1>5, <1>6, <1>7, <1>8, PopStep

(* Nothing is left of an arena that was released. *)
LEMMA NothingWithoutBlocks ==
  ASSUME ArenaInv, blocks = << >>
  PROVE  dirty = {} /\ allocs = << >> /\ temps = << >>
  <1>1. \A k \in 1 .. Len(blocks) : FALSE
    <2>1. Len(blocks) = 0
      OBVIOUS
    <2> QED BY <2>1
  <1>2. dirty = {}
    BY <1>1 DEF ArenaInv, DirtyOK, CommittedCell
  <1>3. /\ allocs \in Seq(AllocRecord) /\ Len(allocs) \in Nat
        /\ temps \in Seq([pos : Nat, live : Nat]) /\ Len(temps) \in Nat
    BY DEF ArenaInv, AllocsOK, TempsOK
  <1>4. \A i \in 1 .. Len(allocs) : FALSE
    BY <1>1 DEF ArenaInv, AllocsOK, Placed
  <1>5. \A i \in 1 .. Len(temps) : FALSE
    BY <1>1 DEF ArenaInv, TempsOK, Parts, HeldAt
  <1>6. Len(allocs) = 0 /\ Len(temps) = 0
    <2>1. Len(allocs) > 0 => 1 \in 1 .. Len(allocs)
      BY <1>3
    <2>2. Len(temps) > 0 => 1 \in 1 .. Len(temps)
      BY <1>3
    <2> QED BY <1>3, <1>4, <1>5, <2>1, <2>2
  <1> QED BY <1>2, <1>3, <1>6, EmptySeq

LEMMA StepKeepsInv == ArenaInv /\ [Next]_vars => ArenaInv'
  <1> SUFFICES ASSUME ArenaInv, [Next]_vars PROVE ArenaInv'
    OBVIOUS
  <1>1. CASE \E size \in Sizes, align \in Alignments, zero \in BOOLEAN : push(size, align, zero)
    BY <1>1, PushStep
  <1>2. CASE \E size \in Sizes, align \in Alignments : push_fails(size, align)
    BY <1>2, FailingPushStep
  <1>3. CASE begin
    BY <1>3, BeginStep
  <1>4. CASE end
    BY <1>4, EndStep
  <1>5. CASE clear
    BY <1>5, ClearStep
  <1>6. CASE release
    <2>1. /\ blocks' = << >> /\ dirty' = {} /\ allocs' = << >> /\ temps' = << >>
          /\ UNCHANGED <<no_chain, clean>>
      BY <1>6 DEF release
    <2>2. BlocksOK(<< >>)
      <3>1. << >> \in Seq(BlockRecord) /\ 1 .. Len(<< >>) = 1 .. 0 /\ \A i \in 1 .. 0 : FALSE
        <4>1. Len(<< >>) = 0 /\ << >> \in Seq(BlockRecord)
          OBVIOUS
        <4>2. \A i \in 1 .. 0 : FALSE
          OBVIOUS
        <4> QED BY <4>1, <4>2
      <3> QED BY <3>1, Zenon DEF BlocksOK
    <2>3. DirtyOK(<< >>, {}) /\ AllocsOK(<< >>, << >>, {}) /\ TempsOK(<< >>, << >>, << >>)
      BY EmptyIsOK
    <2>4. BlocksOK(blocks') /\ DirtyOK(blocks', dirty') /\ AllocsOK(blocks', allocs', dirty')
          /\ TempsOK(blocks', allocs', temps')
      BY <2>1, <2>2, <2>3
    <2> QED BY <2>1, <2>4 DEF ArenaInv
  <1>7. CASE allocate
    <2>1. /\ blocks = << >> /\ no_chain' \in Flags /\ blocks' = allocated
          /\ UNCHANGED <<dirty, allocs, temps, clean>>
      BY <1>7 DEF allocate
    <2>2. no_chain' \in BOOLEAN
      BY <2>1, ArenaAssumption
    <2>3. BlocksOK(blocks')
      BY <2>1, AllocatedIsOK
    <2>4. dirty = {} /\ allocs = << >> /\ temps = << >>
      BY <2>1, NothingWithoutBlocks
    <2>5. DirtyOK(blocks', dirty') /\ AllocsOK(blocks', allocs', dirty')
          /\ TempsOK(blocks', allocs', temps')
      BY <2>1, <2>4, EmptyIsOK
    <2> QED BY <2>1, <2>2, <2>3, <2>5 DEF ArenaInv
  <1>8. CASE \E n \in Poppable : pop(n)
    BY <1>8, PopsStep
  <1>9. CASE UNCHANGED vars
    <2>1. /\ no_chain' = no_chain /\ blocks' = blocks /\ dirty' = dirty
          /\ allocs' = allocs /\ temps' = temps /\ clean' = clean
      BY <1>9 DEF vars
    <2> QED BY <2>1 DEF ArenaInv
  <1>10. \/ \E size \in Sizes, align \in Alignments, zero \in BOOLEAN : push(size, align, zero)
         \/ \E size \in Sizes, align \in Alignments : push_fails(size, align)
         \/ begin \/ end \/ clear \/ release \/ allocate
         \/ \E n \in Poppable : pop(n)
         \/ UNCHANGED vars
    BY Zenon DEF Next
  <1> QED BY <1>1, <1>2, <1>3, <1>4, <1>5, <1>6, <1>7, <1>8, <1>9, <1>10

LEMMA AlwaysInv == Spec => []ArenaInv
  BY InitInv, StepKeepsInv, PTL DEF Spec

-----------------------------------------------------------------------------
(* What holds of every arena *)

LEMMA InvTyped == ArenaInv => TypeOK
  <1> SUFFICES ASSUME ArenaInv PROVE TypeOK
    OBVIOUS
  <1>1. BlocksOK(blocks) /\ DirtyOK(blocks, dirty) /\ clean \in BOOLEAN
    BY DEF ArenaInv
  <1>2. ASSUME NEW i \in 1 .. Len(blocks)
        PROVE  /\ arena_header_size <= blocks[i].pos /\ blocks[i].pos <= blocks[i].cmt
               /\ blocks[i].cmt <= blocks[i].res
               /\ blocks[i].base_pos =
                     IF i = 1 THEN 0 ELSE blocks[i - 1].base_pos + blocks[i - 1].res
    <2>1. 1 <= blocks[i].pos /\ blocks[i].pos <= blocks[i].cmt /\ blocks[i].cmt <= blocks[i].res
      BY <1>1, BlockIs
    <2>2. blocks[i].base_pos =
              IF i = 1 THEN 0 ELSE blocks[i - 1].base_pos + blocks[i - 1].res
      BY <1>1, Zenon DEF BlocksOK
    <2> QED BY <2>1, <2>2 DEF arena_header_size
  <1>3. ASSUME NEW c \in dirty
        PROVE  c \in UNION {AllCells(blocks[i]) : i \in 1 .. Len(blocks)}
    <2>1. c \in Int /\ CommittedCell(blocks, c)
      BY <1>1 DEF DirtyOK
    <2>2. PICK k \in 1 .. Len(blocks) :
              blocks[k].base_pos <= c /\ c < blocks[k].base_pos + blocks[k].cmt
      BY <2>1 DEF CommittedCell
    <2>3. /\ blocks[k].base_pos \in Nat /\ blocks[k].cmt \in Nat /\ blocks[k].res \in Nat
          /\ blocks[k].cmt <= blocks[k].res
      BY <1>1, BlockIs
    <2>4. blocks[k].base_pos <= c /\ c <= blocks[k].base_pos + blocks[k].res - 1
      BY <2>1, <2>2, <2>3
    <2>5. c \in AllCells(blocks[k])
      BY <2>1, <2>3, <2>4 DEF AllCells
    <2> QED BY <2>5
  <1> QED BY <1>1, <1>2, <1>3 DEF TypeOK

LEMMA InvKeepsAllocations == ArenaInv => AllocationsKept
  <1> SUFFICES ASSUME ArenaInv, NEW i \in 1 .. Len(allocs)
               PROVE  /\ allocs[i].size > 0 =>
                            \E k \in 1 .. Len(blocks) : Cells(allocs[i]) \subseteq Used(blocks[k])
                      /\ \A j \in 1 .. i - 1 : Cells(allocs[i]) \cap Cells(allocs[j]) = {}
                      /\ Cells(allocs[i]) \subseteq dirty
    BY Zenon DEF AllocationsKept
  <1>1. /\ allocs \in Seq(AllocRecord) /\ Len(allocs) \in Nat /\ BlocksOK(blocks)
        /\ Placed(blocks, allocs[i]) /\ Cells(allocs[i]) \subseteq dirty
    BY DEF ArenaInv, AllocsOK
  <1>2. \A j \in 1 .. Len(allocs) : allocs[j].first \in Nat /\ allocs[j].size \in Nat
    <2> SUFFICES ASSUME NEW j \in 1 .. Len(allocs)
                 PROVE  allocs[j].first \in Nat /\ allocs[j].size \in Nat
      OBVIOUS
    <2>1. allocs[j] \in AllocRecord
      BY <1>1, ElementOfSeq
    <2> QED BY <2>1 DEF AllocRecord
  <1>3. \E k \in 1 .. Len(blocks) : Cells(allocs[i]) \subseteq Used(blocks[k])
    <2>1. PICK k \in 1 .. Len(blocks) :
              /\ blocks[k].base_pos + 1 <= allocs[i].first
              /\ allocs[i].first + allocs[i].size <= blocks[k].base_pos + blocks[k].pos
      BY <1>1 DEF Placed
    <2>2. blocks[k].base_pos \in Nat /\ blocks[k].pos \in Nat
      BY <1>1, BlockIs
    <2>3. SUFFICES ASSUME NEW c \in Cells(allocs[i]) PROVE c \in Used(blocks[k])
      OBVIOUS
    <2>4. c \in Int /\ allocs[i].first <= c /\ c < allocs[i].first + allocs[i].size
      BY <1>2 DEF Cells
    <2>5. blocks[k].base_pos + 1 <= c /\ c <= blocks[k].base_pos + blocks[k].pos - 1
      <3> DEFINE u == allocs[i].first + allocs[i].size
                 v == blocks[k].base_pos + blocks[k].pos
      <3>1. u \in Nat /\ v \in Nat /\ u <= v /\ c < u
        <4>1. u \in Nat
          BY <1>2
        <4>2. v \in Nat
          BY <2>2
        <4>3. u <= v /\ c < u
          BY <2>1, <2>4
        <4> QED BY <4>1, <4>2, <4>3
      <3>2. blocks[k].base_pos + 1 <= c
        BY <1>2, <2>1, <2>2, <2>4
      <3> HIDE DEF u, v
      <3>3. c <= v - 1
        BY <2>4, <3>1
      <3> QED BY <2>2, <3>2, <3>3 DEF v
    <2> QED BY <2>2, <2>4, <2>5 DEF Used, arena_header_size
  <1>4. ASSUME NEW j \in 1 .. i - 1
        PROVE  Cells(allocs[i]) \cap Cells(allocs[j]) = {}
    <2>1. j \in 1 .. Len(allocs) /\ j < i
      BY <1>1
    <2>2. allocs[j].first + allocs[j].size <= allocs[i].first
      BY <2>1 DEF ArenaInv, AllocsOK
    <2>3. SUFFICES ASSUME NEW c \in Cells(allocs[i]), c \in Cells(allocs[j]) PROVE FALSE
      OBVIOUS
    <2>4. c \in Int /\ allocs[i].first <= c /\ c < allocs[j].first + allocs[j].size
      BY <1>2, <2>1, <2>3 DEF Cells
    <2> QED BY <1>2, <2>1, <2>2, <2>4
  <1> QED BY <1>1, <1>3, <1>4

(* Blocks are committed up to their limits and used up to their positions, *)
(* they lie behind one another without a gap, and nothing outside of them  *)
(* was written, whatever is pushed and popped.                             *)
THEOREM ArenaTyped == Spec => []TypeOK
  BY AlwaysInv, InvTyped, PTL

(* No push gives out a cell of an allocation that still lives, and no end  *)
(* of a Temp, pop or chained block takes one away or clears it: push       *)
(* (arena.cpp) and pop_to keep every allocation that is older than the     *)
(* position popped to.                                                     *)
THEOREM AllocationsStayKept == Spec => []AllocationsKept
  BY AlwaysInv, InvKeepsAllocations, PTL

(* push_array gives out zeros, though only the part below the commit limit *)
(* is cleared and the size of that part may underflow.                     *)
THEOREM ZeroedPushesAreClean == Spec => []ZeroedPushesClean
  <1>1. ArenaInv => ZeroedPushesClean
    BY DEF ArenaInv, ZeroedPushesClean
  <1> QED BY <1>1, AlwaysInv, PTL

(* The positions that end(), pop() and clear() may pop to now. *)
PopPositions ==
    {0} \cup {AfterPop(SizeOfLast(n)) : n \in Poppable}
        \cup (IF temps = << >> THEN {} ELSE {Last(temps).pos})

(* The SDL_assert of pop_to: the new position is not above the position of *)
(* the block that it finds.                                                *)
PopsNeverRaise ==
    blocks # << >> =>
        \A p \in PopPositions :
            NewPos(p) \in arena_header_size .. Last(Kept(p)).pos

(* The assertion of pop_to (arena.cpp:123) holds whatever clients push and *)
(* pop, as long as they close their Temps in the order they opened them.   *)
THEOREM PopsNeverRaisePositions == Spec => []PopsNeverRaise
  <1>1. ASSUME ArenaInv, blocks # << >>, NEW p \in PopPositions
        PROVE  NewPos(p) \in arena_header_size .. Last(Kept(p)).pos
    <2>1. p \in Nat /\ HeldAt(blocks, BigPos(p))
      <3>1. CASE p = 0
        BY <1>1, <3>1, ZeroIsHeld
      <3>2. CASE \E n \in Poppable : p = AfterPop(SizeOfLast(n))
        BY <1>1, <3>2, PopsTo
      <3>3. CASE temps # << >> /\ p = Last(temps).pos
        BY <1>1, <3>3, EndsAt
      <3> QED BY <3>1, <3>2, <3>3 DEF PopPositions
    <2>2. BlocksOK(blocks)
      BY <1>1 DEF ArenaInv
    <2>3. PICK k \in 1 .. Len(blocks) :
              /\ blocks[k].base_pos + 1 <= BigPos(p)
              /\ BigPos(p) <= blocks[k].base_pos + blocks[k].pos
      BY <2>1 DEF HeldAt
    <2>4. Kept(p) = SubSeq(blocks, 1, k)
      BY <2>1, <2>2, <2>3, KeptIs
    <2>5. /\ Len(SubSeq(blocks, 1, k)) = k
          /\ SubSeq(blocks, 1, k)[k] = blocks[k]
      <3>1. k \in 1 .. k
        BY <2>2 DEF BlocksOK
      <3> QED BY <2>2, <3>1, FirstBlocks
    <2>6. Last(Kept(p)) = blocks[k]
      BY <2>4, <2>5 DEF Last
    <2>7. blocks[k].base_pos \in Nat /\ blocks[k].pos \in Nat /\ BigPos(p) \in Nat
      BY <2>1, <2>2, BlockIs DEF BigPos, arena_header_size
    <2> QED BY <2>3, <2>6, <2>7 DEF NewPos, arena_header_size
  <1>2. ArenaInv => PopsNeverRaise
    BY <1>1 DEF PopsNeverRaise
  <1> QED BY <1>2, AlwaysInv, PTL

================================================================================
