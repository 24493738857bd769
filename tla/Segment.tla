------------------------------- MODULE Segment -------------------------------
(***************************************************************************)
(* nsegment: the buddy allocator of c_allocator_segment.cpp.               *)
(*                                                                         *)
(* A range of TotalUnits units of min_size bytes is divided at NumSizes    *)
(* block sizes; size index i stands for blocks of SegSize[i] units.  Each  *)
(* size has a level: a binmap whose bit b is set iff block b of that size  *)
(* is free.  A binmap is a tree of words of WordBits bits (64 in the code) *)
(* of up to three layers, bin0 the leaves; a layer is kept as the set of   *)
(* its bits that are 1.                                                    *)
(*                                                                         *)
(* The allocator is not thread safe: the calls of a client follow one      *)
(* another.  One iteration of the loop of allocate (split) and of          *)
(* deallocate (merge) is one step, so that the loops need no recursion and *)
(* their invariants are invariants of the specification; pc says in which  *)
(* loop the running call is.                                               *)
(***************************************************************************)
EXTENDS Integers, FiniteSets

CONSTANTS
  WordBits,     \* bits in a word of a binmap
  NumSizes,     \* m_num_sizes
  SegSize,      \* SegSize[i]: min_size << i, in units of min_size
  TotalUnits    \* total_size, in units of min_size

Sizes == 0..NumSizes-1

TopSize == NumSizes - 1

\* The word that holds a bit, which is also the number of the bit that
\* stands for that word one layer up (bit >> 6).
Word(bit) == bit \div WordBits

\* m_size of a level: the number of blocks of size index i.
LevelSize(i) == TotalUnits \div SegSize[i]

\* initialize asserts powers of two, min_size < max_size <= total_size and
\* at most 64*64*64 blocks of the smallest size.
ASSUME GeometryAssumption ==
  /\ WordBits \in Nat \ {0, 1} /\ WordBits % 2 = 0
  /\ NumSizes \in Nat \ {0, 1}
  /\ SegSize \in [Sizes -> Nat \ {0}]
  /\ SegSize[0] = 1
  /\ \A i \in Sizes \ {0} : SegSize[i] = 2 * SegSize[i-1]
  /\ TotalUnits \in Nat \ {0}
  /\ Word(Word(TotalUnits)) <= WordBits
  /\ \A i \in Sizes : /\ LevelSize(i) * SegSize[i] = TotalUnits
                      /\ LevelSize(i) < WordBits \/ LevelSize(i) % WordBits = 0
                      /\ \/ Word(LevelSize(i)) < WordBits
                         \/ Word(LevelSize(i)) % WordBits = 0

VARIABLES
  m_levels,     \* m_levels[i]: the binmap of size index i
  m_size_free,  \* the size indices whose bit is set in m_size_free
  pc,           \* "down", "idle", or the loop of the running call
  work,         \* the locals of the running call
  ret,          \* how the last call ended
  live          \* history: the blocks the client holds

vars == <<m_levels, m_size_free, pc, work, ret, live>>

-----------------------------------------------------------------------------
(* Binmaps                                                                 *)

LeastOf(S) == CHOOSE x \in S : \A y \in S : x <= y

\* The set bits of one word of a layer.
WordBitsOf(bin, w) == {b \in bin : Word(b) = w}

\* Mutant: the next bit in place of the buddy.
Buddy_Next(bit) == bit + 1

\* bit ^ 1
Buddy(bit) == IF bit % 2 = 0 THEN bit + 1 ELSE bit - 1

\* m_bin1 # nullptr and m_bin2 # nullptr: a layer of no bits is not created.
HasBin1(level) == Word(level.size) # 0
HasBin2(level) == Word(Word(level.size)) # 0

\* clr_bit: clear a bit, and above it the bit of every word that got empty.
ClrBit(level, bit) ==
  LET bin0 == level.bin0 \ {bit}
      up1  == HasBin1(level) /\ WordBitsOf(bin0, Word(bit)) = {}
      bin1 == IF up1 THEN level.bin1 \ {Word(bit)} ELSE level.bin1
      up2  == up1 /\ HasBin2(level) /\ WordBitsOf(bin1, Word(Word(bit))) = {}
      bin2 == IF up2 THEN level.bin2 \ {Word(Word(bit))} ELSE level.bin2
  IN  [level EXCEPT !.count = @ - 1, !.bin0 = bin0, !.bin1 = bin1, !.bin2 = bin2]

\* Set bits of one word (bit is one of them), and above them the bit of
\* every word that was empty: set_2bits, and set_bit when the buddy is not set.
SetBits(level, bits, bit) ==
  LET up1  == HasBin1(level) /\ WordBitsOf(level.bin0, Word(bit)) = {}
      bin1 == IF up1 THEN level.bin1 \cup {Word(bit)} ELSE level.bin1
      up2  == up1 /\ HasBin2(level) /\ WordBitsOf(level.bin1, Word(Word(bit))) = {}
      bin2 == IF up2 THEN level.bin2 \cup {Word(Word(bit))} ELSE level.bin2
  IN  [level EXCEPT !.count = @ + Cardinality(bits), !.bin0 = @ \cup bits,
                    !.bin1 = bin1, !.bin2 = bin2]

\* find_bit: the first set bit, found from the top layer down; -1 if none.
FindBit(level) ==
  LET w2  == IF HasBin2(level) THEN LeastOf(WordBitsOf(level.bin2, 0)) ELSE 0
      w1  == IF HasBin1(level) THEN LeastOf(WordBitsOf(level.bin1, w2)) ELSE 0
      bit == LeastOf(WordBitsOf(level.bin0, w1))
  IN  IF level.count # 0 /\ bit < level.size THEN bit ELSE -1

\* Mutant: the bit of m_size_free is never cleared.
SizeFreeAfterClr_Never(i, level) == m_size_free

\* The bit of m_size_free after a bit of a level was cleared: clr_bit returns
\* 0 when the level has no set bit left.
SizeFreeAfterClr(i, level) ==
  IF level.count = 0 THEN m_size_free \ {i} ELSE m_size_free

-----------------------------------------------------------------------------
(* initialize and teardown                                                 *)

\* create_level for the three layers: all ones at the maximum level.
NewLevel(i) ==
  LET ones(n) == IF i = TopSize THEN 0..n-1 ELSE {}
      n == LevelSize(i)
  IN  [count |-> IF i = TopSize THEN n ELSE 0, size |-> n,
       bin0 |-> ones(n), bin1 |-> ones(Word(n)), bin2 |-> ones(Word(Word(n)))]

NoLevel == [count |-> 0, size |-> 0, bin0 |-> {}, bin1 |-> {}, bin2 |-> {}]

NoWork == [index |-> 0, level |-> 0, bit |-> -1]

Init ==
  /\ m_levels = [i \in Sizes |-> NoLevel]
  /\ m_size_free = {}
  /\ pc = "down"
  /\ work = NoWork
  /\ ret = "none"
  /\ live = {}

Initialize ==
  /\ pc = "down"
  /\ m_levels' = [i \in Sizes |-> NewLevel(i)]
  /\ m_size_free' = {TopSize}
  /\ pc' = "idle"
  /\ UNCHANGED <<work, ret, live>>

\* The level arrays are freed; whatever the client still held is gone.
Teardown ==
  /\ pc = "idle"
  /\ m_levels' = [i \in Sizes |-> NoLevel]
  /\ m_size_free' = {}
  /\ pc' = "down"
  /\ work' = NoWork
  /\ ret' = "none"
  /\ live' = {}

-----------------------------------------------------------------------------
(* allocate                                                                *)

\* The smallest size with a free block that is at least the requested one
\* (the lowest bit of m_size_free & (0xffffffff << size_index)).
FreeIndex(i) == LeastOf({k \in m_size_free : k >= i})

\* Mutant: larger free blocks are not looked at.
FoundBit_ExactSize(i) == IF i \in m_size_free THEN FindBit(m_levels[i]) ELSE -1

\* The block allocate starts from, as the bit of its level; -1 if none.
FoundBit(i) ==
  IF \A k \in m_size_free : k < i THEN -1 ELSE FindBit(m_levels[FreeIndex(i)])

AllocateFails(i) ==
  /\ pc = "idle"
  /\ FoundBit(i) = -1
  /\ work' = [index |-> i, level |-> i, bit |-> -1]
  /\ ret' = "oom"
  /\ UNCHANGED <<m_levels, m_size_free, pc, live>>

AllocateFinds(i) ==
  /\ pc = "idle"
  /\ FoundBit(i) # -1
  /\ work' = [index |-> i, level |-> FreeIndex(i), bit |-> FoundBit(i)]
  /\ pc' = "split"
  /\ UNCHANGED <<m_levels, m_size_free, ret, live>>

\* The body of the loop: a free block becomes two free halves.
Split ==
  LET k     == work.level
      bit   == 2 * work.bit
      upper == ClrBit(m_levels[k], work.bit)
      lower == SetBits(m_levels[k-1], {bit, bit + 1}, bit)
  IN  /\ pc = "split"
      /\ k > work.index
      /\ m_levels' = [m_levels EXCEPT ![k] = upper, ![k-1] = lower]
      /\ m_size_free' = SizeFreeAfterClr(k, upper) \cup {k-1}
      /\ work' = [work EXCEPT !.level = k-1, !.bit = bit]
      /\ UNCHANGED <<pc, ret, live>>

\* The lines after the loop: the block leaves the binmap and is the client's.
AllocateReturns ==
  LET i     == work.index
      level == ClrBit(m_levels[i], work.bit)
  IN  /\ pc = "split"
      /\ work.level <= i
      /\ m_levels' = [m_levels EXCEPT ![i] = level]
      /\ m_size_free' = SizeFreeAfterClr(i, level)
      /\ live' = live \cup {[ptr |-> work.bit * SegSize[i], index |-> i]}
      /\ pc' = "idle"
      /\ work' = NoWork
      /\ ret' = "ok"

-----------------------------------------------------------------------------
(* deallocate                                                              *)

\* The early return: a pointer outside the range or a size above the maximum.
DeallocateInvalid(ptr, size) ==
  /\ pc = "idle"
  /\ \/ ptr < 0
     \/ ptr >= TotalUnits
     \/ size <= 0
     \/ size > SegSize[TopSize]
  /\ work' = NoWork
  /\ ret' = "invalid"
  /\ UNCHANGED <<m_levels, m_size_free, pc, live>>

\* A client gives back a block it holds.
Deallocate(r) ==
  /\ pc = "idle"
  /\ work' = [index |-> r.index, level |-> r.index, bit |-> r.ptr \div SegSize[r.index]]
  /\ pc' = "merge"
  /\ live' = live \ {r}
  /\ UNCHANGED <<m_levels, m_size_free, ret>>

\* Mutant: only the buddy to the right is looked at.
BuddyIsFree_Right == work.bit % 2 = 0 /\ work.bit + 1 \in m_levels[work.level].bin0

BuddyIsFree == Buddy(work.bit) \in m_levels[work.level].bin0

\* Mutant: the loop of deallocate stops one size early.
LoopEnds_Early(k) == k + 2 >= NumSizes

\* while (size_index < m_num_sizes), after size_index++
LoopEnds(k) == k + 1 >= NumSizes

Return ==
  /\ pc' = "idle"
  /\ work' = NoWork
  /\ ret' = "ok"

\* set_bit returns 0: the buddy is free too, its bit is cleared and the loop
\* goes on with the parent, or ends at the maximum size.
Merge ==
  LET k     == work.level
      level == ClrBit(m_levels[k], Buddy(work.bit))
  IN  /\ pc = "merge"
      /\ BuddyIsFree
      /\ m_levels' = [m_levels EXCEPT ![k] = level]
      /\ m_size_free' = SizeFreeAfterClr(k, level)
      /\ IF LoopEnds(k)
         THEN Return
         ELSE /\ work' = [work EXCEPT !.level = k+1, !.bit = @ \div 2]
              /\ UNCHANGED <<pc, ret>>
      /\ UNCHANGED live

\* set_bit returns 1: the block is free as it is.
DeallocateReturns ==
  LET k == work.level
  IN  /\ pc = "merge"
      /\ ~BuddyIsFree
      /\ m_levels' = [m_levels EXCEPT ![k] = SetBits(@, {work.bit}, work.bit)]
      /\ m_size_free' = m_size_free \cup {k}
      /\ Return
      /\ UNCHANGED live

-----------------------------------------------------------------------------

\* Arguments of a deallocate that are out of range.
BadArguments == {-1, TotalUnits} \X {1} \cup {0} \X {0, SegSize[TopSize] + 1}

Next ==
  \/ Initialize
  \/ Teardown
  \/ \E i \in Sizes : AllocateFails(i)
  \/ \E i \in Sizes : AllocateFinds(i)
  \/ Split
  \/ AllocateReturns
  \/ \E a \in BadArguments : DeallocateInvalid(a[1], a[2])
  \/ \E r \in live : Deallocate(r)
  \/ Merge
  \/ DeallocateReturns

Spec == Init /\ [][Next]_vars

-----------------------------------------------------------------------------
(* Properties                                                              *)

Level == [count : Nat, size : Nat, bin0 : SUBSET Nat, bin1 : SUBSET Nat, bin2 : SUBSET Nat]

\* Bits, counts and locals stay in their ranges: no bit is set at or beyond
\* the size of its level, and no loop leaves the levels.
TypeOK ==
  /\ m_levels \in [Sizes -> Level]
  /\ \A i \in Sizes : /\ m_levels[i].size = IF pc = "down" THEN 0 ELSE LevelSize(i)
                      /\ m_levels[i].bin0 \subseteq 0..m_levels[i].size-1
  /\ m_size_free \subseteq Sizes
  /\ pc \in {"down", "idle", "split", "merge"}
  /\ work \in [index : Sizes, level : Sizes, bit : Nat \cup {-1}]
  /\ pc \in {"split", "merge"} => work.bit \in 0..LevelSize(work.level)-1
  /\ ret \in {"none", "ok", "oom", "invalid"}
  /\ live \subseteq [ptr : Nat, index : Sizes]

\* Each unit's owners: the free blocks, the live blocks, and the block that a
\* running deallocate has taken from the client and not put in a binmap yet.
FreeBlocks ==
  {r \in [kind : {"free"}, ptr : 0..TotalUnits-1, index : Sizes] :
     \E b \in m_levels[r.index].bin0 : r.ptr = b * SegSize[r.index]}

LiveBlocks == {[kind |-> "live", ptr |-> r.ptr, index |-> r.index] : r \in live}

WorkBlocks ==
  IF pc = "merge"
  THEN {[kind |-> "work", ptr |-> work.bit * SegSize[work.level], index |-> work.level]}
  ELSE {}

Owned == FreeBlocks \cup LiveBlocks \cup WorkBlocks

Apart(r, s) == \/ r.ptr + SegSize[r.index] <= s.ptr
               \/ s.ptr + SegSize[s.index] <= r.ptr

\* allocate and deallocate never let two blocks, free or handed out and of
\* whatever sizes, share a unit, not even between two iterations of their
\* loops: no live block can be handed out a second time.
Disjoint == \A r, s \in Owned : r # s => Apart(r, s)

\* The three layers of every binmap, its m_count and the bits of m_size_free
\* agree: a layer's bit is set iff the word below it is not empty, m_count is
\* the number of free blocks, and m_size_free names the levels that have one.
\* clr_bit, set_bit and set_2bits each keep up only the part they touch.
LevelCoherent(level) ==
  /\ level.count = Cardinality(level.bin0)
  /\ HasBin1(level) => level.bin1 = {Word(b) : b \in level.bin0}
  /\ HasBin2(level) => level.bin2 = {Word(w) : w \in level.bin1}

Coherent ==
  /\ \A i \in Sizes : LevelCoherent(m_levels[i])
  /\ m_size_free = {i \in Sizes : m_levels[i].bin0 # {}}

\* Between calls no two free buddies are left apart below the maximum size:
\* the loop of deallocate merges as far as it can, and allocate undoes no
\* merge that it does not need.
Coalesced ==
  pc = "idle" => \A i \in Sizes \ {TopSize} :
                   \A b \in m_levels[i].bin0 : Buddy(b) \notin m_levels[i].bin0

\* The units nobody owns.
Lost == {x \in 0..TotalUnits-1 :
           \A r \in Owned : ~(r.ptr <= x /\ x < r.ptr + SegSize[r.index])}

\* allocate reports "Fragmented / OOM" only if every aligned block of the
\* requested size has a unit in use, or one that LossOnlyAtTop says is lost.
OOMIsHonest ==
  (pc = "idle" /\ ret = "oom") =>
     \A b \in 0..LevelSize(work.index)-1 :
       LET block == [ptr |-> b * SegSize[work.index], index |-> work.index]
       IN  \/ \E r \in live : ~Apart(block, r)
           \/ \E x \in Lost : block.ptr <= x /\ x < block.ptr + SegSize[block.index]

\* "All free again" (test_allocator_segment.cpp): when the client has given
\* back all it allocated, the free blocks are those of the maximum size.
AllFreeAgain == (pc = "idle" /\ live = {}) => m_size_free = {TopSize}

\* With several blocks of the maximum size, units are lost in one way only:
\* deallocate returns a block of that size while its buddy is free, and then
\* exactly the units of these two blocks are.
LossOnlyAtTop ==
  [][pc # "down" /\ pc' # "down" /\ Lost' # Lost =>
       /\ pc = "merge" /\ work.level = TopSize /\ BuddyIsFree
       /\ Lost' = Lost \cup {x \in 0..TotalUnits-1 :
                               x \div SegSize[TopSize] \in {work.bit, Buddy(work.bit)}}]_vars

\* Seen by its client this is a region allocator: a block is handed out when
\* allocate returns and given back when deallocate is called.
Regions == INSTANCE RegionAllocator WITH
  Limit <- TotalUnits,
  live  <- {[ptr |-> r.ptr, len |-> SegSize[r.index]] : r \in live}

ImplementsRegions == Regions!Spec

=============================================================================
