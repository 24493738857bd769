# callocator in TLA+

A verification project for `callocator`, a C++ library of special-purpose
allocators on top of the virtual memory arenas (`narena`) of `ccore`.  Each
allocator is a data structure of its own, and none is thread safe: the calls of
one client follow one another, no call waits for anything, and what can go wrong
is what a *sequence* of legal calls does to the data structure.  So the models
explore all sequences of calls of a client over a small memory, and the
properties relate the allocator's structure to what the client holds.

## 1. Inventory

| component | state | operations | what makes it correct |
|---|---|---|---|
| **segment** (`c_allocator_segment.*`) buddy allocator | one three-layer binmap of free blocks per size, `m_size_free` | `initialize`, `teardown`, `allocate` (find, split), `deallocate` (merge) | the layers agree; free and live blocks never share a unit; nothing is lost; buddies are merged; OOM only when there is no block |
| **segward** (`c_allocator_segward.*`) segmented forward allocator | cursor, current segment, one `i16` counter per segment, the committed part of an arena | `create`, `destroy`, `allocate`, `deallocate` | a counter counts the live blocks of its segment; a segment is only reused when empty; blocks are in committed memory and in one segment |
| **offset** (`c_allocator_offset.*`) TLSF-like allocator of offsets | nodes, neighbour links, bin lists, two bitmaps, freelist of nodes | constructor, move, destructor, `setup`, `reset`, `teardown`, `allocate`, `free`, `allocationSize`, two reports | nodes tile the range; every node is spare, free or live; lists and bitmaps agree; free neighbours are merged; the search is a good fit |
| **nfloat** (in `c_allocator_offset.cpp`) | none | sizes to bins, bins to sizes, in two implementations | round up is a ceiling, round down a floor, both implementations agree |
| **frame** (`c_allocator_frame.*`) | two lanes (arenas), a table of frames and two counters for each, the current frame | `setup`, `reset`, `new_frame`, `end_frame`, `reset_frame`, `allocate`, `deallocate` | memory of a frame is kept until the frame is reset, over lane switches |
| **forward** (`c_allocator_forward.*`) | a chain of nodes inside the buffer, the cursor | `setup`, `reset`, `is_empty`, `allocate`, `deallocate` | the chain is valid and that of the live blocks; freeing everything empties the allocator |
| **heap** (`c_allocator_heap.*`) TLSF heap | blocks with boundary tags in a growing arena, two-level bitmaps and lists | create, malloc, free, release | headers tile the arena and know their neighbours; bitmaps and lists agree; all memory comes back |
| **cs** (`c_allocator_cs.*`) component storage | per component type: dense data, map and map back, counters; instances, tags | set up, register types, create and destroy instances, add, remove and look up components and tags | each component keeps its data over the moves of a removal; the two maps are inverse; a look-up answers for its instance |
| **ocs** (`c_allocator_ocs.*`) | as cs with objects, data that does not move, occupancy bits | as cs | as cs; bits and maps give the same answers |
| **ts** (`c_allocator_ts.*`) | none (a pass over a recorded sequence) | `g_process_sequence` | allocations that overlap in time do not overlap in memory; no more buckets than needed; the pass ends |
| **string** (`c_allocator_string.*`) | cursor, table and tree of items | `v_put` (four versions) | equal strings give one item; a stored string is never overwritten |
| **stack** (`c_allocator_stack.*`) | arena cursor, allocation count, save points | allocate, deallocate, save and restore points | restoring gives back what came after the save point and no more; the counts account for the blocks |
| **linear** (`c_allocator_linear.*`) | arena cursor | allocate, deallocate, reset | reset gives back everything but the allocator itself |

External, not in this repository: `narena` (commit, alloc, save and restore
addresses), the `duomap`/`binmap` and tree containers of `cbase`, memory, hash,
conversion and sort functions.

**How the components interact.**  An allocator uses the library below it
(`narena`) and never another one of this list; `nfloat` is used by the offset
allocator only.  A client shares pointers, offsets, frame ids or nodes with its
allocator and is trusted to give back only what it holds.  There are no threads,
callbacks or messages, and nothing is persisted.

**What is hard.**  (a) long sequences of calls after which two representations of
one fact disagree (layers of bitmaps, links in both directions, counters and the
blocks they count, maps and the maps back, headers inside the memory that is
handed out); (b) boundaries: the maximum block size, the first segment, the last
node, a gap that fits exactly, size 0, sizes at the border of a bin, 2^32;
(c) reuse: a frame number, a node, a segment, an instance that comes back while
something still refers to it.  Every such place is in the list of hazards in
`PROJECT.json`, with the property that watches it or the reason there is none.

## 2. Plan

Done, in this order:

1. `RegionAllocator`: what every allocator promises its client (abstract).
2. `Segment`, `Segward`, `BinFloat`, `Offset`, `Frame`, `Forward`.
3. `Arithmetic`, `SegmentProofs`, `SegwardProofs`: the first two allocators proved
   to implement `RegionAllocator`.
4. `HeapSizes` and `Heap`, `TemporalSequence`, `Stack`, `Linear`,
   `StringStorage`.
5. `ComponentRelation` (abstract), `ComponentStorage`, `ObjectComponents`.
6. `CursorProofs`, `ComponentStorageProofs`, and the merging of
   buddies in `SegmentProofs`.
7. `Iteration`, `TemporalSequenceProofs`, `OffsetProofs`.
8. `HeapProofs`.

Nothing of the plan is left; section 5 ends with what stays model-checked only,
section 6 says what is not modelled.

## 3. The modules

**`RegionAllocator`** has one variable, `live`, the regions handed out.
`Allocate` adds one region that lies in the range and shares no address with a
live one; `Release` takes regions away.  A module implements it through a
refinement mapping that gives its own set of live blocks as `live`.  The mapping
is a set: two zero-sized regions at one offset are one element of it, so what the
refinement says about size 0 is only that it disturbs nothing.

**`Segment`** is `nsegment`.  `m_levels[i]` is the `level_t` of size index i: its
count, its size and the bits of its layers as sets; `ClrBit`, `SetBits` and
`FindBit` are `clr_bit`, `set_bit`/`set_2bits` and `find_bit` word by word, the
word size being a parameter (64 in the code).  `allocate` is `AllocateFinds`,
then one `Split` per iteration of its loop, then `AllocateReturns`;
`AllocateFails` is the early return.  `deallocate` is `Deallocate`, then a
`Merge` per iteration or `DeallocateReturns`; `DeallocateInvalid` is its early
return.  `pc` and `work` are the place in the running call and its locals.  Size
classes are chosen by index; sizes in bytes that round up to an index are the same
call.

**`Segward`** is `nsegward`.  Addresses count from the end of the header page, as
the code's cursor does.  `allocate` is `AllocateInCurrent`, `AllocateInNext` (the
linear search stops at the first segment whose counter is not positive) or
`AllocateFails`.  The `i16` arithmetic of the counter and the 32-bit arithmetic of
the commit size are kept.  `narena` is external: `committed` only grows.

**`BinFloat`** is `nfloat`, as operators.  `BinToSize`, which nothing calls, is
left out; its result from bin 8 on is half of what its comment
(`c_allocator_offset.cpp:58`) computes.

**`Iteration`** has one operator, `StatesOf`: a function applied again and again to a
first value.  The loops that walk along links (`Offset`, `Forward`) or halve a
range (`TemporalSequence`) are written with it, because what a loop does turn by
turn can then be proved (section 5).

**`Offset`** is `noffset::allocator_t`.  Everything the object keeps is the record
`self`, with the members' names; the helpers `insertNodeIntoBin` and
`removeNodeFromBin` are operators from record to record, in the order of the
code's writes, so that `allocate` and `free` are one action each.  `m_nodeUsed` is
a set of bits.  Contents of nodes that are dead (overwritten before they are read)
are normalised to one value, to keep the state space small.  `crashed` stands for
the write to `m_neighbors[NIL]`: the model stops there except for the destructor.

**`Frame`** is `frame_allocator_t`.  Lanes are 0 and 1; a frame id is a pair of a
lane and a number; `held` are the ids the client has received and not reset, and
`blocks` the memory allocated for those frames.  `v_new_frame` ends the current
frame first, and each of its three outcomes is one action that includes this.
The arena is external and its cursor is the state.

**`Forward`** is `forward_alloc_t`, in units of nodes (8 bytes).  `mem` is the node at
every place: `next` and `prev` are the relative offsets the code stores.
Memory that is no node is `DATA`.  `s_align_to` is `Fits` and `Moved`; `allocate`
succeeds at the cursor, wraps around and succeeds, wraps around and fails (with
the cursor moved), or fails.

**`HeapSizes`** holds the size classes of `nheap`, and **`Heap`** its calls, in words
of 8 bytes.  `context` is `context_t` with the headers of the memory it manages;
what the client owns is `DATA` in them: the links of a used block and the `prev`
of the block behind it.  The helpers of the code (`block_*`,
`insert_free_block`, `arena_grow`, ...) are operators from context to context
with the code's names.  `g_malloc` is `MallocFinds` or `MallocGrows`, `g_free` is
`Free` or, when the block is the last one after the merges, `FreeShrinks`.
`g_realloc` and `g_aalloc` are static functions without a caller.

**`TemporalSequence`** is `g_process_sequence` after the sort, whose results are the
initial states: every order that agrees with the comparison.  One step is one
iteration of a loop: `AddToBucket` or `StartBucket` for an allocation, the walk
for the largest size of a bucket (`Larger`), `HandOut` of the bucket's address.
Both binary searches are `Bisect`.

**`ComponentStorage`** is `cs_alloc_t`.  `self` has the members of `object_t` and of
its component types; the occupancy bits and tags are sets of pairs.  An instance
is known by the place of the component it was created with (`Main`), as in the
tests.  `s_rem_cp` moves the last component into the gap with the assignments of
the code, the missing one included.  **`ObjectComponents`** is `nocs::allocator_t`
for one type of objects, with the assignment of `g_rem_cp` that goes to the wrong
array.  Both are shown to implement **`ComponentRelation`**: relations between
instances, components and tags of which a call changes the pairs of one instance.
`MCComponents` lets a behaviour be one of either storage.  The look-ups change
nothing and are left out; `s_get_cp2` divides a difference of `u32` pointers by a
number of bytes, so that it answers for the component at a quarter of the place
(`c_allocator_cs.cpp:246`).

**`Stack`** is `stack_allocator_t`: `points` are the save points of nested scopes
(`defer_t`), whose words hold the count of allocations.  **`Linear`** is
`linear_alloc_imp_t`.  **`StringStorage`** is `v_put` of both storages: the bytes of
the strings, the cursor and the items; `PutFound` and `PutNew` are the answers of
the tree.

The MC modules extend these and give constants their values; the `.cfg` files say
the rest.  `MCCursors` lets a behaviour be one of `Stack`, `Linear`, `Forward` or
`Frame`, the four that place each block at a cursor, each with constants and
variables of its own; `allocator` says which one moves.

## 4. The runs

Passing:

| run | instance | shows |
|---|---|---|
| `segment` | words of 2 bits, 3 sizes, 8 units, two blocks of the maximum size | layers agree at every loop iteration, all merges happen, OOM is honest, units are lost in one way only, implements `RegionAllocator` |
| `segward` | 3 segments of 4 units, pages of 2, requests of 1 and 2 | counters, reuse, committed memory, honest OOM, implements `RegionAllocator` |
| `sizes` | the constants of the code, both ends of every bin and list below 2^31 | rounding of bins and lists, agreement of two implementations |
| `offset` | 6 units, one mantissa bit, sizes 0, 1 and 5, 3 live | tiling, partition of nodes, lists and bitmaps, merging, search, reports |
| `heap` | 53 words, sizes 6, 9 and 33, four second level lists | boundary tags, lists and bitmaps, growth only when needed, everything given back |
| `temporal_sequence` | every sequence of up to 5 allocations over 4 time points | disjoint addresses, fewest buckets, the call returns |
| `cursors` | stack: 7 words, scopes three deep, failed allocations in each; linear: 11 bytes, an allocator of 3; forward: 17 places, sizes and alignments 1, 2, 4; frame: 2 frames per lane, 3 units per arena, an allocation per frame | the counts of all open scopes; the chain of nodes and emptiness, within the two bounds below; blocks survive lane switches, new_frame fails only for a held frame; four refinements |
| `components` | 3 instances, 2 component types, 1 tag, both storages | data is kept, answers agree, both implement `ComponentRelation` |

Violations, each a disagreement of the code with its own words:

| run | what TLC finds |
|---|---|
| `segment_all_free` | two blocks of the maximum size, both freed: no free block is left ("All free again") |
| `cs_unmap` | after a removal has moved a component, the map back from its new place is not set |
| `string_kept` | the second string is written over the first one from its second byte on |

**Bounds of the client.**  Some calls lead out of what the code can handle; nothing in
it says otherwise, so that there is no run for them.  The models name the
condition, and the properties hold within it:

| bound | what happens beyond it |
|---|---|
| `LargeSegments` (proofs), the geometry of `segward` | a segment 0 that is reused starts a page later than a fresh one: with segments of one page its block lands in segment 1 (`c_allocator_segward.cpp:110`) |
| `BelowU32` (proofs), `U32` of `segward` | a segment that ends at 4 GB is not committed (`c_allocator_segward.cpp:106`) |
| `CounterMax` (`Segward`) | more than 32767 blocks in a segment overflow its counter, as `c_allocator_segward.h:36` says |
| `OffsetAssumption`, `MantissaAssumption` (`Offset`) | from 2^31 on the sizes of bins, and sums of sizes, leave 32 bits |
| `MaxAllocs`, `MaxLive` (`Offset`) | more pieces than nodes: `allocate` writes `m_neighbors[NIL]` and never reports it (`c_allocator_offset.cpp:225`) |
| `AvoidExactFit` (`Forward`) | a block that leaves no room for the next cursor breaks the chain (`c_allocator_forward.cpp:90`) |
| `AvoidWrap` (`Forward`) | wrapping around while a block starts at the begin of the buffer overwrites its node (`c_allocator_forward.cpp:189`) |
| `MoveIsDefined` (`ComponentStorage`) | the second move of a component writes `m_map[c_null_index]` (`c_allocator_cs.cpp:211`) |
| `NoClobber` (`ObjectComponents`) | another object loses its component (`c_allocator_ocs.cpp:240`) |
| `HeapBounds` (proofs), `MaxSize` (`Heap`) | sizes above 2^30 words leave the range of `log2floor`; a heap larger than what was reserved (`c_allocator_heap.cpp:391`) |
| a scope is opened only with room for its word (`Stack`) | the count is written to a null pointer (`c_allocator_stack.cpp:65`) |
| `Fits`, `m_max` (`StringStorage`) | strings and items are written behind their memory (`c_allocator_string.cpp:99`) |

**Why the bounds are enough.**  *Segment*: eight units with words of two bits give
levels with one, two and three layers, the shapes of `64*64*64` blocks with words
of 64 bits.  *Segward*: two requests fill a segment and three segments are the
code's minimum, so every order of leaving and reusing segments happens.
*Offset*: three live allocations give three free regions in one bin, so that a
list loses its first, middle and last node, and size 5 is rounded to another bin
upwards than downwards.  *Frame*: two frames per lane give a lane with one frame
reset and one held, and two blocks of different sizes in it.  *Forward*: the buffer holds several small blocks and aligned
gaps, so the cursor wraps around with blocks on both sides.  *Heap*: with four
second level lists sizes from 8 on share lists, and 53 words hold up to seven blocks
with free ones between them: all merges and a split of what is left happen, a list has
several blocks and two lists share a first level bit.  A free block at the end of the
memory is always given back, except the rest of a request that was rounded up by four
words or more; 33 is the least such size here, and with 6 and 9 it makes the memory grow
behind a free block.
*TemporalSequence*: five allocations over four time points repeat end points, move
buckets past others and start buckets between them.  *Stack*: a scope fails and is
restored while two outer ones are open.  *Components*: three instances are what a
move needs (one removed, one moved, one that must not change); both storages run
out of places or reuse them.  The theorems of section 5 hold for every value of the constants.

**Deadlock** is checked except where the system stops: `sizes` walks through the
classes, `temporal_sequence` is one call, and the string storage (`string_kept`)
gets full.

**Fairness** is assumed in one module: `TemporalSequence` has `WF_vars(Next)`, since
its steps are the iterations of one call of one thread, which nothing blocks.
`Terminates` then says that no list of a bucket leads back into itself and that
each loop reaches its end.  The other modules need none: a client may stop
calling, and every call is a bounded sequence of steps.

Each property of a passing run has a mutant of the code's definition
(`<definition>_<what is wrong>`, next to the original) under which TLC finds it
violated.

## 5. What is proved

All properties of the runs `segment`, `segward`, `heap`, `components` and
`cursors`, four of the five of `offset` and the two invariants of
`temporal_sequence` are proved for every value of the constants that the assumptions of the
modules allow.

**Segment.**  `SegmentProofs` proves, from `GeometryAssumption` alone (what
`initialize` asserts of its sizes), `SegmentTypeOK`, `SegmentDisjoint`,
`SegmentCoherent` and `SegmentImplementsRegions`.  `Disjoint` and `Coherent` need
each other (a stale upper layer makes `find_bit` return a block that is not free)
and three facts more, which make up `IInv`: live blocks are aligned to their size;
the block that a running `allocate` works on is free (`SplitHoldsFree`); nothing is
live before `initialize` (`DownIsEmpty`).  The proof has one lemma per action.  It
rests on the lemmas `ClrBitGood` and `SetBitsGood` (a binmap stays coherent under
each primitive), `FindBitFinds` (a coherent binmap that is not empty has the bit
that is found) and `DisjointAfter` (when blocks are replaced by blocks inside them,
or by their union, disjointness is kept).

The second half adds `SegmentCoalesced` and `SegmentOOMIsHonest`.  `Coalesced`
is about the state between calls, and `MInv` says what happens inside them: below
the maximum size two free buddies exist only while an `allocate` splits, and then
they are its halves (`PairsAreSplit`).  For OOM: while the report stands, no level
from the requested one on has a free block (`OOMLevels`).  If the units of an
aligned block of the size were all free, take the smallest free block in it: the
units of its buddy are free too, in blocks not smaller, hence the buddy itself is
free, and that pair is one that `PairsAreSplit` excludes.
`SegmentLossOnlyAtTop` is proved action by action: every unit that
had an owner has one afterwards, but for the two blocks of that merge.

**Segward.**  `SegwardProofs` proves the five properties of the run and type
correctness, from `SegwardAssumption` and two conditions that the theorems name
because the code does not check them: `LargeSegments` and, for
`SegwardLiveIsCommitted` only, `BelowU32`.  The counters alone are not inductive:
that a counter goes up by one with a new block needs the block to be new, and that
it never overflows needs the blocks of a segment to be apart and inside it.  So
`IInv` has `CountersMatch`, `FitsSegment`, that blocks are apart (`BlocksApart`),
that the cursor is behind every block of the current segment (`CursorAhead`), that
the current segment is never one marked as uncommitted (`CurrentInUse`), and that a
destroyed allocator has no blocks.  Both successful ways through `allocate` are one
lemma, `BlockAdded`; `FewBlocks` counts the blocks of a segment by their first
units; `ReusableIsEmpty` says that the search ends at an empty segment.

**Frame.**  `CursorProofs` proves the four properties of the run that are about
`Frame`, and `FrameHeldCanBeReset`, on which they rest.  The lane switch is
the step that matters: it clears the arena of the other lane when `LaneIsReset`
answers from the table of frames.  That this means no frame is held needs
`CreatedIsHeld` (a frame created and not reset is held by the client) and
`HeldCanBeReset` the other way round; both survive the reuse of numbers because
`LanesAccounted` fixes what the counters say of the table.

**Stack.**  The same module proves `StackCountIsExplained` and
`StackImplementsRegions`.  The inductive invariant is the layout: the words of the
save points are in order, and the blocks of a scope lie between its word and the
next one.  So the address restored is above every block of the outer scopes, the
words of outer points are never overwritten, and the counts in them stay those of
their scopes.

**Linear and Forward.**  The rest of `CursorProofs` proves `ForwardChainIsLive`,
`ForwardEmptyAgain` and `CursorsImplementRegions` of the specification of the run, from
`LinearBounds` and `ForwardBounds` (sizes and alignments are numbers, the buffer has
room for three nodes, and the client keeps to `AvoidExactFit` and `AvoidWrap`).  For
the linear allocator all blocks lie between the allocator itself and the cursor
(`LinearInv`).  For the forward one `ChainGood` says what the chain is without
walking along it: the nodes are those of the begin, the cursor, the live blocks and the
end, and any two of them with none between (`Adjacent`) hold each other's distance
(`Linked`); each block ends in front of the next node (`BlocksFit`); the cursor is not
the last node; and with no block in front of it, it is at the first place, which is what
`EmptyAgain` comes down to.  Every call writes links in one of two ways: a node goes into
a gap of the chain (`Splice`) or out of it (`Bridge`).  The calls are made of these:
`MovedGood` (alignment moves the cursor), `BlockTaken` (the cursor becomes the block's
node and a new one is put behind it: here `AvoidExactFit` is needed, as the new node
must not be the next one), `WrappedGood` (the cursor goes to the first place: here
`AvoidWrap` is needed, as no block may be there), `FreedBeforeCursor` and
`FreedElsewhere`.  `ReachedAre` comes back from links to the walk of
`s_validate_chain`: after n turns it has found every node below place n.

**Components.**  `ComponentStorageProofs` proves `ComponentDataKept` and
`ComponentsImplementRelation` from `StorageBounds`: instances are finitely many
numbers, and no type has data for more components than there are instances.  The
inductive invariant is, for each type, that the map leads to the data of its
instance (`MapLeadsToData`), that every place counted has an instance which is
mapped there (`NoGaps`), and that the map back is either right or null
(`UnmapIsDataOrNull`), which is all that is left of an inverse after a move; for
`Main`, which is never removed, it is right everywhere, so that handles lead to
their instances.  `RoomForOneMore` is the counting argument for `create_instance`,
which checks nothing: an instance without a Main leaves a place for it.  The lemmas
`AddGood` and `RemoveGood` are about one type alone; each action then has a lemma
that gives both the invariant and the step of `ComponentRelation`.

The second part of the module proves `ObjectsDataKept` and
`ObjectsImplementTheRelation` for `ObjectComponents`, from `ObjectBounds` (objects are
numbered).  Its places never move, so the invariant of a type (`PlacesGood`) is that
the map of an object leads to a place in use that leads back to it, and that every
place in use, all below `m_free_index`, is that of an object; `ObjectsInv` adds that
only objects in use have components and that the bits of an object are those of its
components.  `PlaceRemoved` is where `NoClobber` is needed: the assignment to the
wrong map then changes nothing.  `EitherStorage` frees the run's choice of a storage
from the steps of the one that is not chosen.

**Offset.**  `OffsetProofs` proves `OffsetNodesAccounted`, `OffsetTiling`,
`OffsetSearchIsGoodFit` and `OffsetImplementsRegions` from `OffsetAssumption` and
`MantissaAssumption` (sizes below 2^31, where the code's `u32` arithmetic does not
wrap, and 1 to 30 mantissa bits; the code has 3).  None of the four properties is
inductive, because they speak of what a walk along a list finds, and a step
changes links, not walks.  `IInv` instead says that there *is* a place for every
node (`Placed`): a bin, the freelist, not used yet, or used.  Three facts about
places replace every walk.  The links (`Linked`) lead from the head of a list to its
nodes and down in a rank, so that a list has no cycle and each of its nodes is
found from its head; the ranks are chosen anew by each step.  The neighbours
(`Tiled`) lead from the node at offset 0 to the one that ends the range, up in a
position, each starting where the one before it ends; the order of positions
gives that two tiles are apart, however many nodes lie between them.  The live
allocations are the used nodes (`LiveMatch`), no two free nodes are neighbours
(`Merged`), and `m_freeStorage` is the range without the units that allocations
hold (`Held`), which is what keeps it from underflowing.  `allocate` and `free` are
followed write by write: one lemma for each of `insertNodeIntoBin`,
`removeNodeFromBin` (first, middle, last and only node), `PushSpare` and `PopSpare`,
then the split (`AllocateSplit`), the exact fit (`AllocateExact`), the write outside
the arrays (`AllocateCrash`), and the two merges (`MergeLeftKeeps`,
`MergeRightKeeps`), between which the node that is freed is in no place
(`Merging`).  `PlacesAre` comes back from places to walks: what `ListFrom` finds is
the nodes with the place of the list, by descent on the ranks.

The search rests on the arithmetic of the bins, which is proved for every size:
`FormExists` (a size is a mantissa shifted by an exponent), `RoundDownMonotone`,
`RoundUpServes` (a region filed in the bin a request is rounded up to, or above it,
is large enough) and `RoundUpIsTight` (a region filed below is smaller than that
bin's size).

**Heap.**  `HeapProofs` proves `HeapBoundaryTags`, `HeapFreeListsCoherent`,
`HeapAllFreeAgain`, `HeapGrowsOnlyIfNeeded` and `HeapImplementsRegions` from
`HeapBounds`: the code has `SL_SHIFT` 4, the theorems allow 2 to 30 (2 is the least that
`ShiftAssumption` leaves), any requests and any reserved size up to 2^30 words.
The inductive invariant (`IInv`) is that between calls the memory is empty (`Empty`) or
that the context is `Sound` and the client holds a block.  `Sound` has four parts.
`Shape`: the headers are a row, each block ends where the next header is.
`Tags`: each header is right about its own block and the one before it, and no two free
blocks are neighbours.  `Listing`: the links lead from the heads to the free blocks
and down in a rank, as in `OffsetProofs`, and the bitmaps name the lists that are not
empty.  `Match`: the used blocks are those of the client, each large enough.

Inside a call none of this holds as it stands, so `Sound` takes two sets of exceptions:
in X are free blocks which the header behind them does not lead back to yet, in Y free
blocks that are in no list yet and may have a free neighbour.  The calls are followed
helper by helper.  A first layer of lemmas says which fields each helper writes
(`SetFreeIs`, `UnlinkIs`, `PushIs`, `AbsorbIs`, `SplitIs`, `ExtendIs`, `ShrinkIs`, ...);
a second one what it does to `Sound` (`RemoveSound`, `InsertSound`, `AbsorbSound`,
`SplitSound`, `UseSound`, `GiveSound`, `MergePrevSound`, `MergeNextSound`,
`ShrinkSound`, `ExtendSound`, `LinkSound`).  After both merges of `g_free` the block has
no free neighbour (`FreedAlone`), so that it can be listed (`InsertAlone`) or, when it is
the last one, given back: the block before it is then a used one, or there is none and
nothing is left.  That is `AllFreeAgain`.

That the first block of a list can be taken without a look at its size is the
arithmetic of the classes: `MappingMonotone` (a larger block has no earlier class) and
`RoundedServes` (a block whose class is not before that of the rounded size is large
enough).  `FindIs` says that the search over both bitmaps finds the first list from a
class on that is not empty, and none only if all are; `FoundServes` and `FindsLarge`
put these together for `g_malloc` and for `GrowsOnlyIfNeeded`.  `ListedIs` comes back
from ranks to walks.

**Temporal sequence.**  `TemporalSequenceProofs` proves `SequenceOverlapApart` and
`SequenceFewestBuckets` for sequences of any length.  A bucket moves in the array each time it gets an
allocation, so `IInv` knows it by the first allocation it got (`root`).  Between
steps: allocations with one root follow each other in time, the parent of each is
the last one before it with its root, and every bucket's head is the last of all
(`InBuckets`); of addresses, buckets that are done lie apart from each other and
below the cursor (`PlacedApart`), and in the one being walked everything behind
the walk has its address (`Walking`).  `BisectEnds` says where the binary searches
end; that they end is a count of turns, through `Loops`.

That there are never too many buckets is a second half of the same invariant: the
buckets are sorted by their endpoints, and for each endpoint E and each bucket that
does not end before E an allocation of that bucket is alive just before E (`Tight`).
`LastFitIsTight` is the step, in terms of the endpoints alone: a new bucket is started
only if every other is in use when the interval begins, and one that is joined is the
last of those that are not (`FoundIsLast`), so each bucket it is moved past begins no
later.  Just before the first bucket ends all are in use at once
(`AllBucketsUsed`), and no time has more allocations alive than buckets
(`NoMoreThanBuckets`).

`Arithmetic` holds the lemmas that the proofs share, on division, alignment, least
elements, powers of two, leading bits and what `StatesOf` is after each turn (`StatesOfLoop`).

**Only model-checked**: `StringStorage`, whose run shows a violation;
`ReportIsHonest`, whose sums and counts over lists are folds, which only induction over
data unfolds; `RoundingIsTight`, `ImplementationsAgree` and `ListsServe`, which the run
checks with the constants of the code (the halves of them that the allocators rest on are
`RoundUpServes`, `RoundUpIsTight` and `RoundedServes` above); and liveness
(`Terminates`), which the prover does not reach, as it does not reach ENABLED.

## 6. What is not modelled

* the memory below: failing commits (`DVERIFY` stops a debug build; `heap_resize`
  ignores them), addresses, the contents of blocks, the 0xCD fills.
* clients that break the rules: double frees, foreign pointers, stale frame ids,
  a deallocation counted in another frame, an instance created when all are in
  use (its index is then -1), an instance destroyed with its components.
* functions nothing calls: `g_realloc` and `g_aalloc` of the heap, the member
  `reset` of the stack allocator, `BinToSize`.
* calls that only read: the look-ups by a component, `has_tag` of both storages,
  which answers the negation of the bit, and the iterations of cs and ocs, which
  end at the first instance that lacks the component asked for.
* in `ocs`, the calls by the pointer of a component, whose place
  `c_allocator_ocs.cpp:152` computes as `s_get_cp2` of cs does.
* sizes of fields where no sequence of calls changes them: the words of `m_nodeUsed`
  (`maxAllocs >> 5`, one too few unless `maxAllocs` is a multiple of 32), the room for
  counters in the header page of segward, the 16-bit indices of ts.
* the conversions, hashes and trees behind the string storage, and what an item it
  returns contains when the tree has compared memory behind the storage.
* the build description and the documents.
