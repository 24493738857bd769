-------------------------------- MODULE Heap --------------------------------
(***************************************************************************)
(* nheap, the TLSF heap of c_allocator_heap.cpp: the memory is a row of    *)
(* blocks, each behind a header of one word, that ends in a sentinel of    *)
(* size 0.  A header knows whether its block and the block before it are   *)
(* free; a free block is in the list of its size class and is never next   *)
(* to another one.  When no listed block can serve a request the memory    *)
(* grows at its end, and a free block there is given back at once.         *)
(*                                                                         *)
(* Addresses and sizes are in words.  A block is known by the address of   *)
(* its header, one word below what the client gets.  The links of a free   *)
(* block are in its payload, and so is prev of the block behind it: when   *)
(* the client owns the payload they are DATA.                              *)
(***************************************************************************)
EXTENDS HeapSizes, FiniteSets, Functions, Iteration

CONSTANTS
  Requests,         \* the sizes the client asks for, in words
  MaxSize           \* bound: the most words the memory grows to

ASSUME HeapAssumption == Requests \subseteq Nat /\ MaxSize \in Nat

NULL == -1
DATA == -2

VARIABLES
  context,          \* context_t and the headers in the memory it manages
  live              \* history: the blocks the client holds

vars == <<context, live>>

Classes == {mapping(s) : s \in BLOCK_SIZE_MIN..MaxSize}

\* g_setup
EmptyContext ==
  [block |-> [c \in Classes |-> NULL],    \* heads of the lists
   sl    |-> {},                          \* second level bitmaps, as classes
   fl    |-> {},                          \* first level bitmap
   size  |-> 0,
   at    |-> << >>]                       \* the headers by address

Header == [size |-> 0, free |-> FALSE, prev_is_free |-> FALSE,
           prev |-> DATA, next_free |-> DATA, prev_free |-> DATA]

\* x as the header at address a, in front of a new block or of a known one.
With(at, a, x) == [g \in DOMAIN at \cup {a} |-> IF g = a THEN x ELSE at[g]]

-----------------------------------------------------------------------------
(* Headers                                                                 *)

block_next(t, h) == h + 1 + t.at[h].size

block_link_next(t, h) == [t EXCEPT !.at[block_next(t, h)].prev = h]

\* Mutant: the next block is not told.
block_set_free_Alone(t, h, free) == block_link_next([t EXCEPT !.at[h].free = free], h)

block_set_free(t, h, free) ==
  [block_link_next(t, h) EXCEPT !.at[h].free = free,
                                !.at[block_next(t, h)].prev_is_free = free]

block_can_split(t, h, size) == t.at[h].size >= SizeOfBlock + size

\* The free lists -----------------------------------------------------------

\* Mutant: the bit of the first level goes with that of any of its lists.
remove_free_block_WholeLevel(t, h, c) ==
  LET prev == t.at[h].prev_free
      next == t.at[h].next_free
      relinked ==
        [a \in DOMAIN t.at |->
           [t.at[a] EXCEPT !.prev_free = IF a = next THEN prev ELSE @,
                           !.next_free = IF a = prev THEN next ELSE @]]
      first == t.block[c] = h
      lastOfClass == first /\ next = NULL
  IN  [t EXCEPT !.at = relinked,
                !.block[c] = IF first THEN next ELSE @,
                !.sl = IF lastOfClass THEN @ \ {c} ELSE @,
                !.fl = IF lastOfClass THEN @ \ {c[1]} ELSE @]

remove_free_block(t, h, c) ==
  LET prev == t.at[h].prev_free
      next == t.at[h].next_free
      relinked ==
        [a \in DOMAIN t.at |->
           [t.at[a] EXCEPT !.prev_free = IF a = next THEN prev ELSE @,
                           !.next_free = IF a = prev THEN next ELSE @]]
      first == t.block[c] = h
      lastOfClass == first /\ next = NULL
      sl == IF lastOfClass THEN t.sl \ {c} ELSE t.sl
  IN  [t EXCEPT !.at = relinked,
                !.block[c] = IF first THEN next ELSE @,
                !.sl = sl,
                !.fl = IF lastOfClass /\ \A d \in sl : d[1] # c[1] THEN @ \ {c[1]} ELSE @]

\* Mutant: the former head is not told of the new one.
insert_free_block_NoBackLink(t, h, c) ==
  [t EXCEPT !.at[h].next_free = t.block[c], !.at[h].prev_free = NULL,
            !.block[c] = h, !.sl = @ \cup {c}, !.fl = @ \cup {c[1]}]

insert_free_block(t, h, c) ==
  LET current == t.block[c]
      linked  == [t EXCEPT !.at[h].next_free = current, !.at[h].prev_free = NULL]
      pushed  == IF current = NULL THEN linked ELSE [linked EXCEPT !.at[current].prev_free = h]
  IN  [pushed EXCEPT !.block[c] = h, !.sl = @ \cup {c}, !.fl = @ \cup {c[1]}]

block_remove(t, h) == remove_free_block(t, h, mapping(t.at[h].size))

block_insert(t, h) == insert_free_block(t, h, mapping(t.at[h].size))

LeastOf(S) == CHOOSE x \in S : \A y \in S : x <= y

\* The first class from c on whose list is not empty, or << >> for none.
block_find_suitable(t, c) ==
  LET sl_map == {d[2] : d \in {d \in t.sl : d[1] = c[1] /\ d[2] >= c[2]}}
      fl_map == {f \in t.fl : f > c[1]}
      higher == LeastOf(fl_map)
  IN  IF sl_map # {} THEN <<c[1], LeastOf(sl_map)>>
      ELSE IF fl_map = {} THEN << >>
      ELSE <<higher, LeastOf({d[2] : d \in {d \in t.sl : d[1] = higher}})>>

\* Splitting and merging ----------------------------------------------------

\* The header h is not read any more.
Without(t, h) == [t EXCEPT !.at = Restrict(@, DOMAIN @ \ {h})]

\* prev takes over the block behind it.
block_absorb(t, prev, h) ==
  block_link_next(Without([t EXCEPT !.at[prev].size = @ + t.at[h].size + 1], h), prev)

\* The block that h is part of after the merge with the one before it.
MergedPrev(t, h) == IF t.at[h].prev_is_free THEN t.at[h].prev ELSE h

block_merge_prev(t, h) ==
  IF t.at[h].prev_is_free THEN block_absorb(block_remove(t, t.at[h].prev), t.at[h].prev, h)
  ELSE t

block_merge_next(t, h) ==
  LET next == block_next(t, h)
  IN  IF t.at[next].free THEN block_absorb(block_remove(t, next), h, next) ELSE t

\* What h does not need becomes a free block of its own, if it is large enough.
block_rtrim_free(t, h, size) ==
  LET rest == h + 1 + size
  IN  IF ~block_can_split(t, h, size) THEN t
      ELSE block_insert(
             [t EXCEPT !.at = With([@ EXCEPT ![h].size = size, ![block_next(t, h)].prev = rest], rest,
                                   [Header EXCEPT !.size = t.at[h].size - size - 1, !.free = TRUE,
                                                  !.prev_is_free = TRUE, !.prev = h])], rest)

\* The payload is the client's now: what is stored in it is overwritten.
Overwritten(t, h) ==
  [t EXCEPT !.at[h].next_free = DATA, !.at[h].prev_free = DATA, !.at[block_next(t, h)].prev = DATA]

block_use(t, h, size) ==
  Overwritten(block_set_free(block_rtrim_free(t, h, size), h, FALSE), h)

-----------------------------------------------------------------------------
(* The size of the memory                                                  *)

GrownSize(t, size) == (IF t.size = 0 THEN 2 ELSE t.size + 1) + size

\* Mutant: a free block before the end is joined and stays in its list.
arena_grow_StaysListed(t, size) ==
  LET h == IF t.size = 0 THEN 0 ELSE t.size - 1
      sentinel == GrownSize(t, size) - 1
      at == IF t.size = 0 THEN With(<< >>, 0, Header) ELSE t.at
      extended == [t EXCEPT !.at = With([at EXCEPT ![h].size = size, ![h].free = TRUE], sentinel,
                                        [Header EXCEPT !.prev_is_free = TRUE]),
                            !.size = sentinel + 1]
      block == MergedPrev(extended, h)
      joined == IF block = h THEN extended ELSE block_absorb(extended, block, h)
  IN  block_link_next(block_insert(joined, block), block)

\* The sentinel becomes a free block, joined with a free one before it, and a
\* new sentinel follows.
arena_grow(t, size) ==
  LET h == IF t.size = 0 THEN 0 ELSE t.size - 1
      sentinel == GrownSize(t, size) - 1
      at == IF t.size = 0 THEN With(<< >>, 0, Header) ELSE t.at
      extended == [t EXCEPT !.at = With([at EXCEPT ![h].size = size, ![h].free = TRUE], sentinel,
                                        [Header EXCEPT !.prev_is_free = TRUE]),
                            !.size = sentinel + 1]
      block == MergedPrev(extended, h)
  IN  block_link_next(block_insert(block_merge_prev(extended, h), block), block)

\* Mutant: the word of the sentinel is kept.
ShrunkSize_KeepsWord(t, h) == t.size - t.at[h].size

\* One word, a sentinel alone, is no memory at all.
ShrunkSize(t, h) ==
  LET size == t.size - t.at[h].size - 1 IN IF size = 1 THEN 0 ELSE size

\* The last block is given back: its header is the new sentinel.
arena_shrink(t, h) ==
  LET size == ShrunkSize(t, h)
      rest == Without(t, block_next(t, h))
  IN  IF size = 0 THEN [t EXCEPT !.size = 0, !.at = << >>]
      ELSE [rest EXCEPT !.size = size, !.at[h] = [Header EXCEPT !.prev = t.at[h].prev]]

-----------------------------------------------------------------------------

Init == context = EmptyContext /\ live = {}

\* The end of g_malloc: the first block of the class found is taken.
Use(t, c, words) ==
  LET h == t.block[c]
  IN  /\ context' = block_use(remove_free_block(t, h, c), h, adjust_size(words))
      /\ live' = live \cup {[ptr |-> h + 1, len |-> words]}

\* g_malloc, with a class that has a suitable block.
MallocFinds(words) ==
  LET found == block_find_suitable(context, mapping(round_block_size(adjust_size(words))))
  IN  found # << >> /\ Use(context, found, words)

\* g_malloc, with more memory.  heap_resize never reports a failure, so that
\* the NULL of g_malloc is never returned; MaxSize is the reserved size, which
\* the client must not exceed.
MallocGrows(words) ==
  LET rounded == round_block_size(adjust_size(words))
      grown   == arena_grow(context, rounded)
  IN  /\ block_find_suitable(context, mapping(rounded)) = << >>
      /\ GrownSize(context, rounded) <= MaxSize
      /\ Use(grown, block_find_suitable(grown, mapping(rounded)), words)

\* The memory after the merges of g_free, and where the block starts then.
Freed(h) == block_set_free(context, h, TRUE)
Merged(h) == block_merge_next(block_merge_prev(Freed(h), h), MergedPrev(Freed(h), h))

IsLast(t, h) == t.at[block_next(t, h)].size = 0

\* g_free
Free(b) ==
  LET h == MergedPrev(Freed(b.ptr - 1), b.ptr - 1)
      t == Merged(b.ptr - 1)
  IN  /\ ~IsLast(t, h)
      /\ context' = block_insert(t, h)
      /\ live' = live \ {b}

\* g_free of a block that is the last one after the merges.
FreeShrinks(b) ==
  LET h == MergedPrev(Freed(b.ptr - 1), b.ptr - 1)
      t == Merged(b.ptr - 1)
  IN  /\ IsLast(t, h)
      /\ context' = arena_shrink(t, h)
      /\ live' = live \ {b}

\* g_heap_release, and a new heap.
Release == context' = EmptyContext /\ live' = {}

Next ==
  \/ Release
  \/ \E words \in Requests : MallocFinds(words)
  \/ \E words \in Requests : MallocGrows(words)
  \/ \E b \in live : Free(b)
  \/ \E b \in live : FreeShrinks(b)

Spec == Init /\ [][Next]_vars

-----------------------------------------------------------------------------
(* Properties                                                              *)

Sentinel == context.size - 1
Blocks == DOMAIN context.at \ {Sentinel}
FreeBlocks == {h \in Blocks : context.at[h].free}

\* The headers form a row from the first word to the sentinel; each one is right
\* about its block and about the one before it, no two free blocks are
\* neighbours, and the used blocks are those the client holds.  This is what
\* g_free relies on when it merges, after any order of calls.
BoundaryTags ==
  /\ context.size = 0 <=> DOMAIN context.at = {}
  /\ context.size > 0 =>
       /\ {0, Sentinel} \subseteq DOMAIN context.at
       /\ context.at[Sentinel].size = 0 /\ ~context.at[Sentinel].free
       /\ ~context.at[0].prev_is_free
  /\ \A h \in Blocks :
       LET next == block_next(context, h)
       IN  /\ context.at[h].size >= BLOCK_SIZE_MIN
           /\ next \in DOMAIN context.at
           /\ \A g \in DOMAIN context.at : g > h => g >= next
           /\ context.at[next].prev_is_free <=> context.at[h].free
           /\ context.at[h].free => context.at[next].prev = h /\ ~context.at[next].free
  /\ Blocks \ FreeBlocks = {b.ptr - 1 : b \in live}
  /\ \A b \in live : b.len <= context.at[b.ptr - 1].size

\* The blocks that the list of class c reaches.
Listed(c) ==
  LET onward == [hs \in SUBSET Int |->
                   hs \cup ({context.at[h].next_free : h \in hs} \ {NULL})]
  IN  StatesOf(onward, {context.block[c]} \ {NULL})[Cardinality(Blocks)]

\* The list of a class holds the free blocks of its sizes and no others, it can
\* be walked in both directions, and the two bitmaps say which lists are empty:
\* a block that is merged from the middle of a list leaves no link behind.
FreeListsCoherent ==
  /\ \A c \in Classes :
       /\ Listed(c) = {h \in FreeBlocks : mapping(context.at[h].size) = c}
       /\ c \in context.sl <=> context.block[c] # NULL
       /\ context.block[c] # NULL => context.at[context.block[c]].prev_free = NULL
       /\ \A h \in Listed(c) :
            context.at[h].next_free # NULL => context.at[context.at[h].next_free].prev_free = h
  /\ context.fl = {c[1] : c \in context.sl}

\* When the client has freed everything, in whatever order, all memory is given
\* back.
AllFreeAgain == live = {} => context.size = 0

\* The memory grows only when no free block has the size the request is rounded to.
GrowsOnlyIfNeeded ==
  [][context'.size > context.size =>
       \E b \in live' \ live :
         \A h \in FreeBlocks : context.at[h].size < round_block_size(adjust_size(b.len))]_vars

\* A region allocator: a region is what the client was promised and the header
\* in front of it, so that a client that fills its block keeps all headers.
Regions ==
  INSTANCE RegionAllocator
    WITH Limit <- MaxSize, live <- {[ptr |-> b.ptr - 1, len |-> b.len + 1] : b \in live}

ImplementsRegions == Regions!Spec

=============================================================================
