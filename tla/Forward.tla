------------------------------- MODULE Forward -------------------------------
(***************************************************************************)
(* forward_alloc_t of c_allocator_forward.cpp: blocks are laid out one     *)
(* after the other, each behind a node; the nodes of the live blocks and   *)
(* the cursor, where the next block goes, form a chain from the first to   *)
(* the last node of the buffer.  Freeing a block takes its node out of the *)
(* chain.  At the end of the buffer the cursor wraps around.               *)
(*                                                                         *)
(* Addresses and sizes are in nodes of 8 bytes, m_buffer_begin is 0.  What *)
(* is in memory outside the chain is not read before it is written: it is  *)
(* DATA.                                                                   *)
(***************************************************************************)
EXTENDS Integers, FiniteSets, Iteration

CONSTANTS
  m_buffer_end,     \* the last node of the buffer
  Sizes,            \* the sizes the client asks for, in nodes
  Alignments,       \* and the alignments
  AvoidExactFit,    \* bound: no block that leaves no room for the cursor behind it
  AvoidWrap         \* bound: no wrap around while a block starts at the buffer's begin

m_buffer_begin == 0
Places == m_buffer_begin..m_buffer_end
NULL == -1
DATA == [next |-> -1, prev |-> -1]

VARIABLES
  mem,              \* m_next and m_prev of the node at every place
  m_buffer_cursor,
  live              \* history: the blocks the client holds

vars == <<mem, m_buffer_cursor, live>>

-----------------------------------------------------------------------------
(* Nodes: relative offsets, 0 for a null pointer.                          *)

get_next(m, p) == IF m[p].next = 0 THEN NULL ELSE p + m[p].next
get_prev(m, p) == IF m[p].prev = 0 THEN NULL ELSE p - m[p].prev

set_next(m, p, q) == [m EXCEPT ![p].next = IF q = NULL THEN 0 ELSE q - p]
set_prev(m, p, q) == [m EXCEPT ![p].prev = IF q = NULL THEN 0 ELSE p - q]

\* p and q become neighbours.
Link(m, p, q) == set_prev(set_next(m, p, q), q, p)

\* The cursor node behind begin, in front of end.
s_reset_cursor(m, begin, end) == Link(Link(m, begin, begin + 1), begin + 1, end)

AlignUp(x, a) == ((x + a - 1) \div a) * a

\* How far the cursor moves for the block behind it to be aligned.
Shift(c, align) == IF align > 1 THEN AlignUp(c + 1, align) - (c + 1) ELSE 0

\* s_align_to answers true: the shifted cursor is in front of the next node,
\* and the block fits between them.
Fits(m, c, size, align) == size < m[c].next - Shift(c, align)

\* What s_align_to does to the chain then.
Moved(m, c, align) ==
  LET to == c + Shift(c, align)
  IN  IF to = c THEN m
      ELSE Link(Link([m EXCEPT ![c] = DATA], get_prev(m, c), to), to, get_next(m, c))

\* is_empty
is_empty ==
  /\ m_buffer_cursor = m_buffer_begin + 1
  /\ get_next(mem, m_buffer_cursor) = m_buffer_end
  /\ get_prev(mem, m_buffer_cursor) = m_buffer_begin
  /\ get_next(mem, m_buffer_begin) = m_buffer_cursor
  /\ get_prev(mem, m_buffer_end) = m_buffer_cursor

\* The nodes reached from begin without passing end.
Chain ==
  LET further == [reached \in SUBSET Places |->
                    reached \cup ({get_next(mem, p) : p \in reached \ {m_buffer_end}} \cap Places)]
  IN  StatesOf(further, {m_buffer_begin})[m_buffer_end]

\* s_validate_chain: the links forth lead to end, and the links back match them.
s_validate_chain ==
  /\ m_buffer_end \in Chain
  /\ \A p \in Chain \ {m_buffer_end} :
       /\ get_next(mem, p) \in p+1..m_buffer_end
       /\ get_prev(mem, get_next(mem, p)) = p

-----------------------------------------------------------------------------

EmptyMem ==
  s_reset_cursor([[p \in Places |-> DATA] EXCEPT ![m_buffer_begin].prev = 0,
                                                 ![m_buffer_end].next = 0],
                 m_buffer_begin, m_buffer_end)

\* setup
Init ==
  /\ mem = EmptyMem
  /\ m_buffer_cursor = m_buffer_begin + 1
  /\ live = {}

reset ==
  /\ mem' = EmptyMem
  /\ m_buffer_cursor' = m_buffer_begin + 1
  /\ live' = {}

\* A block behind the node at c, and the new cursor behind the block.
Take(m, c, size) ==
  LET new == c + 1 + size
      end == get_next(m, c)
      written == [p \in Places |-> IF c < p /\ p < new THEN DATA ELSE m[p]]
  IN  Link(Link(written, c, new), new, end)

\* The block is handed out from the cursor c.
Allocate(m, c, size, align) ==
  LET at  == c + Shift(c, align)
      aligned == Moved(m, c, align)
  IN  /\ AvoidExactFit => at + 1 + size # get_next(aligned, at)
      /\ mem' = Take(aligned, at, size)
      /\ m_buffer_cursor' = at + 1 + size
      /\ live' = live \cup {[ptr |-> at + 1, len |-> size]}

\* A call on a broken chain follows a null link or ends in an assertion: the
\* model ends there.
AllocateAtCursor(size, align) ==
  /\ s_validate_chain
  /\ m_buffer_cursor # m_buffer_end
  /\ Fits(mem, m_buffer_cursor, size, align)
  /\ Allocate(mem, m_buffer_cursor, size, align)

\* Out of memory: no room behind a cursor that is first in the chain.
AllocateFails(size, align) ==
  /\ s_validate_chain
  /\ m_buffer_cursor # m_buffer_end =>
       /\ ~Fits(mem, m_buffer_cursor, size, align)
       /\ get_prev(mem, m_buffer_cursor) = m_buffer_begin
  /\ UNCHANGED vars

\* Mutant: the cursor stays in the chain.
Detached_Not == mem

\* The chain without the cursor.
Detached ==
  [Link(mem, get_prev(mem, m_buffer_cursor), get_next(mem, m_buffer_cursor))
     EXCEPT ![m_buffer_cursor] = DATA]

\* The cursor goes from the end of the chain to its begin.
Wrapped == s_reset_cursor(Detached, m_buffer_begin, get_next(Detached, m_buffer_begin))

MustWrap(size, align) ==
  /\ s_validate_chain
  /\ m_buffer_cursor # m_buffer_end
  /\ ~Fits(mem, m_buffer_cursor, size, align)
  /\ get_prev(mem, m_buffer_cursor) # m_buffer_begin
  /\ AvoidWrap => get_next(Detached, m_buffer_begin) # m_buffer_begin + 1

AllocateWraps(size, align) ==
  /\ MustWrap(size, align)
  /\ Fits(Wrapped, m_buffer_begin + 1, size, align)
  /\ Allocate(Wrapped, m_buffer_begin + 1, size, align)

\* nullptr, with the cursor moved.
AllocateFailsWrapped(size, align) ==
  /\ MustWrap(size, align)
  /\ ~Fits(Wrapped, m_buffer_begin + 1, size, align)
  /\ mem' = Wrapped
  /\ m_buffer_cursor' = m_buffer_begin + 1
  /\ UNCHANGED live

\* Mutant: the cursor is not moved further to the left.
Leftmost_Stays(m, node) == node

\* Where the cursor goes that takes the place of a freed node.
Leftmost(m, node) ==
  IF get_prev(m, node) = m_buffer_begin THEN m_buffer_begin + 1 ELSE node

\* The cursor is next to the freed node: it takes its place.
DeallocateBeforeCursor(b) ==
  LET node == b.ptr - 1
      to   == Leftmost(mem, node)
      prev == get_prev(mem, node)
      next == get_next(mem, m_buffer_cursor)
      left == [mem EXCEPT ![m_buffer_cursor] = DATA, ![node] = DATA]
  IN  /\ s_validate_chain
      /\ m_buffer_cursor = get_next(mem, node)
      /\ mem' = Link(Link(left, prev, to), to, next)
      /\ m_buffer_cursor' = to
      /\ live' = live \ {b}

\* Any other node leaves the chain, and the space is that of its left neighbour.
DeallocateElsewhere(b) ==
  LET node == b.ptr - 1
  IN  /\ s_validate_chain
      /\ m_buffer_cursor # get_next(mem, node)
      /\ mem' = [Link(mem, get_prev(mem, node), get_next(mem, node)) EXCEPT ![node] = DATA]
      /\ live' = live \ {b}
      /\ UNCHANGED m_buffer_cursor

Next ==
  \/ reset
  \/ \E size \in Sizes, align \in Alignments : AllocateAtCursor(size, align)
  \/ \E size \in Sizes, align \in Alignments : AllocateFails(size, align)
  \/ \E size \in Sizes, align \in Alignments : AllocateWraps(size, align)
  \/ \E size \in Sizes, align \in Alignments : AllocateFailsWrapped(size, align)
  \/ \E b \in live : DeallocateBeforeCursor(b)
  \/ \E b \in live : DeallocateElsewhere(b)

Spec == Init /\ [][Next]_vars

-----------------------------------------------------------------------------
(* Properties                                                              *)

\* Types: links are offsets within the buffer.
TypeOK ==
  /\ mem \in [Places -> [next : -1..m_buffer_end, prev : -1..m_buffer_end]]
  /\ m_buffer_cursor \in Places \ {m_buffer_begin}
  /\ live \subseteq [ptr : Places, len : Sizes]

\* "ASSERT(s_validate_chain(m_buffer_begin, m_buffer_end))" after every allocation
\* and deallocation (c_allocator_forward.cpp:157, 215 and 259), and the chain is that
\* of the live blocks and the cursor: no block is forgotten, no node of a freed block
\* stays, and a block ends in front of the next node, the cursor or another block.
ChainIsLive ==
  /\ TypeOK
  /\ s_validate_chain
  /\ Chain = {m_buffer_begin, m_buffer_cursor, m_buffer_end} \cup {b.ptr - 1 : b \in live}
  /\ \A b \in live : b.ptr + b.len <= get_next(mem, b.ptr - 1)

\* When the client has freed everything, in whatever order, the allocator is
\* empty: the cursor is the first node and all space is behind it.
EmptyAgain == live = {} => is_empty

\* Seen by its client this is a region allocator over the buffer.
Regions == INSTANCE RegionAllocator WITH Limit <- m_buffer_end

ImplementsRegions == Regions!Spec

=============================================================================
