------------------------------- MODULE Linear -------------------------------
(***************************************************************************)
(* linear_alloc_imp_t of c_allocator_linear.cpp: blocks are bumped off an  *)
(* arena, deallocating does nothing, and reset gives back everything that  *)
(* was allocated behind the allocator itself.  narena is external.         *)
(*                                                                         *)
(* Addresses are in bytes; the allocator takes up the first ones.          *)
(***************************************************************************)
EXTENDS Integers

CONSTANTS
  ArenaSize,        \* reserved_size
  SizeOfAllocator,  \* sizeof(linear_alloc_imp_t)
  Sizes,            \* the sizes the client asks for, 0 among them
  Alignments        \* and the alignments

VARIABLES
  arena,            \* the first address not allocated
  m_save_address,
  live              \* history: the blocks the client uses

vars == <<arena, m_save_address, live>>

\* narena::alloc returns memory from here on.
Place(alignment) == ((arena + alignment - 1) \div alignment) * alignment
HasRoom(size, alignment) == Place(alignment) + size <= ArenaSize

-----------------------------------------------------------------------------

\* g_create_linear_allocator
Init ==
  /\ arena = SizeOfAllocator
  /\ m_save_address = arena
  /\ live = {}

Behind(size, alignment) == Place(alignment) + size

v_allocate(size, alignment) ==
  /\ size # 0 /\ HasRoom(size, alignment)
  /\ arena' = Behind(size, alignment)
  /\ live' = live \cup {[ptr |-> Place(alignment), len |-> size]}
  /\ UNCHANGED m_save_address

\* nullptr
v_allocate_Fails(size, alignment) ==
  /\ size = 0 \/ ~HasRoom(size, alignment)
  /\ UNCHANGED vars

\* The client does not use the block any more; the allocator is not changed.
v_deallocate(b) ==
  /\ live' = live \ {b}
  /\ UNCHANGED <<arena, m_save_address>>

\* Mutant: the address of the allocator itself is restored.
ResetTo_Start == 0

ResetTo == m_save_address

v_reset ==
  /\ arena' = ResetTo
  /\ live' = {}
  /\ UNCHANGED m_save_address

\* g_destroy_allocator, and a new allocator.
g_destroy_allocator ==
  /\ arena' = SizeOfAllocator
  /\ m_save_address' = arena'
  /\ live' = {}

Next ==
  \/ \E size \in Sizes, alignment \in Alignments : v_allocate(size, alignment)
  \/ \E size \in Sizes, alignment \in Alignments : v_allocate_Fails(size, alignment)
  \/ \E b \in live : v_deallocate(b)
  \/ v_reset
  \/ g_destroy_allocator

Spec == Init /\ [][Next]_vars

-----------------------------------------------------------------------------
(* Properties                                                              *)

\* A region allocator of the memory behind the allocator itself: no block lies over
\* it, or over a block that is still in use.
Regions ==
  INSTANCE RegionAllocator
    WITH Limit <- ArenaSize - SizeOfAllocator,
         live <- {[ptr |-> b.ptr - SizeOfAllocator, len |-> b.len] : b \in live}

ImplementsRegions == Regions!Spec

=============================================================================
