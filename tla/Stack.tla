-------------------------------- MODULE Stack --------------------------------
(***************************************************************************)
(* stack_allocator_t of c_allocator_stack.cpp: blocks are bumped off an    *)
(* arena; a save point opens a scope, and restoring it gives back all      *)
(* addresses of the scope at once.  The allocator counts the blocks that   *)
(* are not deallocated; a save point is a word in the arena that holds the *)
(* count, to be compared when the point is restored.                       *)
(*                                                                         *)
(* Scopes are nested, as defer_t opens and closes them, and a client frees *)
(* a block in the scope it allocated it in, as the assertion of            *)
(* v_restore_point requires.  Addresses are in words of an int_t and start *)
(* behind the allocator itself.                                            *)
(***************************************************************************)
EXTENDS Integers, FiniteSets, SequencesExt

CONSTANTS
  ArenaSize,        \* what the arena has room for
  Sizes,            \* the sizes the client asks for
  Alignments,       \* and the alignments
  MaxFailed,        \* bound: failed allocations of one scope
  MaxScopes         \* bound: scopes open at a time

ASSUME StackAssumption ==
  /\ ArenaSize \in Nat /\ MaxFailed \in Nat /\ MaxScopes \in Nat
  /\ Sizes \subseteq Nat \ {0} /\ Alignments \subseteq Nat \ {0}

VARIABLES
  arena,                \* the first address not allocated
  m_allocation_count,
  words,                \* the words of the save points, by address
  points,               \* history: the open save points, the outermost first
  live,                 \* history: the blocks the client holds
  failed                \* history: failed allocations of each open scope

vars == <<arena, m_allocation_count, words, points, live, failed>>

\* The number of the innermost scope: 0 outside of all save points.
Scope == Len(points)

-----------------------------------------------------------------------------
(* narena is external.                                                     *)

AlignUp(x, a) == ((x + a - 1) \div a) * a

\* narena::alloc returns memory, from Place on.
Place(alignment) == AlignUp(arena, alignment)
HasRoom(size, alignment) == Place(alignment) + size <= ArenaSize

-----------------------------------------------------------------------------

\* g_create_stack_allocator
Init ==
  /\ arena = 0
  /\ m_allocation_count = 0
  /\ words = << >>
  /\ points = << >>
  /\ live = {}
  /\ failed = <<0>>

\* Mutant: the count is not set.
RestoredCount_Kept(point) == m_allocation_count

RestoredCount(point) == words[point]

\* Mutant: the point that was opened first is restored.
RestoredAddress_Outermost(point) == points[1]

RestoredAddress(point) == point

v_allocate(size, alignment) ==
  /\ HasRoom(size, alignment)
  /\ m_allocation_count' = m_allocation_count + 1
  /\ arena' = Place(alignment) + size
  /\ live' = live \cup {[ptr |-> Place(alignment), len |-> size, scope |-> Scope]}
  /\ UNCHANGED <<words, points, failed>>

\* nullptr: the count is incremented before the arena is asked.
v_allocate_Fails(size, alignment) ==
  /\ ~HasRoom(size, alignment)
  /\ failed[Scope + 1] < MaxFailed
  /\ m_allocation_count' = m_allocation_count + 1
  /\ failed' = [failed EXCEPT ![Scope + 1] = @ + 1]
  /\ UNCHANGED <<arena, words, points, live>>

v_deallocate(b) ==
  /\ b.scope = Scope
  /\ m_allocation_count' = m_allocation_count - 1
  /\ live' = live \ {b}
  /\ UNCHANGED <<arena, words, points, failed>>

\* Without room for the word nullptr is written to: the client must not open a
\* scope then.
v_save_point ==
  LET point == Place(1)
  IN  /\ HasRoom(1, 1) /\ Scope < MaxScopes
      /\ arena' = point + 1
      /\ words' = [p \in DOMAIN words \cup {point} |->
                     IF p = point THEN m_allocation_count ELSE words[p]]
      /\ points' = Append(points, point)
      /\ failed' = Append(failed, 0)
      /\ UNCHANGED <<m_allocation_count, live>>

\* The client has deallocated the blocks of the scope.
v_restore_point ==
  /\ points # << >>
  /\ \A b \in live : b.scope # Scope
  /\ m_allocation_count' = RestoredCount(Last(points))
  /\ arena' = RestoredAddress(Last(points))
  /\ words' = [p \in DOMAIN words \ {Last(points)} |-> words[p]]
  /\ points' = Front(points)
  /\ failed' = Front(failed)
  /\ UNCHANGED live

\* g_destroy_stack_allocator, and a new allocator.
g_destroy_stack_allocator ==
  /\ arena' = 0
  /\ m_allocation_count' = 0
  /\ words' = << >>
  /\ points' = << >>
  /\ live' = {}
  /\ failed' = <<0>>

Next ==
  \/ \E size \in Sizes, alignment \in Alignments : v_allocate(size, alignment)
  \/ \E size \in Sizes, alignment \in Alignments : v_allocate_Fails(size, alignment)
  \/ \E b \in live : v_deallocate(b)
  \/ v_save_point
  \/ v_restore_point
  \/ g_destroy_stack_allocator

Spec == Init /\ [][Next]_vars

-----------------------------------------------------------------------------
(* Properties                                                              *)

CountAt(k) == IF k = 0 THEN 0 ELSE words[points[k]]

LiveIn(k) == Cardinality({b \in live : b.scope = k})

\* "Has the user forgotten to deallocate one or more allocations?" asks
\* v_restore_point of the difference of two counts.  In every open scope, the outer
\* ones too, the difference is that of the blocks the client still holds and of the
\* allocations that failed: no scope inherits anything from one that was closed.
CountIsExplained ==
  \A k \in 0..Scope :
    LET end == IF k = Scope THEN m_allocation_count ELSE CountAt(k + 1)
    IN  end - CountAt(k) = LiveIn(k) + failed[k + 1]

\* A region allocator, whose regions are the blocks and the words of the save
\* points: restoring a point never gives back what an outer scope still uses.
Regions ==
  INSTANCE RegionAllocator
    WITH Limit <- ArenaSize,
         live <- {[ptr |-> b.ptr, len |-> b.len] : b \in live}
                   \cup {[ptr |-> p, len |-> 1] : p \in ToSet(points)}

ImplementsRegions == Regions!Spec

=============================================================================
