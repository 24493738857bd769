---------------------------- MODULE CursorProofs ----------------------------
(***************************************************************************)
(* Proofs about Frame, Stack, Linear and Forward, for arenas, buffers,     *)
(* sizes and alignments of every value, frames of every number and scopes  *)
(* nested to every depth: a lane switch gives back no memory of a frame    *)
(* that is held, the counts of all open scopes are those of their own      *)
(* blocks, no scope gives back what an outer one uses, the chain of the    *)
(* forward allocator is that of its live blocks, and no block is handed    *)
(* out over another one.                                                   *)
(***************************************************************************)
EXTENDS MCCursors, Arithmetic, FiniteSetTheorems, SequenceTheorems, TLAPS

-----------------------------------------------------------------------------
(* Stack: the inductive invariant                                          *)

Block == [ptr : Nat, len : Sizes, scope : Nat]

\* Each open save point has its word, and the numbers are what they count.
Types ==
  /\ arena \in 0..ArenaSize
  /\ m_allocation_count \in Int
  /\ points \in Seq(Nat)
  /\ DOMAIN words = {points[k] : k \in 1..Scope}
  /\ \A k \in 1..Scope : words[points[k]] \in Int
  /\ live \subseteq Block /\ IsFiniteSet(live)
  /\ \A b \in live : b.scope <= Scope
  /\ failed \in Seq(Nat) /\ Len(failed) = Scope + 1

\* The words of the save points are in order, and between two of them lie the
\* blocks of the scope that the lower one opened.
Layout ==
  /\ \A k \in 1..Scope : points[k] + 1 <= arena
  /\ \A j, k \in 1..Scope : j < k => points[j] + 1 <= points[k]
  /\ \A b \in live : b.ptr + b.len <= arena
  /\ \A b \in live, k \in 1..Scope :
       IF b.scope < k THEN b.ptr + b.len <= points[k] ELSE points[k] + 1 <= b.ptr
  /\ \A b, c \in live : b # c => b.ptr + b.len <= c.ptr \/ c.ptr + c.len <= b.ptr

IInv == Types /\ Layout /\ CountIsExplained

-----------------------------------------------------------------------------

\* Memory starts at the first free address or behind it, and at it without an
\* alignment.
LEMMA PlaceBounds ==
  ASSUME arena \in Nat, NEW a \in Nat \ {0}
  PROVE  Place(a) \in Nat /\ arena <= Place(a) /\ Place(1) = arena
  <1>1. Place(a) \in Nat /\ arena <= Place(a)
    BY RoundUp DEF Place, AlignUp
  <1>2. arena % 1 = 0
    BY SMT
  <1>3. Place(1) = arena
    BY <1>2, RoundUp DEF Place, AlignUp
  <1> QED BY <1>1, <1>3

LEMMA AppendFacts ==
  ASSUME NEW S, NEW s \in Seq(S), NEW x \in S
  PROVE  /\ Append(s, x) \in Seq(S) /\ Len(s) \in Nat
         /\ Len(Append(s, x)) = Len(s) + 1
         /\ Append(s, x)[Len(s) + 1] = x
         /\ \A k \in 1..Len(s) : Append(s, x)[k] = s[k]
  OBVIOUS

LEMMA FrontFacts ==
  ASSUME NEW S, NEW s \in Seq(S), s # << >>
  PROVE  /\ Front(s) \in Seq(S) /\ Len(s) \in Nat \ {0}
         /\ Len(Front(s)) = Len(s) - 1
         /\ \A k \in 1..Len(s)-1 : Front(s)[k] = s[k]
  <1> DEFINE n == Len(s) - 1
  <1>1. Len(s) \in Nat \ {0} /\ \A k \in 1..Len(s) : s[k] \in S
    OBVIOUS
  <1>2. n \in Nat /\ \A k \in 1..n : s[k] \in S
    BY <1>1
  <1> HIDE DEF n
  <1>3. /\ SubSeq(s, 1, n) \in Seq(S)
        /\ Len(SubSeq(s, 1, n)) = IF 1 <= n THEN n - 1 + 1 ELSE 0
        /\ \A k \in 1..n - 1 + 1 : SubSeq(s, 1, n)[k] = s[1 + k - 1]
    BY <1>2, SubSeqProperties
  <1>4. /\ Len(SubSeq(s, 1, n)) = n
        /\ \A k \in 1..n : SubSeq(s, 1, n)[k] = s[k]
    <2>1. n - 1 + 1 = n /\ \A k \in 1..n : 1 + k - 1 = k
      BY <1>2
    <2> QED BY <1>2, <1>3, <2>1
  <1> QED BY <1>1, <1>3, <1>4 DEF Front, n

\* The blocks of a scope are counted with a number.
LEMMA LiveInNat ==
  ASSUME Types, NEW k
  PROVE  IsFiniteSet({b \in live : b.scope = k}) /\ LiveIn(k) \in Nat
  <1>1. IsFiniteSet({b \in live : b.scope = k})
    BY FS_Subset DEF Types
  <1> QED BY <1>1, FS_CardinalityType DEF LiveIn

LEMMA InitIInv == (Init => IInv) /\ (g_destroy_stack_allocator => IInv')
  <1>1. ASSUME Init PROVE IInv
    <2>1. Scope = 0 /\ points \in Seq(Nat) /\ failed \in Seq(Nat) /\ Len(failed) = 1
      BY <1>1 DEF Init, Scope
    <2>2. DOMAIN words = {} /\ {points[k] : k \in 1..Scope} = {}
      BY <1>1, <2>1 DEF Init
    <2>3. Types
      BY <1>1, <2>1, <2>2, FS_EmptySet, StackAssumption DEF Init, Types
    <2>4. Layout
      BY <1>1, <2>1 DEF Init, Layout
    <2>5. LiveIn(0) = 0
      <3>1. {b \in live : b.scope = 0} = {}
        BY <1>1 DEF Init
      <3> QED BY <3>1, FS_EmptySet DEF LiveIn
    <2>6. CountIsExplained
      BY <1>1, <2>1, <2>5 DEF Init, CountIsExplained, CountAt
    <2> QED BY <2>3, <2>4, <2>6 DEF IInv
  <1>2. (Init => IInv)'
    BY <1>1, PTL
  <1>3. g_destroy_stack_allocator => Init'
    BY DEF g_destroy_stack_allocator, Init
  <1> QED BY <1>1, <1>2, <1>3

-----------------------------------------------------------------------------
(* allocate and deallocate                                                 *)

\* A step inside the innermost scope, that leaves the save points as they are.
LEMMA SameScope ==
  ASSUME UNCHANGED <<words, points>>
  PROVE  /\ Scope' = Scope
         /\ \A k \in 0..Scope : CountAt(k)' = CountAt(k)
  BY DEF Scope, CountAt

LEMMA AllocateIInv ==
  ASSUME IInv, NEW size \in Sizes, NEW alignment \in Alignments, v_allocate(size, alignment)
  PROVE  IInv'
  <1> DEFINE p   == Place(alignment)
             new == [ptr |-> p, len |-> size, scope |-> Scope]
  <1>1. /\ p + size <= ArenaSize /\ arena' = p + size
        /\ m_allocation_count' = m_allocation_count + 1
        /\ live' = live \cup {new}
        /\ UNCHANGED <<words, points, failed>>
    BY DEF v_allocate, HasRoom
  <1>2. Types /\ Layout /\ CountIsExplained
    BY DEF IInv
  <1>3. /\ arena \in Nat /\ p \in Nat /\ arena <= p /\ size \in Nat \ {0} /\ ArenaSize \in Nat
        /\ Scope \in Nat
    <2>1. arena \in Nat /\ alignment \in Nat \ {0} /\ size \in Nat \ {0} /\ ArenaSize \in Nat
      BY <1>2, StackAssumption DEF Types
    <2>2. Scope \in Nat
      BY <1>2 DEF Types, Scope
    <2> QED BY <2>1, <2>2, PlaceBounds
  <1> HIDE DEF p
  <1>4. Scope' = Scope /\ \A k \in 0..Scope : CountAt(k)' = CountAt(k)
    BY <1>1, SameScope
  <1>5. \A b \in live : /\ b.ptr \in Nat /\ b.len \in Nat \ {0} /\ b.scope \in Nat
                        /\ b.ptr + b.len <= arena /\ b.scope <= Scope
    BY <1>2, StackAssumption DEF Types, Layout, Block
  <1>6. new \in Block /\ new \notin live /\ new.scope = Scope
    <2>1. new \in Block /\ new.scope = Scope /\ new.ptr = p /\ new.len = size
      BY <1>3 DEF Block
    <2>2. ASSUME new \in live PROVE FALSE
      <3>1. p + size <= arena
        BY <1>5, <2>1, <2>2
      <3> QED BY <1>3, <3>1
    <2> QED BY <2>1, <2>2
  <1>7. Types'
    <2>1. IsFiniteSet(live')
      BY <1>1, <1>2, FS_AddElement DEF Types
    <2>2. arena' \in 0..ArenaSize
      BY <1>1, <1>3
    <2> QED BY <1>1, <1>2, <1>3, <1>4, <1>6, <2>1, <2>2 DEF Types
  <1>8. Layout'
    <2>1. \A k \in 1..Scope : points[k] \in Nat /\ points[k] + 1 <= arena
      BY <1>2 DEF Types, Layout, Scope
    <2>2. \A k \in 1..Scope : points[k] + 1 <= p /\ points[k] + 1 <= arena'
      BY <1>1, <1>3, <2>1
    <2>3. \A b \in live : b.ptr + b.len <= p /\ b.ptr + b.len <= arena'
      BY <1>1, <1>3, <1>5
    <2>4. \A b \in live', k \in 1..Scope :
             IF b.scope < k THEN b.ptr + b.len <= points[k] ELSE points[k] + 1 <= b.ptr
      <3>1. \A k \in 1..Scope : ~(new.scope < k)
        BY <1>3, <1>6
      <3> QED BY <1>1, <1>2, <2>2, <3>1 DEF Layout
    <2>5. \A b, c \in live' : b # c => b.ptr + b.len <= c.ptr \/ c.ptr + c.len <= b.ptr
      BY <1>1, <1>2, <2>3 DEF Layout
    <2>6. \A b \in live' : b.ptr + b.len <= arena'
      BY <1>1, <1>3, <2>3
    <2>7. \A j, k \in 1..Scope : j < k => points[j] + 1 <= points[k]
      BY <1>2 DEF Layout
    <2> QED BY <1>1, <1>4, <2>2, <2>4, <2>5, <2>6, <2>7 DEF Layout
  <1>9. LiveIn(Scope)' = LiveIn(Scope) + 1 /\ LiveIn(Scope) \in Nat
    <2>1. {b \in live' : b.scope = Scope} = {b \in live : b.scope = Scope} \cup {new}
      BY <1>1, <1>6
    <2>2. new \notin {b \in live : b.scope = Scope}
      BY <1>6
    <2>3. IsFiniteSet({b \in live : b.scope = Scope}) /\ LiveIn(Scope) \in Nat
      BY <1>2, LiveInNat
    <2>4. LiveIn(Scope)' = Cardinality({b \in live' : b.scope = Scope})
      BY <1>4 DEF LiveIn
    <2>5. Cardinality({b \in live : b.scope = Scope} \cup {new}) = LiveIn(Scope) + 1
      BY <2>2, <2>3, FS_AddElement DEF LiveIn
    <2> QED BY <2>1, <2>3, <2>4, <2>5
  <1>10. \A k \in 0..Scope : k # Scope => LiveIn(k)' = LiveIn(k)
    <2> SUFFICES ASSUME NEW k \in 0..Scope, k # Scope
                 PROVE  {b \in live' : b.scope = k} = {b \in live : b.scope = k}
      BY DEF LiveIn
    <2> QED BY <1>1, <1>6
  <1>11. CountIsExplained'
    <2> SUFFICES ASSUME NEW k \in 0..Scope
                 PROVE  (IF k = Scope THEN m_allocation_count' ELSE CountAt(k + 1)')
                          - CountAt(k)' = LiveIn(k)' + failed'[k + 1]
      BY <1>4 DEF CountIsExplained
    <2>1. (IF k = Scope THEN m_allocation_count ELSE CountAt(k + 1))
             - CountAt(k) = LiveIn(k) + failed[k + 1]
      BY <1>2 DEF CountIsExplained
    <2>2. CASE k # Scope
      <3>1. k + 1 \in 0..Scope
        BY <1>3, <2>2
      <3> QED BY <1>1, <1>4, <1>10, <2>1, <2>2, <3>1
    <2>3. CASE k = Scope
      <3>1. m_allocation_count \in Int /\ failed[k + 1] \in Int /\ CountAt(k) \in Int
        BY <1>2, <1>3, <2>3 DEF Types, CountAt
      <3> QED BY <1>1, <1>3, <1>4, <1>9, <2>1, <2>3, <3>1
    <2> QED BY <2>2, <2>3
  <1> QED BY <1>7, <1>8, <1>11 DEF IInv

LEMMA CountedUp ==
  ASSUME NEW s \in Seq(Nat), NEW n \in 1..Len(s)
  PROVE  LET t == [s EXCEPT ![n] = @ + 1]
         IN  /\ t \in Seq(Nat) /\ Len(t) = Len(s) /\ t[n] = s[n] + 1
             /\ \A k \in 1..Len(s) : s[k] \in Nat /\ (k # n => t[k] = s[k])
  OBVIOUS

LEMMA AllocateFailsIInv ==
  ASSUME IInv, NEW size \in Sizes, NEW alignment \in Alignments,
         v_allocate_Fails(size, alignment)
  PROVE  IInv'
  <1>1. /\ m_allocation_count' = m_allocation_count + 1
        /\ failed' = [failed EXCEPT ![Scope + 1] = @ + 1]
        /\ UNCHANGED <<arena, words, points, live>>
    BY DEF v_allocate_Fails
  <1>2. Types /\ Layout /\ CountIsExplained
    BY DEF IInv
  <1>3. Scope' = Scope /\ (\A k \in 0..Scope : CountAt(k)' = CountAt(k)) /\ Scope \in Nat
    <2>1. Scope \in Nat
      BY <1>2 DEF Types, Scope
    <2> QED BY <1>1, <2>1, SameScope
  <1>4. /\ failed' \in Seq(Nat) /\ Len(failed') = Scope + 1
        /\ failed'[Scope + 1] = failed[Scope + 1] + 1
        /\ \A k \in 1..Scope : failed'[k] = failed[k]
        /\ \A k \in 1..Scope + 1 : failed[k] \in Nat
    <2>1. failed \in Seq(Nat) /\ Len(failed) = Scope + 1 /\ Scope + 1 \in 1..Len(failed)
      BY <1>2, <1>3 DEF Types
    <2>2. \A k \in 1..Scope : k \in 1..Len(failed) /\ k # Scope + 1
      BY <1>3, <2>1
    <2> QED BY <1>1, <2>1, <2>2, CountedUp
  <1>5. Types'
    BY <1>1, <1>2, <1>3, <1>4 DEF Types
  <1>6. Layout'
    BY <1>1, <1>2, <1>3 DEF Layout
  <1>7. CountIsExplained'
    <2> SUFFICES ASSUME NEW k \in 0..Scope
                 PROVE  (IF k = Scope THEN m_allocation_count' ELSE CountAt(k + 1)')
                          - CountAt(k)' = LiveIn(k)' + failed'[k + 1]
      BY <1>3 DEF CountIsExplained
    <2>1. (IF k = Scope THEN m_allocation_count ELSE CountAt(k + 1))
             - CountAt(k) = LiveIn(k) + failed[k + 1]
      BY <1>2 DEF CountIsExplained
    <2>2. LiveIn(k)' = LiveIn(k) /\ LiveIn(k) \in Nat
      BY <1>1, <1>2, LiveInNat DEF LiveIn
    <2>3. CASE k # Scope
      <3>1. k + 1 \in 0..Scope /\ k + 1 \in 1..Scope
        BY <1>3, <2>3
      <3> QED BY <1>3, <1>4, <2>1, <2>2, <2>3, <3>1
    <2>4. CASE k = Scope
      <3>1. m_allocation_count \in Int /\ failed[k + 1] \in Int /\ CountAt(k) \in Int
        BY <1>2, <1>3, <1>4, <2>4 DEF Types, CountAt
      <3> QED BY <1>1, <1>3, <1>4, <2>1, <2>2, <2>4, <3>1, SMTT(60)
    <2> QED BY <2>3, <2>4
  <1> QED BY <1>5, <1>6, <1>7 DEF IInv

LEMMA DeallocateIInv ==
  ASSUME IInv, NEW d \in live, v_deallocate(d)
  PROVE  IInv'
  <1>1. /\ d.scope = Scope
        /\ m_allocation_count' = m_allocation_count - 1
        /\ live' = live \ {d}
        /\ UNCHANGED <<arena, words, points, failed>>
    BY DEF v_deallocate
  <1>2. Types /\ Layout /\ CountIsExplained
    BY DEF IInv
  <1>3. Scope' = Scope /\ (\A k \in 0..Scope : CountAt(k)' = CountAt(k)) /\ Scope \in Nat
    <2>1. Scope \in Nat
      BY <1>2 DEF Types, Scope
    <2> QED BY <1>1, <2>1, SameScope
  <1>4. Types'
    <2>1. IsFiniteSet(live')
      BY <1>1, <1>2, FS_RemoveElement DEF Types
    <2>2. m_allocation_count' \in Int
      BY <1>1, <1>2 DEF Types
    <2> QED BY <1>1, <1>2, <1>3, <2>1, <2>2 DEF Types
  <1>5. Layout'
    BY <1>1, <1>2, <1>3 DEF Layout
  <1>6. LiveIn(Scope)' = LiveIn(Scope) - 1 /\ LiveIn(Scope) \in Nat
    <2>1. {b \in live' : b.scope = Scope} = {b \in live : b.scope = Scope} \ {d}
      BY <1>1
    <2>2. d \in {b \in live : b.scope = Scope}
      BY <1>1
    <2>3. IsFiniteSet({b \in live : b.scope = Scope}) /\ LiveIn(Scope) \in Nat
      BY <1>2, LiveInNat
    <2>4. LiveIn(Scope)' = Cardinality({b \in live' : b.scope = Scope})
      BY <1>3 DEF LiveIn
    <2>5. Cardinality({b \in live : b.scope = Scope} \ {d}) = LiveIn(Scope) - 1
      BY <2>2, <2>3, FS_RemoveElement DEF LiveIn
    <2> QED BY <2>1, <2>3, <2>4, <2>5
  <1>7. \A k \in 0..Scope : k # Scope => LiveIn(k)' = LiveIn(k)
    <2> SUFFICES ASSUME NEW k \in 0..Scope, k # Scope
                 PROVE  {b \in live' : b.scope = k} = {b \in live : b.scope = k}
      BY DEF LiveIn
    <2> QED BY <1>1
  <1>8. CountIsExplained'
    <2> SUFFICES ASSUME NEW k \in 0..Scope
                 PROVE  (IF k = Scope THEN m_allocation_count' ELSE CountAt(k + 1)')
                          - CountAt(k)' = LiveIn(k)' + failed'[k + 1]
      BY <1>3 DEF CountIsExplained
    <2>1. (IF k = Scope THEN m_allocation_count ELSE CountAt(k + 1))
             - CountAt(k) = LiveIn(k) + failed[k + 1]
      BY <1>2 DEF CountIsExplained
    <2>2. CASE k # Scope
      <3>1. k + 1 \in 0..Scope
        BY <1>3, <2>2
      <3> QED BY <1>1, <1>3, <1>7, <2>1, <2>2, <3>1
    <2>3. CASE k = Scope
      <3>1. m_allocation_count \in Int /\ failed[k + 1] \in Int /\ CountAt(k) \in Int
        BY <1>2, <1>3, <2>3 DEF Types, CountAt
      <3> QED BY <1>1, <1>3, <1>6, <2>1, <2>3, <3>1
    <2> QED BY <2>2, <2>3
  <1> QED BY <1>4, <1>5, <1>8 DEF IInv

-----------------------------------------------------------------------------
(* Save and restore points                                                 *)

LEMMA SavePointIInv ==
  ASSUME IInv, v_save_point
  PROVE  IInv'
  <1> DEFINE p == Place(1)
  <1>1. /\ p + 1 <= ArenaSize /\ arena' = p + 1
        /\ words' = [q \in DOMAIN words \cup {p} |->
                       IF q = p THEN m_allocation_count ELSE words[q]]
        /\ points' = Append(points, p)
        /\ failed' = Append(failed, 0)
        /\ UNCHANGED <<m_allocation_count, live>>
    BY DEF v_save_point, HasRoom
  <1>2. Types /\ Layout /\ CountIsExplained
    BY DEF IInv
  <1>3. p \in Nat /\ p = arena /\ ArenaSize \in Nat
    BY <1>2, PlaceBounds, StackAssumption DEF Types
  <1> HIDE DEF p
  <1>4. /\ points' \in Seq(Nat) /\ Scope \in Nat /\ Scope' = Scope + 1
        /\ points'[Scope + 1] = p
        /\ \A k \in 1..Scope : points'[k] = points[k] /\ points[k] \in Nat
    <2>1. points \in Seq(Nat) /\ Len(points) = Scope
      BY <1>2 DEF Types, Scope
    <2>2. \A k \in 1..Scope : points[k] \in Nat
      BY <2>1
    <2> QED BY <1>1, <1>3, <2>1, <2>2, AppendFacts DEF Scope
  <1>5. /\ failed' \in Seq(Nat) /\ Len(failed') = Scope + 2
        /\ failed'[Scope + 2] = 0
        /\ \A k \in 1..Scope + 1 : failed'[k] = failed[k]
    <2>1. failed \in Seq(Nat) /\ Len(failed) = Scope + 1 /\ Scope + 1 + 1 = Scope + 2
      BY <1>2, <1>4 DEF Types
    <2> QED BY <1>1, <2>1, AppendFacts
  <1>6. \A k \in 1..Scope : points[k] + 1 <= p /\ points[k] # p
    BY <1>2, <1>3, <1>4 DEF Layout
  <1>7. /\ words'[p] = m_allocation_count
        /\ \A k \in 1..Scope : words'[points[k]] = words[points[k]]
        /\ DOMAIN words' = DOMAIN words \cup {p}
    <2>1. \A k \in 1..Scope : points[k] \in DOMAIN words
      BY <1>2 DEF Types
    <2> QED BY <1>1, <1>6, <2>1
  <1>8. Types'
    <2>1. DOMAIN words' = {points'[k] : k \in 1..Scope'}
      <3>1. 1..Scope' = (1..Scope) \cup {Scope + 1}
        BY <1>4
      <3>2. DOMAIN words = {points[k] : k \in 1..Scope}
        BY <1>2 DEF Types
      <3>3. /\ \A k \in 1..Scope : points'[k] = points[k]
            /\ points'[Scope + 1] = p
        BY <1>4
      <3>4. \A x : x \in DOMAIN words' <=> \E k \in 1..Scope' : x = points'[k]
        <4>1. \A x : x \in DOMAIN words' <=> x = p \/ \E k \in 1..Scope : x = points[k]
          BY ONLY <1>7, <3>2
        <4> QED BY ONLY <3>1, <3>3, <4>1
      <3> QED BY ONLY <3>4
    <2>2. \A k \in 1..Scope' : words'[points'[k]] \in Int
      <3>1. \A k \in 1..Scope' : k \in 1..Scope \/ k = Scope + 1
        BY <1>4
      <3> QED BY <1>2, <1>4, <1>7, <3>1 DEF Types
    <2>3. \A b \in live' : b.scope <= Scope'
      BY <1>1, <1>2, <1>4 DEF Types, Block
    <2>4. arena' \in 0..ArenaSize
      BY <1>1, <1>3
    <2>5. Len(failed') = Scope' + 1
      BY <1>4, <1>5
    <2> QED BY <1>1, <1>2, <1>4, <1>5, <2>1, <2>2, <2>3, <2>4, <2>5 DEF Types
  <1>9. Layout'
    <2>1. \A k \in 1..Scope' : k \in 1..Scope \/ k = Scope + 1
      BY <1>4
    <2>2. \A b \in live : /\ b.ptr \in Nat /\ b.len \in Nat /\ b.scope \in Nat
                          /\ b.ptr + b.len <= p /\ b.scope < Scope + 1
      <3> SUFFICES ASSUME NEW b \in live
                   PROVE  /\ b.ptr \in Nat /\ b.len \in Nat /\ b.scope \in Nat
                          /\ b.ptr + b.len <= p /\ b.scope < Scope + 1
        OBVIOUS
      <3>1. b.ptr \in Nat /\ b.len \in Nat /\ b.scope \in Nat /\ b.scope <= Scope
        BY <1>2, StackAssumption DEF Types, Block
      <3>2. b.ptr + b.len <= p
        BY <1>2, <1>3 DEF Layout
      <3> QED BY <1>4, <3>1, <3>2
    <2>3. \A k \in 1..Scope' : points'[k] + 1 <= arena'
      <3>1. \A k \in 1..Scope : points'[k] + 1 <= p + 1
        BY <1>3, <1>4, <1>6
      <3>2. points'[Scope + 1] + 1 = p + 1
        BY <1>4
      <3> SUFFICES ASSUME NEW k \in 1..Scope' PROVE points'[k] + 1 <= p + 1
        BY <1>1
      <3>3. CASE k \in 1..Scope
        BY <3>1, <3>3
      <3>4. CASE k = Scope + 1
        BY <1>3, <3>2, <3>4
      <3> QED BY <2>1, <3>3, <3>4
    <2>4. \A j, k \in 1..Scope' : j < k => points'[j] + 1 <= points'[k]
      <3> SUFFICES ASSUME NEW j \in 1..Scope', NEW k \in 1..Scope', j < k
                   PROVE  points'[j] + 1 <= points'[k]
        OBVIOUS
      <3>1. j \in 1..Scope
        BY <1>4, <2>1
      <3>2. CASE k = Scope + 1
        BY <1>4, <1>6, <3>1, <3>2
      <3>3. CASE k \in 1..Scope
        BY <1>2, <1>4, <3>1, <3>3 DEF Layout
      <3> QED BY <2>1, <3>2, <3>3
    <2>5. \A b \in live' : b.ptr + b.len <= arena'
      BY <1>1, <1>3, <2>2
    <2>6. \A b \in live', k \in 1..Scope' :
            IF b.scope < k THEN b.ptr + b.len <= points'[k] ELSE points'[k] + 1 <= b.ptr
      <3> SUFFICES ASSUME NEW b \in live, NEW k \in 1..Scope'
                   PROVE  IF b.scope < k THEN b.ptr + b.len <= points'[k]
                                         ELSE points'[k] + 1 <= b.ptr
        BY <1>1
      <3>1. CASE k = Scope + 1
        BY <1>4, <2>2, <3>1
      <3>2. CASE k \in 1..Scope
        <4>1. IF b.scope < k THEN b.ptr + b.len <= points[k] ELSE points[k] + 1 <= b.ptr
          BY <1>2, <3>2 DEF Layout
        <4>2. points'[k] = points[k]
          BY <1>4, <3>2
        <4> QED BY <4>1, <4>2
      <3> QED BY <2>1, <3>1, <3>2
    <2>7. \A b, c \in live' : b # c => b.ptr + b.len <= c.ptr \/ c.ptr + c.len <= b.ptr
      BY <1>1, <1>2 DEF Layout
    <2> QED BY <2>3, <2>4, <2>5, <2>6, <2>7 DEF Layout
  <1>10. CountIsExplained'
    <2>1. \A k : k = Scope + 1 => CountAt(k)' = m_allocation_count
      BY <1>4, <1>7 DEF CountAt
    <2>2. \A k \in 0..Scope : CountAt(k)' = CountAt(k)
      <3> SUFFICES ASSUME NEW k \in 0..Scope PROVE CountAt(k)' = CountAt(k)
        OBVIOUS
      <3>1. k = 0 \/ k \in 1..Scope
        BY <1>4
      <3> QED BY <1>4, <1>7, <3>1 DEF CountAt
    <2>3. \A k : LiveIn(k)' = LiveIn(k)
      BY <1>1 DEF LiveIn
    <2>4. LiveIn(Scope + 1) = 0
      <3>1. \A b \in live : b.scope # Scope + 1
        BY <1>2, <1>4 DEF Types, Block
      <3>2. {b \in live : b.scope = Scope + 1} = {}
        BY <3>1
      <3> QED BY <3>2, FS_EmptySet DEF LiveIn
    <2> SUFFICES ASSUME NEW k \in 0..Scope + 1
                 PROVE  (IF k = Scope + 1 THEN m_allocation_count' ELSE CountAt(k + 1)')
                          - CountAt(k)' = LiveIn(k)' + failed'[k + 1]
      BY <1>4 DEF CountIsExplained
    <2>5. CASE k = Scope + 1
      <3>1. k + 1 = Scope + 2 /\ m_allocation_count \in Int
        BY <1>2, <1>4, <2>5 DEF Types
      <3>2. failed'[k + 1] = 0
        BY <1>5, <3>1
      <3>3. LiveIn(k)' = 0
        BY <2>3, <2>4, <2>5
      <3>4. CountAt(k)' = m_allocation_count
        BY <2>1, <2>5
      <3>5. m_allocation_count - m_allocation_count = 0 + 0
        BY <3>1
      <3>6. (IF k = Scope + 1 THEN m_allocation_count' ELSE CountAt(k + 1)')
              = m_allocation_count
        BY <1>1, <2>5
      <3> QED BY <3>2, <3>3, <3>4, <3>5, <3>6, Zenon
    <2>6. CASE k \in 0..Scope
      <3>1. k # Scope + 1 /\ k + 1 \in 1..Scope + 1
        BY <1>4, <2>6
      <3>2. (IF k = Scope THEN m_allocation_count ELSE CountAt(k + 1))
               - CountAt(k) = LiveIn(k) + failed[k + 1]
        BY <1>2, <2>6 DEF CountIsExplained
      <3>3. CountAt(k + 1)' = IF k = Scope THEN m_allocation_count ELSE CountAt(k + 1)
        <4>1. CASE k = Scope
          BY <2>1, <4>1
        <4>2. CASE k # Scope
          <5>1. k + 1 \in 0..Scope
            BY <1>4, <2>6, <4>2
          <5> QED BY <2>2, <4>2, <5>1
        <4> QED BY <4>1, <4>2
      <3>4. failed'[k + 1] = failed[k + 1] /\ LiveIn(k)' = LiveIn(k)
            /\ CountAt(k)' = CountAt(k)
        BY <1>5, <2>2, <2>3, <2>6, <3>1
      <3> QED BY <3>1, <3>2, <3>3, <3>4
    <2>7. k = Scope + 1 \/ k \in 0..Scope
      BY <1>4
    <2> QED BY <2>5, <2>6, <2>7
  <1> QED BY <1>8, <1>9, <1>10 DEF IInv

LEMMA RestorePointIInv ==
  ASSUME IInv, v_restore_point
  PROVE  IInv'
  <1> DEFINE p == points[Scope]
             n == Scope - 1
  <1>1. /\ points # << >> /\ \A b \in live : b.scope # Scope
        /\ m_allocation_count' = words[p] /\ arena' = p
        /\ words' = [q \in DOMAIN words \ {p} |-> words[q]]
        /\ points' = Front(points) /\ failed' = Front(failed)
        /\ UNCHANGED live
    BY DEF v_restore_point, RestoredCount, RestoredAddress, Last, Scope
  <1>2. Types /\ Layout /\ CountIsExplained
    BY DEF IInv
  <1>3. /\ points' \in Seq(Nat) /\ Scope \in Nat \ {0} /\ n \in Nat /\ Scope' = n
        /\ \A k \in 1..n : points'[k] = points[k]
        /\ \A k \in 1..Scope : points[k] \in Nat
        /\ n + 1 = Scope
    <2>1. points \in Seq(Nat) /\ Len(points) = Scope
      BY <1>2 DEF Types, Scope
    <2>2. \A k \in 1..Scope : points[k] \in Nat
      BY <2>1
    <2>3. /\ Front(points) \in Seq(Nat) /\ Scope \in Nat \ {0}
          /\ Len(Front(points)) = Scope - 1
          /\ \A k \in 1..Scope-1 : Front(points)[k] = points[k]
      BY <1>1, <2>1, FrontFacts
    <2> QED BY <1>1, <2>2, <2>3 DEF Scope
  <1>4. /\ failed' \in Seq(Nat) /\ Len(failed') = Scope
        /\ \A k \in 1..Scope : failed'[k] = failed[k]
    <2>1. failed \in Seq(Nat) /\ Len(failed) = Scope + 1 /\ failed # << >>
      BY <1>2, <1>3 DEF Types
    <2>2. (Scope + 1) - 1 = Scope
      BY <1>3
    <2> QED BY <1>1, <2>1, <2>2, FrontFacts
  <1>5. \A k \in 1..n : k \in 1..Scope /\ k < Scope /\ points[k] # p /\ points[k] + 1 <= p
    <2>1. \A k \in 1..n : k \in 1..Scope /\ k < Scope
      BY <1>3
    <2>2. Scope \in 1..Scope
      BY <1>3
    <2> QED BY <1>2, <1>3, <2>1, <2>2 DEF Layout
  <1>6. /\ DOMAIN words' = DOMAIN words \ {p}
        /\ \A k \in 1..n : words'[points[k]] = words[points[k]]
        /\ p \in Nat /\ p + 1 <= arena /\ words[p] \in Int
    <2>1. \A k \in 1..Scope : points[k] \in DOMAIN words
      BY <1>2 DEF Types
    <2>2. Scope \in 1..Scope
      BY <1>3
    <2>3. p \in Nat /\ p + 1 <= arena /\ words[p] \in Int
      BY <1>2, <1>3, <2>2 DEF Types, Layout
    <2> QED BY <1>1, <1>5, <2>1, <2>3
  <1>7. \A b \in live : /\ b.ptr \in Nat /\ b.len \in Nat /\ b.scope \in Nat
                        /\ b.scope < Scope /\ b.ptr + b.len <= p
    <2> SUFFICES ASSUME NEW b \in live
                 PROVE  /\ b.ptr \in Nat /\ b.len \in Nat /\ b.scope \in Nat
                        /\ b.scope < Scope /\ b.ptr + b.len <= p
      OBVIOUS
    <2>1. b.ptr \in Nat /\ b.len \in Nat /\ b.scope \in Nat /\ b.scope <= Scope
      BY <1>2, StackAssumption DEF Types, Block
    <2>2. b.scope < Scope /\ Scope \in 1..Scope
      BY <1>1, <1>3, <2>1
    <2> QED BY <1>2, <2>1, <2>2 DEF Layout
  <1> HIDE DEF p
  <1>8. Types'
    <2>1. DOMAIN words' = {points'[k] : k \in 1..n}
      <3>1. 1..Scope = (1..n) \cup {Scope}
        BY <1>3
      <3>2. DOMAIN words = {points[k] : k \in 1..n} \cup {p}
        BY <1>2, <3>1 DEF Types, p
      <3>3. DOMAIN words' = DOMAIN words \ {p}
        BY <1>6
      <3>4. p \notin {points[k] : k \in 1..n}
        BY <1>5
      <3>5. {points'[k] : k \in 1..n} = {points[k] : k \in 1..n}
        BY <1>3
      <3> QED BY ONLY <3>2, <3>3, <3>4, <3>5
    <2>2. \A k \in 1..n : words'[points'[k]] \in Int
      BY <1>2, <1>3, <1>5, <1>6 DEF Types
    <2>3. \A b \in live' : b.scope <= n
      BY <1>1, <1>3, <1>7
    <2>4. arena' \in 0..ArenaSize
      BY <1>1, <1>2, <1>6, StackAssumption DEF Types
    <2> QED BY <1>1, <1>2, <1>3, <1>4, <1>6, <2>1, <2>2, <2>3, <2>4 DEF Types
  <1>9. Layout'
    <2>1. \A k \in 1..n : points'[k] + 1 <= arena'
      BY <1>1, <1>3, <1>5
    <2>2. \A j, k \in 1..n : j < k => points'[j] + 1 <= points'[k]
      BY <1>2, <1>3, <1>5 DEF Layout
    <2>3. \A b \in live' : b.ptr + b.len <= arena'
      BY <1>1, <1>7
    <2>4. \A b \in live', k \in 1..n :
            IF b.scope < k THEN b.ptr + b.len <= points'[k] ELSE points'[k] + 1 <= b.ptr
      BY <1>1, <1>2, <1>3, <1>5 DEF Layout
    <2>5. \A b, c \in live' : b # c => b.ptr + b.len <= c.ptr \/ c.ptr + c.len <= b.ptr
      BY <1>1, <1>2 DEF Layout
    <2> QED BY <1>3, <2>1, <2>2, <2>3, <2>4, <2>5 DEF Layout
  <1>10. CountIsExplained'
    <2>1. \A k \in 0..n : CountAt(k)' = CountAt(k)
      <3> SUFFICES ASSUME NEW k \in 0..n PROVE CountAt(k)' = CountAt(k)
        OBVIOUS
      <3>1. k = 0 \/ k \in 1..n
        BY <1>3
      <3> QED BY <1>3, <1>6, <3>1 DEF CountAt
    <2>2. m_allocation_count' = CountAt(Scope)
      BY <1>1, <1>3 DEF CountAt, p
    <2> SUFFICES ASSUME NEW k \in 0..n
                 PROVE  (IF k = n THEN m_allocation_count' ELSE CountAt(k + 1)')
                          - CountAt(k)' = LiveIn(k)' + failed'[k + 1]
      BY <1>3 DEF CountIsExplained
    <2>3. k \in 0..Scope /\ k # Scope /\ k + 1 \in 1..Scope /\ (k # n => k + 1 \in 0..n)
          /\ (k = n => k + 1 = Scope)
      BY <1>3
    <2>4. CountAt(k + 1) - CountAt(k) = LiveIn(k) + failed[k + 1]
      BY <1>2, <2>3 DEF CountIsExplained
    <2>5. LiveIn(k)' = LiveIn(k)
      BY <1>1 DEF LiveIn
    <2> QED BY <1>4, <2>1, <2>2, <2>3, <2>4, <2>5
  <1> QED BY <1>8, <1>9, <1>10 DEF IInv

-----------------------------------------------------------------------------
(* The theorems                                                            *)

LEMMA IInvInductive == IInv /\ [Next]_vars => IInv'
  <1> SUFFICES ASSUME IInv, [Next]_vars PROVE IInv'
    OBVIOUS
  <1>1. ASSUME NEW size \in Sizes, NEW alignment \in Alignments, v_allocate(size, alignment)
        PROVE  IInv'
    BY <1>1, AllocateIInv
  <1>2. ASSUME NEW size \in Sizes, NEW alignment \in Alignments,
               v_allocate_Fails(size, alignment)
        PROVE  IInv'
    BY <1>2, AllocateFailsIInv
  <1>3. ASSUME NEW b \in live, v_deallocate(b) PROVE IInv'
    BY <1>3, DeallocateIInv
  <1>4. CASE v_save_point
    BY <1>4, SavePointIInv
  <1>5. CASE v_restore_point
    BY <1>5, RestorePointIInv
  <1>6. CASE g_destroy_stack_allocator
    BY <1>6, InitIInv
  <1>7. CASE UNCHANGED vars
    <2>1. UNCHANGED <<arena, m_allocation_count, words, points, live, failed>>
      BY <1>7 DEF vars
    <2>2. Scope' = Scope /\ (\A k : CountAt(k)' = CountAt(k)) /\ \A k : LiveIn(k)' = LiveIn(k)
      BY <2>1 DEF Scope, CountAt, LiveIn
    <2>3. Types'
      BY <2>1, <2>2 DEF IInv, Types
    <2>4. Layout'
      BY <2>1, <2>2 DEF IInv, Layout
    <2>5. CountIsExplained'
      BY <2>1, <2>2 DEF IInv, CountIsExplained
    <2> QED BY <2>3, <2>4, <2>5 DEF IInv
  <1> QED BY <1>1, <1>2, <1>3, <1>4, <1>5, <1>6, <1>7 DEF Next

LEMMA InvariantOfStack == Spec => []IInv
  <1>1. Init => IInv
    BY InitIInv
  <1> QED BY <1>1, IInvInductive, PTL DEF Spec

\* In every open scope, however deep, the counts differ by the blocks that the
\* client still holds of it and by the allocations that failed in it.
THEOREM StackCountIsExplained == Spec => []CountIsExplained
  <1>1. IInv => CountIsExplained
    BY DEF IInv
  <1> QED BY <1>1, InvariantOfStack, PTL

-----------------------------------------------------------------------------
(* The refinement                                                          *)

PointRegions == {[ptr |-> p, len |-> 1] : p \in ToSet(points)}
LiveRegions  == {[ptr |-> b.ptr, len |-> b.len] : b \in live} \cup PointRegions

\* What the client holds lies below the first free address.
LEMMA RegionsBelow ==
  ASSUME IInv, NEW r \in LiveRegions
  PROVE  r.ptr \in Nat /\ r.len \in Nat /\ r.ptr + r.len <= arena
  <1>1. CASE \E b \in live : r = [ptr |-> b.ptr, len |-> b.len]
    <2>1. PICK b \in live : r = [ptr |-> b.ptr, len |-> b.len]
      BY <1>1
    <2>2. b.ptr \in Nat /\ b.len \in Nat /\ b.ptr + b.len <= arena
      BY StackAssumption DEF IInv, Types, Layout, Block
    <2> QED BY <2>1, <2>2
  <1>2. CASE \E k \in 1..Scope : r = [ptr |-> points[k], len |-> 1]
    <2>1. PICK k \in 1..Scope : r = [ptr |-> points[k], len |-> 1]
      BY <1>2
    <2>2. points[k] \in Nat /\ points[k] + 1 <= arena
      BY DEF IInv, Types, Layout, Scope
    <2> QED BY <2>1, <2>2
  <1>3. ToSet(points) = {points[k] : k \in 1..Scope}
    <2>1. DOMAIN points = 1..Scope
      BY DEF IInv, Types, Scope
    <2> QED BY ONLY <2>1 DEF ToSet
  <1> QED BY <1>1, <1>2, <1>3 DEF LiveRegions, PointRegions

\* A region behind the first free address is one that the abstract allocator
\* may hand out.
LEMMA OneMoreRegion ==
  ASSUME IInv, NEW r, r = [ptr |-> r.ptr, len |-> r.len],
         r.ptr \in Nat, r.len \in Nat, arena <= r.ptr, r.ptr + r.len <= ArenaSize,
         LiveRegions' = LiveRegions \cup {r}
  PROVE  Regions!Next
  <1>1. arena \in Nat /\ ArenaSize \in Nat
    BY StackAssumption DEF IInv, Types
  <1>2. r.ptr \in 0..ArenaSize /\ r.len \in 0..ArenaSize
    BY <1>1
  <1>3. r \in Regions!Region /\ Regions!InRange(r)
    BY <1>2 DEF Regions!Region, Regions!InRange
  <1>4. \A s \in LiveRegions : Regions!Apart(r, s)
    <2> SUFFICES ASSUME NEW s \in LiveRegions PROVE s.ptr + s.len <= r.ptr
      BY DEF Regions!Apart
    <2>1. s.ptr \in Nat /\ s.len \in Nat /\ s.ptr + s.len <= arena
      BY RegionsBelow
    <2> QED BY <1>1, <2>1
  <1> QED BY <1>3, <1>4 DEF Regions!Next, Regions!Allocate, LiveRegions, PointRegions

LEMMA AllocateRefines ==
  ASSUME IInv, NEW size \in Sizes, NEW alignment \in Alignments, v_allocate(size, alignment)
  PROVE  Regions!Next
  <1> DEFINE p == Place(alignment)
             r == [ptr |-> p, len |-> size]
  <1>1. /\ p + size <= ArenaSize /\ points' = points
        /\ live' = live \cup {[ptr |-> p, len |-> size, scope |-> Scope]}
    BY DEF v_allocate, HasRoom
  <1>2. p \in Nat /\ arena <= p /\ size \in Nat
    BY StackAssumption, PlaceBounds DEF IInv, Types
  <1> HIDE DEF p
  <1>3. LiveRegions' = LiveRegions \cup {r}
    <2>1. PointRegions' = PointRegions
      BY <1>1 DEF PointRegions
    <2>2. {[ptr |-> b.ptr, len |-> b.len] : b \in live'}
            = {[ptr |-> b.ptr, len |-> b.len] : b \in live} \cup {r}
      <3> DEFINE new == [ptr |-> p, len |-> size, scope |-> Scope]
      <3>1. live' = live \cup {new} /\ [ptr |-> new.ptr, len |-> new.len] = r
        BY <1>1
      <3> HIDE DEF new, r
      <3> QED BY <3>1, Zenon
    <2> QED BY <2>1, <2>2 DEF LiveRegions
  <1>4. /\ r.ptr = p /\ r.len = size /\ r = [ptr |-> r.ptr, len |-> r.len]
        /\ r.ptr + r.len <= ArenaSize
    BY <1>1
  <1> HIDE DEF r
  <1> QED BY <1>2, <1>3, <1>4, OneMoreRegion

LEMMA SavePointRefines ==
  ASSUME IInv, v_save_point
  PROVE  Regions!Next
  <1> DEFINE p == Place(1)
             r == [ptr |-> p, len |-> 1]
  <1>1. p + 1 <= ArenaSize /\ points' = Append(points, p) /\ live' = live
    BY DEF v_save_point, HasRoom
  <1>2. p \in Nat /\ arena <= p
    BY PlaceBounds DEF IInv, Types
  <1> HIDE DEF p
  <1>3. ToSet(points') = ToSet(points) \cup {p}
    <2>1. points \in Seq(Nat)
      BY DEF IInv, Types
    <2>2. /\ points' \in Seq(Nat) /\ Len(points) \in Nat /\ Len(points') = Len(points) + 1
          /\ points'[Len(points) + 1] = p
          /\ \A k \in 1..Len(points) : points'[k] = points[k]
      BY <1>1, <1>2, <2>1, AppendFacts
    <2>3. DOMAIN points' = DOMAIN points \cup {Len(points) + 1}
          /\ DOMAIN points = 1..Len(points)
      BY <2>1, <2>2
    <2> QED BY <2>2, <2>3 DEF ToSet
  <1>4. LiveRegions' = LiveRegions \cup {r}
    BY <1>1, <1>3 DEF LiveRegions, PointRegions
  <1>5. /\ r.ptr = p /\ r.len = 1 /\ r = [ptr |-> r.ptr, len |-> r.len]
        /\ r.ptr + r.len <= ArenaSize
    BY <1>1
  <1> HIDE DEF r
  <1> QED BY <1>2, <1>4, <1>5, OneMoreRegion

LEMMA FewerRegions ==
  ASSUME LiveRegions' \subseteq LiveRegions
  PROVE  Regions!Next
  BY DEF Regions!Next, Regions!Release, LiveRegions, PointRegions

LEMMA RestorePointRefines ==
  ASSUME IInv, v_restore_point
  PROVE  Regions!Next
  <1>1. points # << >> /\ points' = Front(points) /\ live' = live
    BY DEF v_restore_point
  <1>2. ToSet(points') \subseteq ToSet(points)
    <2>1. points \in Seq(Nat)
      BY DEF IInv, Types
    <2>2. /\ Front(points) \in Seq(Nat) /\ Len(points) \in Nat \ {0}
          /\ Len(Front(points)) = Len(points) - 1
          /\ \A k \in 1..Len(points)-1 : Front(points)[k] = points[k]
      BY <1>1, <2>1, FrontFacts
    <2>3. DOMAIN points = 1..Len(points) /\ DOMAIN Front(points) = 1..Len(points)-1
      BY <2>1, <2>2
    <2> QED BY <1>1, <2>2, <2>3 DEF ToSet
  <1>3. LiveRegions' \subseteq LiveRegions
    BY <1>1, <1>2 DEF LiveRegions, PointRegions
  <1> QED BY <1>3, FewerRegions

LEMMA NextRefines == IInv /\ [Next]_vars => [Regions!Next]_LiveRegions
  <1> SUFFICES ASSUME IInv, [Next]_vars PROVE [Regions!Next]_LiveRegions
    OBVIOUS
  <1>1. ASSUME NEW size \in Sizes, NEW alignment \in Alignments, v_allocate(size, alignment)
        PROVE  Regions!Next
    BY <1>1, AllocateRefines
  <1>2. CASE v_save_point
    BY <1>2, SavePointRefines
  <1>3. CASE v_restore_point
    BY <1>3, RestorePointRefines
  <1>4. ASSUME live' \subseteq live, points' = points \/ points' = << >>
        PROVE  Regions!Next
    <2>1. ToSet(points') \subseteq ToSet(points)
      BY <1>4 DEF ToSet
    <2>2. LiveRegions' \subseteq LiveRegions
      BY <1>4, <2>1 DEF LiveRegions, PointRegions
    <2> QED BY <2>2, FewerRegions
  <1> QED BY <1>1, <1>2, <1>3, <1>4
          DEF Next, vars, v_allocate_Fails, v_deallocate, g_destroy_stack_allocator

\* For its client the stack allocator is a region allocator: restoring a point
\* never gives back a block or a save point of an outer scope.
THEOREM StackImplementsRegions == Spec => ImplementsRegions
  <1>1. Init => Regions!Init
    <2> SUFFICES ASSUME Init PROVE LiveRegions = {}
      BY DEF Regions!Init, LiveRegions, PointRegions
    <2>1. ToSet(points) = {} /\ live = {}
      BY DEF Init, ToSet
    <2> QED BY <2>1 DEF LiveRegions, PointRegions
  <1>2. IInv /\ [Next]_vars => [Regions!Next]_LiveRegions
    BY NextRefines
  <1> QED BY <1>1, <1>2, InvariantOfStack, PTL
          DEF Spec, ImplementsRegions, Regions!Spec, LiveRegions, PointRegions

-----------------------------------------------------------------------------
(* Linear                                                                  *)

LinearBounds ==
  /\ LinearArena \in Nat /\ SizeOfAllocator \in 0..LinearArena
  /\ LinearSizes \subseteq Nat /\ LinearAlignments \subseteq Nat \ {0}

\* Blocks lie behind the allocator itself and below the first free address.
LinearInv ==
  /\ linearPlace \in SizeOfAllocator..LinearArena /\ m_save_address = SizeOfAllocator
  /\ \A b \in linearLive : /\ b.ptr \in Nat /\ b.len \in Nat
                           /\ SizeOfAllocator <= b.ptr /\ b.ptr + b.len <= linearPlace

LinearRegions == {[ptr |-> b.ptr - SizeOfAllocator, len |-> b.len] : b \in linearLive}

LEMMA LinearAllocates ==
  ASSUME LinearBounds, LinearInv, NEW size \in LinearSizes, NEW alignment \in LinearAlignments,
         Lin!v_allocate(size, alignment)
  PROVE  LinearInv' /\ Lin!Regions!Next
  <1> DEFINE place == Lin!Place(alignment)
  <1>1. linearPlace \in Nat /\ size \in Nat /\ alignment \in Nat \ {0}
    BY DEF LinearBounds, LinearInv
  <1>2. place \in Nat /\ linearPlace <= place
    BY <1>1, RoundUp DEF Lin!Place
  <1>3. /\ place + size <= LinearArena /\ linearPlace' = place + size
        /\ linearLive' = linearLive \cup {[ptr |-> place, len |-> size]}
        /\ m_save_address' = m_save_address
    BY DEF Lin!v_allocate, Lin!HasRoom, Lin!Behind
  <1> HIDE DEF place
  <1>4. LinearInv'
    BY <1>1, <1>2, <1>3 DEF LinearInv, LinearBounds
  <1> DEFINE r == [ptr |-> place - SizeOfAllocator, len |-> size]
  <1>5. LinearRegions' = LinearRegions \cup {r}
    <2>1. LinearRegions' = {[ptr |-> b.ptr - SizeOfAllocator, len |-> b.len] : b \in linearLive'}
      BY DEF LinearRegions
    <2>2. \A b \in linearLive' : b \in linearLive \/ b = [ptr |-> place, len |-> size]
      BY <1>3
    <2>3. linearLive \subseteq linearLive' /\ [ptr |-> place, len |-> size] \in linearLive'
      BY <1>3
    <2>4. LinearRegions' \subseteq LinearRegions \cup {r}
      BY <2>1, <2>2 DEF LinearRegions
    <2>5. LinearRegions \subseteq LinearRegions'
      BY <2>1, <2>3 DEF LinearRegions
    <2>6. r \in LinearRegions'
      BY <2>1, <2>3
    <2> QED BY ONLY <2>4, <2>5, <2>6
  <1>6. /\ r \in Lin!Regions!Region /\ Lin!Regions!InRange(r)
        /\ \A s \in LinearRegions : Lin!Regions!Apart(r, s)
    BY <1>1, <1>2, <1>3
       DEF LinearInv, LinearBounds, LinearRegions, Lin!Regions!Region, Lin!Regions!InRange, Lin!Regions!Apart
  <1> HIDE DEF r
  <1>7. Lin!Regions!Allocate
    BY <1>5, <1>6 DEF Lin!Regions!Allocate, LinearRegions
  <1> QED BY <1>4, <1>7 DEF Lin!Regions!Next

LEMMA LinearReleases ==
  ASSUME LinearBounds, LinearInv, linearLive' \subseteq linearLive,
         linearPlace' = linearPlace \/ (linearLive' = {} /\ linearPlace' = SizeOfAllocator),
         m_save_address' = SizeOfAllocator
  PROVE  LinearInv' /\ Lin!Regions!Next
  <1>1. LinearInv'
    BY DEF LinearInv, LinearBounds
  <1>2. Lin!Regions!Next
    BY DEF Lin!Regions!Next, Lin!Regions!Release
  <1> QED BY <1>1, <1>2

LEMMA LinearStep ==
  ASSUME LinearBounds, LinearInv, [Lin!Next]_linearVars
  PROVE  LinearInv' /\ [Lin!Regions!Next]_LinearRegions
  <1>1. ASSUME NEW size \in LinearSizes, NEW alignment \in LinearAlignments,
               Lin!v_allocate(size, alignment)
        PROVE  LinearInv' /\ [Lin!Regions!Next]_LinearRegions
    BY <1>1, LinearAllocates
  <1>2. CASE UNCHANGED linearVars
    BY <1>2 DEF linearVars, LinearInv, LinearRegions
  <1>3. ASSUME NEW size \in LinearSizes, NEW alignment \in LinearAlignments,
               Lin!v_allocate_Fails(size, alignment)
        PROVE  LinearInv' /\ [Lin!Regions!Next]_LinearRegions
    BY <1>2, <1>3 DEF Lin!v_allocate_Fails, Lin!vars, linearVars
  <1>4. ASSUME NEW b \in linearLive, Lin!v_deallocate(b)
        PROVE  LinearInv' /\ [Lin!Regions!Next]_LinearRegions
    BY <1>4, LinearReleases DEF Lin!v_deallocate, LinearInv
  <1>5. CASE Lin!v_reset
    BY <1>5, LinearReleases DEF Lin!v_reset, Lin!ResetTo, LinearInv
  <1>6. CASE Lin!g_destroy_allocator
    BY <1>6, LinearReleases DEF Lin!g_destroy_allocator
  <1> QED BY <1>1, <1>2, <1>3, <1>4, <1>5, <1>6 DEF Lin!Next

\* reset gives back everything and never the allocator itself.
LEMMA LinearImplementsRegions ==
  ASSUME LinearBounds PROVE MCSpec => Lin!ImplementsRegions
  <1>1. MCInit => LinearInv /\ Lin!Regions!Init
    BY DEF MCInit, Lin!Init, LinearInv, LinearBounds, Lin!Regions!Init
  <1>2. [MCNext]_allVars
          => [Lin!Next]_linearVars
    BY DEF MCNext, allVars, NextOfStack, NextOfLinear, NextOfForward, NextOfFrame
  <1>3. LinearInv /\ [Lin!Next]_linearVars => LinearInv' /\ [Lin!Regions!Next]_LinearRegions
    BY LinearStep
  <1> QED BY <1>1, <1>2, <1>3, PTL
          DEF MCSpec, Lin!ImplementsRegions, Lin!Regions!Spec, LinearRegions

-----------------------------------------------------------------------------
(* Forward: nodes in a chain                                               *)

ForwardBounds ==
  /\ m_buffer_end \in Nat /\ m_buffer_end >= 2
  /\ ForwardSizes \subseteq Nat /\ ForwardAlignments \subseteq Nat
  /\ AvoidExactFit = TRUE /\ AvoidWrap = TRUE

Links == [Fwd!Places -> [next : -1..m_buffer_end, prev : -1..m_buffer_end]]

\* q is the next of the nodes C after p.
Adjacent(C, p, q) == p \in C /\ q \in C /\ p < q /\ \A r \in C : r <= p \/ q <= r

\* The nodes C are linked to each other in the order of their places.
Linked(m, C) ==
  \A p, q \in C : Adjacent(C, p, q) => m[p].next = q - p /\ m[q].prev = q - p

LEMMA NextNode ==
  ASSUME ForwardBounds, NEW C \in SUBSET Fwd!Places, m_buffer_end \in C,
         NEW p \in C, p # m_buffer_end
  PROVE  \E q \in C : Adjacent(C, p, q)
  <1>1. C \subseteq Nat /\ \A r \in C : r <= m_buffer_end
    BY DEF Fwd!Places, Fwd!m_buffer_begin, ForwardBounds
  <1> DEFINE S == {r \in C : p < r}
  <1>2. S \in SUBSET Nat /\ m_buffer_end \in S
    <2>1. p \in Nat /\ m_buffer_end \in Nat /\ p <= m_buffer_end
      BY <1>1
    <2>2. p < m_buffer_end
      BY <2>1
    <2>3. S \subseteq Nat
      BY <1>1
    <2>4. m_buffer_end \in S
      BY <2>2
    <2> QED BY <2>3, <2>4
  <1> HIDE DEF S
  <1>3. PICK q \in S : \A y \in S : q <= y
    BY <1>2, LeastExists
  <1> QED BY <1>1, <1>3 DEF Adjacent, S

LEMMA PrevNode ==
  ASSUME ForwardBounds, NEW C \in SUBSET Fwd!Places, 0 \in C, NEW q \in C, q # 0
  PROVE  \E p \in C : Adjacent(C, p, q)
  <1>1. C \subseteq Nat /\ m_buffer_end \in Nat /\ \A r \in C : r <= m_buffer_end
    BY DEF Fwd!Places, Fwd!m_buffer_begin, ForwardBounds
  <1> DEFINE S == {m_buffer_end - r : r \in {x \in C : x < q}}
  <1>2. S \in SUBSET Nat /\ S # {}
    BY <1>1
  <1> HIDE DEF S
  <1>3. PICK d \in S : \A y \in S : d <= y
    BY <1>2, LeastExists
  <1>4. PICK p \in C : p < q /\ d = m_buffer_end - p
    BY <1>3 DEF S
  <1>5. \A r \in C : r < q => m_buffer_end - p <= m_buffer_end - r
    BY <1>3, <1>4 DEF S
  <1> QED BY <1>1, <1>4, <1>5 DEF Adjacent

\* The neighbours that get_next and get_prev find.
LEMMA Neighbours ==
  ASSUME ForwardBounds, NEW C \in SUBSET Fwd!Places, NEW m, Linked(m, C),
         NEW p, NEW q, Adjacent(C, p, q)
  PROVE  /\ Fwd!get_next(m, p) = q /\ Fwd!get_prev(m, q) = p
         /\ m[p].next = q - p /\ m[q].prev = q - p
  <1>1. p \in Int /\ q \in Int /\ p < q
    BY DEF Adjacent, Fwd!Places, Fwd!m_buffer_begin, ForwardBounds
  <1>2. m[p].next = q - p /\ m[q].prev = q - p
    BY DEF Linked, Adjacent
  <1>3. q - p # 0 /\ p + (q - p) = q /\ q - (q - p) = p
    BY ONLY <1>1
  <1> QED BY ONLY <1>2, <1>3 DEF Fwd!get_next, Fwd!get_prev

Erased(m, x) == [m EXCEPT ![x] = Fwd!DATA]

LEMMA DataWritten ==
  ASSUME ForwardBounds, NEW m \in Links, NEW x \in Fwd!Places
  PROVE  Erased(m, x) \in Links /\ \A y \in Fwd!Places : y # x => Erased(m, x)[y] = m[y]
  BY DEF Links, Fwd!DATA, ForwardBounds, Erased

LEMMA LinkIs ==
  ASSUME ForwardBounds, NEW m \in Links, NEW p \in Fwd!Places, NEW q \in Fwd!Places, p < q
  PROVE  /\ Fwd!Link(m, p, q) \in Links
         /\ \A x \in Fwd!Places :
              /\ Fwd!Link(m, p, q)[x].next = IF x = p THEN q - p ELSE m[x].next
              /\ Fwd!Link(m, p, q)[x].prev = IF x = q THEN q - p ELSE m[x].prev
  <1>1. p \in 0..m_buffer_end /\ q \in 0..m_buffer_end /\ m_buffer_end \in Nat
    BY DEF Fwd!Places, Fwd!m_buffer_begin, ForwardBounds
  <1>2. p # Fwd!NULL /\ q # Fwd!NULL /\ q - p \in 0..m_buffer_end
    BY <1>1 DEF Fwd!NULL
  <1>3. PICK n : n = [m EXCEPT ![p].next = q - p]
    OBVIOUS
  <1>4. /\ n \in Links
        /\ \A x \in Fwd!Places : /\ n[x].next = IF x = p THEN q - p ELSE m[x].next
                                 /\ n[x].prev = m[x].prev
    BY <1>2, <1>3 DEF Links
  <1>5. PICK k : k = [n EXCEPT ![q].prev = q - p]
    OBVIOUS
  <1>6. /\ k \in Links
        /\ \A x \in Fwd!Places : /\ k[x].next = n[x].next
                                 /\ k[x].prev = IF x = q THEN q - p ELSE n[x].prev
    BY <1>2, <1>4, <1>5 DEF Links
  <1>7. Fwd!Link(m, p, q) = k
    BY <1>2, <1>3, <1>5 DEF Fwd!Link, Fwd!set_next, Fwd!set_prev
  <1> QED BY <1>4, <1>6, <1>7

\* m and n agree on the nodes of C outside of p and q.
SameOutside(m, n, C, p, q) ==
  /\ \A x \in C : x < p \/ q <= x => n[x].next = m[x].next
  /\ \A x \in C : x <= p \/ q < x => n[x].prev = m[x].prev

Outside(C, p, q) == {r \in C : r <= p \/ q <= r}

\* p and q become neighbours, and what was between them leaves the chain.
LEMMA Bridge ==
  ASSUME ForwardBounds, NEW C \in SUBSET Fwd!Places, NEW m \in Links, Linked(m, C),
         NEW p \in C, NEW q \in C, p < q, NEW n \in Links, SameOutside(m, n, C, p, q)
  PROVE  Fwd!Link(n, p, q) \in Links /\ Linked(Fwd!Link(n, p, q), Outside(C, p, q))
  <1>1. C \subseteq Int
    BY DEF Fwd!Places, Fwd!m_buffer_begin, ForwardBounds
  <1>2. PICK k : k = Fwd!Link(n, p, q)
    OBVIOUS
  <1>3. /\ k \in Links
        /\ \A x \in Fwd!Places : /\ k[x].next = IF x = p THEN q - p ELSE n[x].next
                                 /\ k[x].prev = IF x = q THEN q - p ELSE n[x].prev
    BY <1>2, LinkIs
  <1> DEFINE D == Outside(C, p, q)
  <1>4. ASSUME NEW x \in D, NEW y \in D, Adjacent(D, x, y)
        PROVE  k[x].next = y - x /\ k[y].prev = y - x
    <2>1. x \in C /\ y \in C /\ p \in D /\ q \in D /\ x < y
      BY <1>1, <1>4 DEF Outside, Adjacent
    <2>2. CASE x = p
      <3>1. y = q
        BY <1>1, <1>4, <2>1, <2>2 DEF Outside, Adjacent
      <3> QED BY <1>3, <2>1, <2>2, <3>1
    <2>3. CASE x # p
      <3>1. y <= p \/ q <= x
        BY <1>1, <1>4, <2>1, <2>3 DEF Outside, Adjacent
      <3>2. Adjacent(C, x, y)
        BY <1>1, <1>4, <2>1, <3>1 DEF Outside, Adjacent
      <3>3. m[x].next = y - x /\ m[y].prev = y - x
        BY <2>1, <3>2 DEF Linked
      <3>4. (x < p \/ q <= x) /\ (y <= p \/ q < y) /\ y # q
        BY <1>1, <2>1, <2>3, <3>1
      <3>5. n[x].next = m[x].next /\ n[y].prev = m[y].prev
        BY <2>1, <3>4 DEF SameOutside
      <3> QED BY <1>3, <2>1, <2>3, <3>3, <3>4, <3>5
    <2> QED BY <2>2, <2>3
  <1> QED BY <1>2, <1>3, <1>4 DEF Linked

\* t becomes the only node between p and q.
LEMMA Splice ==
  ASSUME ForwardBounds, NEW C \in SUBSET Fwd!Places, NEW m \in Links, Linked(m, C),
         NEW p \in C, NEW q \in C, NEW t \in Int, p < t, t < q,
         NEW n \in Links, SameOutside(m, n, C, p, q)
  PROVE  /\ Fwd!Link(Fwd!Link(n, p, t), t, q) \in Links
         /\ Linked(Fwd!Link(Fwd!Link(n, p, t), t, q), Outside(C, p, q) \cup {t})
  <1>1. C \subseteq Int /\ t \in Fwd!Places /\ p \in Fwd!Places /\ q \in Fwd!Places
    BY DEF Fwd!Places, Fwd!m_buffer_begin, ForwardBounds
  <1>2. PICK j : j = Fwd!Link(n, p, t)
    OBVIOUS
  <1>3. /\ j \in Links
        /\ \A x \in Fwd!Places : /\ j[x].next = IF x = p THEN t - p ELSE n[x].next
                                 /\ j[x].prev = IF x = t THEN t - p ELSE n[x].prev
    <2>1. ForwardBounds /\ n \in Links /\ p < t
      OBVIOUS
    <2> QED BY ONLY <1>1, <1>2, <2>1, LinkIs
  <1>4. PICK k : k = Fwd!Link(j, t, q)
    OBVIOUS
  <1>5. /\ k \in Links
        /\ \A x \in Fwd!Places : /\ k[x].next = IF x = t THEN q - t ELSE j[x].next
                                 /\ k[x].prev = IF x = q THEN q - t ELSE j[x].prev
    <2>1. ForwardBounds /\ j \in Links /\ t \in Fwd!Places /\ q \in Fwd!Places /\ t < q
      BY <1>1, <1>3
    <2> QED BY ONLY <1>4, <2>1, LinkIs
  <1> DEFINE D == Outside(C, p, q) \cup {t}
  <1>6. ASSUME NEW x \in D, NEW y \in D, Adjacent(D, x, y)
        PROVE  k[x].next = y - x /\ k[y].prev = y - x
    <2>1. /\ x \in C \cup {t} /\ y \in C \cup {t} /\ p \in D /\ q \in D /\ t \in D /\ x < y
          /\ x \in Fwd!Places /\ y \in Fwd!Places /\ x \in Int /\ y \in Int
      BY <1>1, <1>6 DEF Outside, Adjacent
    <2>2. CASE x = p
      <3>1. y = t
        BY <1>1, <1>6, <2>1, <2>2 DEF Outside, Adjacent
      <3> QED BY <1>1, <1>3, <1>5, <2>1, <2>2, <3>1
    <2>3. CASE x = t
      <3>1. y = q
        BY <1>1, <1>6, <2>1, <2>3 DEF Outside, Adjacent
      <3> QED BY <1>1, <1>3, <1>5, <2>1, <2>3, <3>1
    <2>4. CASE x # p /\ x # t
      <3>1. y <= p \/ q <= x
        BY <1>1, <1>6, <2>1, <2>4 DEF Outside, Adjacent
      <3>2. x \in C /\ y \in C /\ Adjacent(C, x, y)
        BY <1>1, <1>6, <2>1, <2>4, <3>1 DEF Outside, Adjacent
      <3>3. m[x].next = y - x /\ m[y].prev = y - x
        BY <3>2 DEF Linked
      <3>4. (x < p \/ q <= x) /\ (y <= p \/ q < y) /\ y # q /\ y # t
        BY <1>1, <2>1, <2>4, <3>1
      <3>5. n[x].next = m[x].next /\ n[y].prev = m[y].prev
        BY <3>2, <3>4 DEF SameOutside
      <3> QED BY <1>3, <1>5, <2>1, <2>4, <3>3, <3>4, <3>5
    <2> QED BY <2>2, <2>3, <2>4
  <1> QED BY <1>2, <1>4, <1>5, <1>6 DEF Linked

-----------------------------------------------------------------------------
(* Forward: the chain of the live blocks                                   *)

NodesOf(c, L) == {0, c, m_buffer_end} \cup {b.ptr - 1 : b \in L}

\* Every block has a node of its own that is not the cursor, and ends in front of the
\* node that comes next, whichever it is.
BlocksFit(c, L) ==
  /\ L \subseteq [ptr : 2..m_buffer_end, len : ForwardSizes]
  /\ \A b \in L : b.ptr - 1 # c
  /\ \A b, d \in L : b.ptr = d.ptr => b = d
  /\ \A b \in L, r \in NodesOf(c, L) : b.ptr <= r => b.ptr + b.len <= r

\* The cursor is never the last node, and the first place is the cursor's when no block
\* lies in front of it.
ChainGood(m, c, L) ==
  /\ m \in Links /\ c \in 1..m_buffer_end - 1 /\ BlocksFit(c, L)
  /\ Linked(m, NodesOf(c, L))
  /\ Adjacent(NodesOf(c, L), 0, c) => c = 1

LEMMA NodesAre ==
  ASSUME ForwardBounds, NEW c \in 1..m_buffer_end - 1, NEW L, BlocksFit(c, L)
  PROVE  /\ NodesOf(c, L) \in SUBSET Fwd!Places /\ NodesOf(c, L) \subseteq Int
         /\ \A r \in NodesOf(c, L) : 0 <= r /\ r <= m_buffer_end
         /\ 0 \in NodesOf(c, L) /\ c \in NodesOf(c, L) /\ m_buffer_end \in NodesOf(c, L)
         /\ \A b \in L : /\ b.ptr \in 2..m_buffer_end /\ b.len \in Nat /\ b.len \in ForwardSizes
                         /\ b.ptr - 1 \in NodesOf(c, L) /\ b.ptr - 1 # c
         /\ Fwd!Places = 0..m_buffer_end /\ m_buffer_end \in Nat /\ m_buffer_end >= 2
  <1>1. \A b \in L : b.ptr \in 2..m_buffer_end /\ b.len \in ForwardSizes /\ b.len \in Nat
    BY DEF BlocksFit, ForwardBounds
  <1>2. m_buffer_end \in Nat /\ m_buffer_end >= 2 /\ c \in Nat /\ 1 <= c /\ c < m_buffer_end
    BY DEF ForwardBounds
  <1>3. \A b \in L : b.ptr - 1 \in 0..m_buffer_end
    BY <1>1, <1>2
  <1>4. NodesOf(c, L) \subseteq 0..m_buffer_end
    BY <1>2, <1>3 DEF NodesOf
  <1>5. Fwd!Places = 0..m_buffer_end
    BY DEF Fwd!Places, Fwd!m_buffer_begin
  <1>6. \A b \in L : b.ptr - 1 \in NodesOf(c, L) /\ b.ptr - 1 # c
    BY DEF NodesOf, BlocksFit
  <1>7. 0 \in NodesOf(c, L) /\ c \in NodesOf(c, L) /\ m_buffer_end \in NodesOf(c, L)
    BY DEF NodesOf
  <1> QED BY <1>1, <1>2, <1>4, <1>5, <1>6, <1>7

\* A node between two neighbours of the chain for the cursor, then a block there.
LEMMA ShiftBounds ==
  ASSUME NEW c \in Nat, NEW align \in Nat
  PROVE  Fwd!Shift(c, align) \in Nat
  <1>1. CASE align > 1
    <2>1. Fwd!AlignUp(c + 1, align) \in Nat /\ c + 1 <= Fwd!AlignUp(c + 1, align)
      BY <1>1, RoundUp DEF Fwd!AlignUp
    <2> QED BY <1>1, <2>1 DEF Fwd!Shift
  <1> QED BY <1>1 DEF Fwd!Shift

\* s_align_to moves the cursor within the free space.
LEMMA MovedGood ==
  ASSUME ForwardBounds, NEW c, NEW m, NEW L, ChainGood(m, c, L), NEW align \in ForwardAlignments,
         NEW q, Adjacent(NodesOf(c, L), c, q), NEW at, at = c + Fwd!Shift(c, align), at < q,
         NEW C, C = (NodesOf(c, L) \ {c}) \cup {at}
  PROVE  /\ Fwd!Moved(m, c, align) \in Links /\ Linked(Fwd!Moved(m, c, align), C)
         /\ Adjacent(C, at, q) /\ c <= at /\ at \in Int
  <1>1. m \in Links /\ c \in 1..m_buffer_end - 1 /\ BlocksFit(c, L) /\ Linked(m, NodesOf(c, L))
    BY DEF ChainGood
  <1>2. PICK N : N = NodesOf(c, L)
    OBVIOUS
  <1>3. /\ N \in SUBSET Fwd!Places /\ N \subseteq Int /\ 0 \in N /\ c \in N /\ c \in Nat
        /\ c # 0 /\ m_buffer_end \in Nat /\ Fwd!Places = 0..m_buffer_end
    BY <1>1, <1>2, NodesAre
  <1>4. c <= at /\ at \in Int
    <2>1. c \in Nat /\ align \in Nat
      BY <1>3 DEF ForwardBounds
    <2>2. Fwd!Shift(c, align) \in Nat
      BY ONLY <2>1, ShiftBounds
    <2> QED BY <2>1, <2>2
  <1>5. Adjacent(N, c, q) /\ q \in N /\ q \in Int /\ Linked(m, N)
    BY <1>1, <1>2, <1>3 DEF Adjacent
  <1>6. C = (N \ {c}) \cup {at}
    BY <1>2
  <1>7. Adjacent(C, at, q)
    BY <1>3, <1>4, <1>5, <1>6 DEF Adjacent
  <1>8. CASE at = c
    <2>1. Fwd!Moved(m, c, align) = m
      BY <1>8 DEF Fwd!Moved
    <2>2. C = N
      BY <1>3, <1>6, <1>8
    <2> QED BY <1>1, <1>4, <1>5, <1>7, <2>1, <2>2
  <1>9. CASE at # c
    <2>1. PICK p \in N : Adjacent(N, p, c)
      BY <1>3, PrevNode
    <2>2. Fwd!get_prev(m, c) = p /\ Fwd!get_next(m, c) = q
      BY <1>3, <1>5, <2>1, Neighbours
    <2>3. PICK n : n = [m EXCEPT ![c] = Fwd!DATA]
      OBVIOUS
    <2>4. n \in Links /\ \A x \in Fwd!Places : x # c => n[x] = m[x]
      <3>1. n = Erased(m, c)
        BY <1>1, <1>3, <2>3 DEF Erased
      <3> QED BY <1>1, <1>3, <3>1, DataWritten
    <2>5. SameOutside(m, n, N, p, q)
      BY <1>3, <1>5, <2>1, <2>4 DEF SameOutside, Adjacent
    <2>6. p < at /\ at < q /\ p < c /\ p \in Int
      BY <1>3, <1>4, <2>1 DEF Adjacent
    <2>7. Fwd!Moved(m, c, align) = Fwd!Link(Fwd!Link(n, p, at), at, q)
      BY <1>9, <2>2, <2>3 DEF Fwd!Moved
    <2>8. Outside(N, p, q) \cup {at} = C
      <3>1. \A r \in N : r <= p \/ q <= r <=> r # c
        <4> SUFFICES ASSUME NEW r \in N PROVE r <= p \/ q <= r <=> r # c
          OBVIOUS
        <4>1. (r <= c \/ q <= r) /\ (r <= p \/ c <= r) /\ c < q
          BY <1>5, <2>1 DEF Adjacent
        <4>2. r \in Int /\ p \in Int /\ q \in Int /\ c \in Int
          BY <1>3, <1>5, <2>6
        <4> QED BY ONLY <4>1, <4>2, <2>6
      <3> QED BY <1>6, <3>1 DEF Outside
    <2>9. /\ Fwd!Link(Fwd!Link(n, p, at), at, q) \in Links
          /\ Linked(Fwd!Link(Fwd!Link(n, p, at), at, q), Outside(N, p, q) \cup {at})
      <3>1. ForwardBounds /\ m \in Links
        BY <1>1
      <3> QED BY ONLY <3>1, <1>3, <1>4, <1>5, <2>1, <2>4, <2>5, <2>6, Splice
    <2> QED BY <1>4, <1>7, <2>7, <2>8, <2>9
  <1> QED BY <1>8, <1>9

\* The free space gets a block: the cursor, shifted to at, becomes its node, and the new
\* cursor is behind it.
LEMMA BlockTaken ==
  ASSUME ForwardBounds, NEW c, NEW m, NEW L, ChainGood(m, c, L),
         NEW align \in ForwardAlignments, NEW size \in ForwardSizes,
         Fwd!Fits(m, c, size, align), Fwd!Allocate(m, c, size, align)
  PROVE  \E at \in 1..m_buffer_end :
           /\ ChainGood(mem', at + 1 + size, L \cup {[ptr |-> at + 1, len |-> size]})
           /\ m_buffer_cursor' = at + 1 + size
           /\ forwardLive' = forwardLive \cup {[ptr |-> at + 1, len |-> size]}
           /\ at + 1 + size <= m_buffer_end
           /\ \A b \in L : b.ptr + b.len <= at \/ at + 1 + size <= b.ptr
  <1>1. m \in Links /\ c \in 1..m_buffer_end - 1 /\ BlocksFit(c, L) /\ Linked(m, NodesOf(c, L))
    BY DEF ChainGood
  <1>2. PICK N : N = NodesOf(c, L)
    OBVIOUS
  <1>3. /\ N \in SUBSET Fwd!Places /\ N \subseteq Int /\ 0 \in N /\ c \in N /\ m_buffer_end \in N
        /\ c \in Nat /\ 1 <= c /\ c < m_buffer_end /\ m_buffer_end \in Nat
        /\ Fwd!Places = 0..m_buffer_end /\ \A r \in N : r <= m_buffer_end
        /\ \A b \in L : /\ b.ptr \in 2..m_buffer_end /\ b.len \in Nat /\ b.len \in ForwardSizes
                        /\ b.ptr - 1 \in N /\ b.ptr - 1 # c
    BY <1>1, <1>2, NodesAre
  <1>4. PICK q \in N : Adjacent(N, c, q)
    BY <1>3, NextNode
  <1>5. q \in Int /\ c < q /\ q <= m_buffer_end /\ \A r \in N : r <= c \/ q <= r
    BY <1>3, <1>4 DEF Adjacent
  <1>6. m[c].next = q - c /\ Linked(m, N)
    BY <1>1, <1>2, <1>3, <1>4, Neighbours
  <1>7. PICK at : at = c + Fwd!Shift(c, align)
    OBVIOUS
  <1>8. at \in Nat /\ c <= at /\ size \in Nat
    <2>1. c \in Nat /\ align \in Nat /\ size \in Nat
      BY <1>3 DEF ForwardBounds
    <2>2. Fwd!Shift(c, align) \in Nat
      BY ONLY <2>1, ShiftBounds
    <2> QED BY <1>7, <2>1, <2>2
  <1>9. at + 1 + size <= q
    <2>1. size < (q - c) - Fwd!Shift(c, align)
      BY <1>6 DEF Fwd!Fits
    <2>2. Fwd!Shift(c, align) = at - c
      <3>1. c \in Nat /\ align \in Nat
        BY <1>3 DEF ForwardBounds
      <3>2. Fwd!Shift(c, align) \in Nat
        BY ONLY <3>1, ShiftBounds
      <3> QED BY <1>7, <3>1, <3>2
    <2> QED BY <1>3, <1>5, <1>8, <2>1, <2>2
  <1>10. PICK k : k = Fwd!Moved(m, c, align)
    OBVIOUS
  <1>11. PICK C : C = (N \ {c}) \cup {at}
    OBVIOUS
  <1>12. k \in Links /\ Linked(k, C) /\ Adjacent(C, at, q)
    <2>1. at < q
      BY <1>5, <1>8, <1>9
    <2>2. ForwardBounds /\ ChainGood(m, c, L) /\ align \in ForwardAlignments
      OBVIOUS
    <2>3. Adjacent(NodesOf(c, L), c, q) /\ C = (NodesOf(c, L) \ {c}) \cup {at}
      BY <1>2, <1>4, <1>11
    <2> QED BY ONLY <2>1, <2>2, <2>3, <1>7, <1>10, MovedGood
  <1>13. C \in SUBSET Fwd!Places /\ at \in C /\ q \in C /\ C \subseteq Int
    BY <1>3, <1>5, <1>8, <1>9, <1>11, <1>12 DEF Adjacent
  <1>14. Fwd!get_next(k, at) = q
    BY <1>12, <1>13, Neighbours
  <1>15. PICK new : new = at + 1 + size
    OBVIOUS
  <1>16. new \in Int /\ at < new /\ new < q
    <2>1. AvoidExactFit => new # q
      BY <1>7, <1>10, <1>14, <1>15 DEF Fwd!Allocate
    <2> QED BY <1>5, <1>8, <1>9, <1>15, <2>1 DEF ForwardBounds
  <1>17. PICK w : w = [p \in Fwd!Places |-> IF at < p /\ p < new THEN Fwd!DATA ELSE k[p]]
    OBVIOUS
  <1>18. w \in Links /\ SameOutside(k, w, C, at, q)
    <2>1. w \in Links
      BY <1>3, <1>12, <1>17 DEF Links, Fwd!DATA
    <2>2. \A x \in C : x <= at \/ q <= x => w[x] = k[x]
      BY <1>8, <1>13, <1>16, <1>17, <1>5
    <2>3. \A x \in C : x < at \/ q <= x \/ x <= at \/ q < x => x <= at \/ q <= x
      BY <1>13, <1>8, <1>5
    <2> QED BY <2>1, <2>2, <2>3 DEF SameOutside
  <1>19. /\ mem' = Fwd!Link(Fwd!Link(w, at, new), new, q)
         /\ m_buffer_cursor' = new
         /\ forwardLive' = forwardLive \cup {[ptr |-> at + 1, len |-> size]}
    BY <1>7, <1>10, <1>14, <1>15, <1>17 DEF Fwd!Allocate, Fwd!Take
  <1>20. mem' \in Links /\ Linked(mem', Outside(C, at, q) \cup {new})
    <2>1. ForwardBounds
      OBVIOUS
    <2>2. /\ Fwd!Link(Fwd!Link(w, at, new), new, q) \in Links
          /\ Linked(Fwd!Link(Fwd!Link(w, at, new), new, q), Outside(C, at, q) \cup {new})
      BY ONLY <2>1, <1>12, <1>13, <1>16, <1>18, Splice
    <2> QED BY ONLY <1>19, <2>2
  <1>21. PICK blk : blk = [ptr |-> at + 1, len |-> size]
    OBVIOUS
  <1>22. PICK M : M = L \cup {blk}
    OBVIOUS
  <1>23. NodesOf(new, M) = Outside(C, at, q) \cup {new}
    <2>1. Outside(C, at, q) = C
      BY <1>12 DEF Outside, Adjacent
    <2>2. NodesOf(new, M) = {0, new, m_buffer_end} \cup {b.ptr - 1 : b \in L} \cup {at}
      <3>1. \A b \in M : b \in L \/ b.ptr - 1 = at
        BY <1>8, <1>21, <1>22
      <3>2. blk \in M /\ blk.ptr - 1 = at /\ L \subseteq M
        BY <1>8, <1>21, <1>22
      <3> QED BY <3>1, <3>2 DEF NodesOf
    <2>3. N \ {c} = {0, m_buffer_end} \cup {b.ptr - 1 : b \in L}
      <3>1. c # 0 /\ c # m_buffer_end /\ c \notin {b.ptr - 1 : b \in L}
        BY <1>3
      <3> QED BY <1>2, <3>1 DEF NodesOf
    <2> QED BY ONLY <2>1, <2>2, <2>3, <1>11
  <1>24. /\ \A r \in NodesOf(new, M) : r \in N \/ r = at \/ r = new
         /\ \A r \in N : r < c \/ q <= r \/ r = c
         /\ NodesOf(new, M) \subseteq Int /\ 0 \in NodesOf(new, M) /\ at \in NodesOf(new, M)
    <2>1. NodesOf(new, M) = C \cup {new}
      BY <1>12, <1>23 DEF Outside, Adjacent
    <2>2. \A r \in N : r < c \/ q <= r \/ r = c
      BY <1>3, <1>5
    <2>3. 0 \in C
      BY <1>3, <1>11
    <2> QED BY <1>11, <1>13, <1>16, <2>1, <2>2, <2>3
  <1>25. \A b \in L : /\ b.ptr - 1 < c => b.ptr + b.len <= c
                      /\ b.ptr - 1 < c \/ q <= b.ptr - 1
    <2> SUFFICES ASSUME NEW b \in L
                 PROVE  /\ b.ptr - 1 < c => b.ptr + b.len <= c
                        /\ b.ptr - 1 < c \/ q <= b.ptr - 1
      OBVIOUS
    <2>1. b.ptr \in Nat /\ b.ptr - 1 \in N /\ b.ptr - 1 # c
      BY <1>3
    <2>2. b.ptr <= c => b.ptr + b.len <= c
      BY <1>1, <1>2, <1>3 DEF BlocksFit
    <2>3. b.ptr - 1 < c \/ q <= b.ptr - 1
      BY <1>24, <2>1
    <2> QED BY <1>3, <2>1, <2>2, <2>3
  <1>26. BlocksFit(new, M)
    <2>1. M \subseteq [ptr : 2..m_buffer_end, len : ForwardSizes]
      <3>1. blk \in [ptr : 2..m_buffer_end, len : ForwardSizes]
        BY <1>3, <1>5, <1>8, <1>9, <1>21
      <3> QED BY <1>1, <1>22, <3>1 DEF BlocksFit
    <2>2. \A b \in M : b.ptr - 1 # new
      <3>1. ASSUME NEW b \in L PROVE b.ptr - 1 # new
        BY <1>3, <1>5, <1>8, <1>16, <1>25
      <3>2. blk.ptr - 1 # new
        BY <1>8, <1>16, <1>21
      <3> QED BY <1>22, <3>1, <3>2
    <2>3. \A b, d \in M : b.ptr = d.ptr => b = d
      <3>1. \A b \in L : b.ptr # blk.ptr
        BY <1>3, <1>5, <1>8, <1>9, <1>21, <1>25
      <3> QED BY <1>1, <1>22, <3>1 DEF BlocksFit
    <2>4. ASSUME NEW b \in M, NEW r \in NodesOf(new, M), b.ptr <= r
          PROVE  b.ptr + b.len <= r
      <3>1. CASE b = blk
        <4>1. b.ptr = at + 1 /\ b.len = size /\ at + 1 <= r /\ r \in Int
          BY <1>21, <1>24, <2>4, <3>1
        <4>2. r = new \/ q <= r
          BY <1>3, <1>5, <1>8, <1>24, <4>1
        <4> QED BY <1>5, <1>8, <1>15, <1>16, <4>1, <4>2
      <3>2. CASE b # blk
        <4>1. b \in L /\ b.ptr \in Nat /\ b.len \in Nat /\ r \in Int
          <5>1. b \in L
            BY <1>22, <3>2
          <5>2. r \in Int
            BY <1>24
          <5> QED BY <1>3, <5>1, <5>2
        <4>2. CASE r \in N
          BY <1>1, <1>2, <2>4, <4>1, <4>2 DEF BlocksFit
        <4>3. CASE r \notin N
          <5>1. r = at \/ r = new
            BY <1>24, <4>3
          <5>2. c <= r /\ r < q
            BY <1>3, <1>5, <1>8, <1>16, <5>1
          <5>3. b.ptr - 1 < c
            BY <1>3, <1>5, <1>25, <2>4, <4>1, <5>2
          <5> QED BY <1>3, <1>25, <4>1, <5>2, <5>3
        <4> QED BY <4>2, <4>3
      <3> QED BY <3>1, <3>2
    <2> QED BY <2>1, <2>2, <2>3, <2>4 DEF BlocksFit
  <1>27. ChainGood(mem', new, M)
    <2>1. ~Adjacent(NodesOf(new, M), 0, new)
      BY <1>3, <1>8, <1>16, <1>24 DEF Adjacent
    <2>2. new \in 1..m_buffer_end - 1
      BY <1>3, <1>5, <1>8, <1>16
    <2> QED BY <1>20, <1>23, <1>26, <2>1, <2>2 DEF ChainGood
  <1>28. \A b \in L : b.ptr + b.len <= at \/ new <= b.ptr
    BY <1>3, <1>5, <1>8, <1>16, <1>25
  <1>29. at \in 1..m_buffer_end /\ new <= m_buffer_end
    BY <1>3, <1>5, <1>8, <1>16
  <1> QED BY <1>15, <1>19, <1>21, <1>22, <1>27, <1>28, <1>29

LEMMA EmptyChain ==
  ASSUME ForwardBounds
  PROVE  ChainGood(Fwd!EmptyMem, 1, {})
  <1>1. /\ m_buffer_end \in Nat /\ m_buffer_end >= 2 /\ Fwd!Places = 0..m_buffer_end
        /\ Fwd!m_buffer_begin = 0
    BY DEF ForwardBounds, Fwd!Places, Fwd!m_buffer_begin
  <1>2. PICK base : base = [[p \in Fwd!Places |-> Fwd!DATA]
                              EXCEPT ![0].prev = 0, ![m_buffer_end].next = 0]
    OBVIOUS
  <1>3. base \in Links
    <2>1. PICK a : a = [p \in Fwd!Places |-> Fwd!DATA]
      OBVIOUS
    <2>2. a \in Links
      BY <1>1, <2>1 DEF Links, Fwd!DATA
    <2>3. PICK b : b = [a EXCEPT ![0].prev = 0]
      OBVIOUS
    <2>4. b \in Links
      <3>1. 0 \in Fwd!Places /\ 0 \in -1..m_buffer_end
        BY <1>1
      <3> QED BY <2>2, <2>3, <3>1 DEF Links
    <2>5. base = [b EXCEPT ![m_buffer_end].next = 0]
      BY <1>2, <2>1, <2>3
    <2> QED BY <1>1, <2>4, <2>5 DEF Links
  <1>4. PICK j : j = Fwd!Link(base, 0, 1)
    OBVIOUS
  <1>5. j \in Links /\ j[0].next = 1 /\ j[1].prev = 1
    BY <1>1, <1>3, <1>4, LinkIs
  <1>6. PICK k : k = Fwd!Link(j, 1, m_buffer_end)
    OBVIOUS
  <1>7. /\ k \in Links /\ k[0].next = 1 /\ k[1].prev = 1
        /\ k[1].next = m_buffer_end - 1 /\ k[m_buffer_end].prev = m_buffer_end - 1
    <2>1. /\ 1 \in Fwd!Places /\ m_buffer_end \in Fwd!Places /\ 0 \in Fwd!Places
          /\ 1 < m_buffer_end
      BY <1>1
    <2>2. \A x \in Fwd!Places : /\ k[x].next = IF x = 1 THEN m_buffer_end - 1 ELSE j[x].next
                                /\ k[x].prev = IF x = m_buffer_end THEN m_buffer_end - 1 ELSE j[x].prev
      BY <1>5, <1>6, <2>1, LinkIs
    <2>3. k \in Links
      BY <1>5, <1>6, <2>1, LinkIs
    <2> QED BY <1>5, <2>1, <2>2, <2>3
  <1>8. Fwd!EmptyMem = k
    BY <1>1, <1>2, <1>4, <1>6 DEF Fwd!EmptyMem, Fwd!s_reset_cursor
  <1>9. NodesOf(1, {}) = {0, 1, m_buffer_end}
    BY DEF NodesOf
  <1>10. Linked(k, {0, 1, m_buffer_end})
    <2> SUFFICES ASSUME NEW p \in {0, 1, m_buffer_end}, NEW q \in {0, 1, m_buffer_end},
                        Adjacent({0, 1, m_buffer_end}, p, q)
                 PROVE  k[p].next = q - p /\ k[q].prev = q - p
      BY DEF Linked
    <2>1. (p = 0 /\ q = 1) \/ (p = 1 /\ q = m_buffer_end)
      BY <1>1 DEF Adjacent
    <2> QED BY <1>1, <1>7, <2>1
  <1>11. BlocksFit(1, {})
    BY DEF BlocksFit
  <1>12. 1 \in 1..m_buffer_end - 1
    BY <1>1
  <1>13. k \in Links /\ Linked(k, NodesOf(1, {}))
    BY <1>7, <1>9, <1>10
  <1> QED BY ONLY <1>8, <1>11, <1>12, <1>13 DEF ChainGood

\* The cursor goes back to the begin.
LEMMA WrappedGood ==
  ASSUME ForwardBounds, ChainGood(mem, m_buffer_cursor, forwardLive),
         Fwd!get_prev(mem, m_buffer_cursor) # Fwd!m_buffer_begin,
         Fwd!get_next(Fwd!Detached, Fwd!m_buffer_begin) # Fwd!m_buffer_begin + 1
  PROVE  ChainGood(Fwd!Wrapped, 1, forwardLive)
  <1>1. PICK c : c = m_buffer_cursor
    OBVIOUS
  <1>2. PICK L : L = forwardLive
    OBVIOUS
  <1>3. mem \in Links /\ c \in 1..m_buffer_end - 1 /\ BlocksFit(c, L) /\ Linked(mem, NodesOf(c, L))
    BY <1>1, <1>2 DEF ChainGood
  <1>4. PICK N : N = NodesOf(c, L)
    OBVIOUS
  <1>5. /\ N \in SUBSET Fwd!Places /\ N \subseteq Int /\ 0 \in N /\ c \in N /\ m_buffer_end \in N
        /\ c \in Nat /\ 1 <= c /\ c < m_buffer_end /\ m_buffer_end \in Nat /\ m_buffer_end >= 2
        /\ Fwd!Places = 0..m_buffer_end /\ \A r \in N : 0 <= r /\ r <= m_buffer_end
        /\ \A b \in L : b.ptr \in 2..m_buffer_end /\ b.ptr - 1 \in N /\ b.ptr - 1 # c
    BY <1>3, <1>4, NodesAre
  <1>6. Fwd!m_buffer_begin = 0 /\ Linked(mem, N)
    BY <1>3, <1>4 DEF Fwd!m_buffer_begin
  <1>7. PICK p \in N : Adjacent(N, p, c)
    <2>1. c # 0
      BY <1>5
    <2> QED BY <1>5, <2>1, PrevNode
  <1>8. PICK q \in N : Adjacent(N, c, q)
    <2>1. c # m_buffer_end
      BY <1>5
    <2> QED BY <1>5, <2>1, NextNode
  <1>9. Fwd!get_prev(mem, c) = p /\ Fwd!get_next(mem, c) = q
    BY <1>5, <1>6, <1>7, <1>8, Neighbours
  <1>10. p \in Int /\ q \in Int /\ p < c /\ c < q /\ \A r \in N : (r <= p \/ c <= r) /\ (r <= c \/ q <= r)
    BY <1>5, <1>7, <1>8 DEF Adjacent
  <1>11. PICK j : j = Fwd!Link(mem, p, q)
    OBVIOUS
  <1>12. PICK D : D = N \ {c}
    OBVIOUS
  <1>13. D \in SUBSET Fwd!Places /\ D \subseteq Int /\ 0 \in D /\ m_buffer_end \in D /\ p \in D /\ q \in D
    BY <1>5, <1>10, <1>12
  <1>14. j \in Links /\ Linked(j, D)
    <2>1. SameOutside(mem, mem, N, p, q) /\ p < q
      BY <1>5, <1>10 DEF SameOutside
    <2>2. Outside(N, p, q) = D
      <3>1. \A r \in N : r <= p \/ q <= r <=> r # c
        <4> SUFFICES ASSUME NEW r \in N PROVE r <= p \/ q <= r <=> r # c
          OBVIOUS
        <4>1. r \in Int /\ c \in Int
          BY <1>5
        <4> QED BY <1>10, <4>1
      <3> QED BY <1>12, <3>1 DEF Outside
    <2>3. ForwardBounds
      OBVIOUS
    <2>4. Fwd!Link(mem, p, q) \in Links /\ Linked(Fwd!Link(mem, p, q), Outside(N, p, q))
      BY ONLY <1>3, <1>5, <1>6, <1>7, <1>8, <2>1, <2>3, Bridge
    <2> QED BY ONLY <1>11, <2>2, <2>4
  <1>15. PICK d : d = Fwd!Detached
    OBVIOUS
  <1>16. d = [j EXCEPT ![c] = Fwd!DATA]
    BY <1>1, <1>9, <1>11, <1>15 DEF Fwd!Detached
  <1>17. d \in Links /\ Linked(d, D)
    <2>1. d \in Links /\ \A x \in D : d[x] = j[x]
      <3>1. c \in Fwd!Places /\ m_buffer_end \in Nat /\ D \subseteq Fwd!Places /\ c \notin D
        BY <1>5, <1>12, <1>13
      <3>2. d \in Links /\ \A x \in Fwd!Places : x # c => d[x] = j[x]
        <4>1. d = Erased(j, c)
          BY <1>14, <1>16, <3>1 DEF Erased
        <4> QED BY <1>14, <3>1, <4>1, DataWritten
      <3> QED BY <3>1, <3>2
    <2> QED BY <1>14, <2>1 DEF Linked
  <1>18. PICK e \in D : Adjacent(D, 0, e)
    <2>1. 0 # m_buffer_end
      BY <1>5
    <2>2. ForwardBounds
      OBVIOUS
    <2> QED BY ONLY <1>13, <2>1, <2>2, NextNode
  <1>19. Fwd!get_next(d, 0) = e
    BY <1>13, <1>17, <1>18, Neighbours
  <1>20. e \in Int /\ 1 < e /\ e <= m_buffer_end /\ \A r \in D : r <= 0 \/ e <= r
    BY <1>5, <1>6, <1>12, <1>13, <1>15, <1>18, <1>19 DEF Adjacent
  <1>21. Fwd!Wrapped = Fwd!Link(Fwd!Link(d, 0, 1), 1, e)
    BY <1>6, <1>15, <1>19 DEF Fwd!Wrapped, Fwd!s_reset_cursor
  <1>22. Fwd!Wrapped \in Links /\ Linked(Fwd!Wrapped, Outside(D, 0, e) \cup {1})
    <2>1. SameOutside(d, d, D, 0, e) /\ 0 < 1 /\ 1 \in Int
      BY DEF SameOutside
    <2>2. ForwardBounds
      OBVIOUS
    <2>3. /\ Fwd!Link(Fwd!Link(d, 0, 1), 1, e) \in Links
          /\ Linked(Fwd!Link(Fwd!Link(d, 0, 1), 1, e), Outside(D, 0, e) \cup {1})
      BY ONLY <1>13, <1>17, <1>18, <1>20, <2>1, <2>2, Splice
    <2> QED BY ONLY <1>21, <2>3
  <1>23. NodesOf(1, L) = Outside(D, 0, e) \cup {1}
    <2>1. Outside(D, 0, e) = D
      BY <1>20 DEF Outside
    <2>2. D = {0, m_buffer_end} \cup {b.ptr - 1 : b \in L}
      <3>1. c # 0 /\ c # m_buffer_end /\ c \notin {b.ptr - 1 : b \in L}
        BY <1>5
      <3> QED BY <1>4, <1>12, <3>1 DEF NodesOf
    <2> QED BY <2>1, <2>2 DEF NodesOf
  <1>24. \A r \in NodesOf(1, L) : r \in N \/ r = 1
    BY <1>12, <1>20, <1>23 DEF Outside
  <1>25. BlocksFit(1, L)
    <2>1. \A b \in L : b.ptr - 1 # 1
      <3> SUFFICES ASSUME NEW b \in L PROVE b.ptr - 1 # 1
        OBVIOUS
      <3>1. b.ptr - 1 \in D /\ b.ptr \in Nat /\ b.ptr >= 2
        BY <1>5, <1>12
      <3> QED BY <1>20, <3>1
    <2>2. ASSUME NEW b \in L, NEW r \in NodesOf(1, L), b.ptr <= r
          PROVE  b.ptr + b.len <= r
      <3>1. r # 1
        BY <1>5, <2>2
      <3> QED BY <1>3, <1>4, <1>24, <2>2, <3>1 DEF BlocksFit
    <2> QED BY <1>3, <2>1, <2>2 DEF BlocksFit
  <1>26. 1 \in 1..m_buffer_end - 1
    BY <1>5
  <1>27. ChainGood(Fwd!Wrapped, 1, L)
    BY <1>22, <1>23, <1>25, <1>26 DEF ChainGood
  <1> QED BY ONLY <1>2, <1>27

\* The cursor takes the place of the freed node in front of it, or one further left.
LEMMA FreedBeforeCursor ==
  ASSUME ForwardBounds, ChainGood(mem, m_buffer_cursor, forwardLive),
         NEW b \in forwardLive, Fwd!DeallocateBeforeCursor(b)
  PROVE  ChainGood(mem', m_buffer_cursor', forwardLive')
  <1>1. PICK c : c = m_buffer_cursor
    OBVIOUS
  <1>2. PICK L : L = forwardLive
    OBVIOUS
  <1>3. /\ mem \in Links /\ c \in 1..m_buffer_end - 1 /\ BlocksFit(c, L) /\ Linked(mem, NodesOf(c, L))
        /\ b \in L
    BY <1>1, <1>2 DEF ChainGood
  <1>4. PICK N : N = NodesOf(c, L)
    OBVIOUS
  <1>5. /\ N \in SUBSET Fwd!Places /\ N \subseteq Int /\ 0 \in N /\ c \in N /\ m_buffer_end \in N
        /\ c \in Nat /\ 1 <= c /\ c < m_buffer_end /\ m_buffer_end \in Nat /\ m_buffer_end >= 2
        /\ Fwd!Places = 0..m_buffer_end /\ \A r \in N : 0 <= r /\ r <= m_buffer_end
        /\ \A d \in L : d.ptr \in 2..m_buffer_end /\ d.ptr - 1 \in N /\ d.ptr - 1 # c
    BY <1>3, <1>4, NodesAre
  <1>6. Fwd!m_buffer_begin = 0 /\ Linked(mem, N)
    BY <1>3, <1>4 DEF Fwd!m_buffer_begin
  <1>7. PICK node : node = b.ptr - 1
    OBVIOUS
  <1>8. node \in N /\ node \in Int /\ 1 <= node /\ node < m_buffer_end /\ node # c
    <2>1. /\ b.ptr \in 2..m_buffer_end /\ b.ptr - 1 \in N /\ b.ptr - 1 # c
          /\ m_buffer_end \in Nat
      BY <1>3, <1>5
    <2> QED BY <1>7, <2>1
  <1>9. PICK p \in N : Adjacent(N, p, node)
    <2>1. node # 0
      BY <1>8
    <2> QED BY <1>5, <1>8, <2>1, PrevNode
  <1>10. Adjacent(N, node, c)
    <2>1. PICK f \in N : Adjacent(N, node, f)
      BY <1>5, <1>8, NextNode
    <2>2. Fwd!get_next(mem, node) = f
      BY <1>5, <1>6, <2>1, Neighbours
    <2> QED BY <1>1, <1>7, <2>1, <2>2 DEF Fwd!DeallocateBeforeCursor
  <1>11. PICK q \in N : Adjacent(N, c, q)
    <2>1. c # m_buffer_end
      BY <1>5
    <2> QED BY <1>5, <2>1, NextNode
  <1>12. Fwd!get_prev(mem, node) = p /\ Fwd!get_next(mem, c) = q
    BY <1>5, <1>6, <1>9, <1>11, Neighbours
  <1>13. /\ p \in Int /\ q \in Int /\ 0 <= p /\ p < node /\ node < c /\ c < q /\ q <= m_buffer_end
         /\ \A r \in N : (r <= p \/ node <= r) /\ (r <= node \/ c <= r) /\ (r <= c \/ q <= r)
    BY <1>5, <1>9, <1>10, <1>11 DEF Adjacent
  <1>14. PICK to : to = IF p = 0 THEN 1 ELSE node
    OBVIOUS
  <1>15. to \in Int /\ p < to /\ to <= node /\ to < q /\ 1 <= to
    BY <1>5, <1>8, <1>13, <1>14
  <1>16. PICK n : n = [mem EXCEPT ![c] = Fwd!DATA, ![node] = Fwd!DATA]
    OBVIOUS
  <1>17. n \in Links /\ SameOutside(mem, n, N, p, q)
    <2>1. n \in Links /\ \A x \in Fwd!Places : x # c /\ x # node => n[x] = mem[x]
      <3>1. PICK l : l = [mem EXCEPT ![c] = Fwd!DATA]
        OBVIOUS
      <3>2. l \in Links /\ \A x \in Fwd!Places : x # c => l[x] = mem[x]
        <4>1. l = Erased(mem, c)
          BY <1>3, <1>5, <3>1 DEF Erased
        <4> QED BY <1>3, <1>5, <4>1, DataWritten
      <3>3. n = [l EXCEPT ![node] = Fwd!DATA]
        BY <1>16, <3>1
      <3>4. n \in Links /\ \A x \in Fwd!Places : x # node => n[x] = l[x]
        <4>1. n = Erased(l, node)
          BY <1>5, <1>8, <3>2, <3>3 DEF Erased
        <4> QED BY <1>5, <1>8, <3>2, <4>1, DataWritten
      <3> QED BY <3>2, <3>4
    <2>2. \A x \in N : x <= p \/ q <= x => n[x] = mem[x]
      <3> SUFFICES ASSUME NEW x \in N, x <= p \/ q <= x PROVE n[x] = mem[x]
        OBVIOUS
      <3>1. x \in Fwd!Places /\ x \in Int /\ c \in Int
        BY <1>5
      <3>2. x # c /\ x # node
        BY <1>8, <1>13, <3>1
      <3> QED BY <2>1, <3>1, <3>2
    <2>3. \A x \in N : x < p \/ q <= x \/ x <= p \/ q < x => x <= p \/ q <= x
      BY <1>5, <1>13
    <2> QED BY <2>1, <2>2, <2>3 DEF SameOutside
  <1>18. /\ mem' = Fwd!Link(Fwd!Link(n, p, to), to, q)
         /\ m_buffer_cursor' = to
         /\ forwardLive' = L \ {b}
    <2>1. Fwd!Leftmost(mem, node) = to
      BY <1>6, <1>12, <1>14 DEF Fwd!Leftmost
    <2> QED BY <1>1, <1>2, <1>7, <1>12, <1>16, <2>1 DEF Fwd!DeallocateBeforeCursor
  <1>19. mem' \in Links /\ Linked(mem', Outside(N, p, q) \cup {to})
    <2>1. ForwardBounds
      OBVIOUS
    <2>2. /\ Fwd!Link(Fwd!Link(n, p, to), to, q) \in Links
          /\ Linked(Fwd!Link(Fwd!Link(n, p, to), to, q), Outside(N, p, q) \cup {to})
      BY ONLY <1>3, <1>5, <1>6, <1>9, <1>11, <1>15, <1>17, <2>1, Splice
    <2> QED BY ONLY <1>18, <2>2
  <1>20. PICK K : K = L \ {b}
    OBVIOUS
  <1>21. {d.ptr - 1 : d \in K} = {d.ptr - 1 : d \in L} \ {node}
    <2>1. \A d \in K : d \in L /\ d.ptr - 1 # node
      <3> SUFFICES ASSUME NEW d \in K PROVE d \in L /\ d.ptr - 1 # node
        OBVIOUS
      <3>1. d \in L /\ d # b /\ d.ptr \in Int /\ b.ptr \in Int
        BY <1>3, <1>5, <1>20
      <3>2. d.ptr # b.ptr
        BY <1>3, <3>1 DEF BlocksFit
      <3> QED BY <1>7, <3>1, <3>2
    <2>2. \A d \in L : d.ptr - 1 # node => d \in K
      BY <1>7, <1>20
    <2> QED BY <2>1, <2>2
  <1>22. NodesOf(to, K) = Outside(N, p, q) \cup {to}
    <2>1. N = {0, c, m_buffer_end} \cup {d.ptr - 1 : d \in L}
      BY <1>4 DEF NodesOf
    <2>2. Outside(N, p, q) = N \ {c, node}
      <3>1. \A r \in N : r <= p \/ q <= r <=> r # c /\ r # node
        <4> SUFFICES ASSUME NEW r \in N PROVE r <= p \/ q <= r <=> r # c /\ r # node
          OBVIOUS
        <4>1. r \in Int
          BY <1>5
        <4> QED BY <1>5, <1>8, <1>13, <4>1
      <3> QED BY <3>1 DEF Outside
    <2>3. c \notin {d.ptr - 1 : d \in L} /\ 0 # c /\ m_buffer_end # c /\ 0 # node /\ m_buffer_end # node
      BY <1>5, <1>8
    <2> QED BY ONLY <1>21, <2>1, <2>2, <2>3 DEF NodesOf
  <1>23. \A r \in NodesOf(to, K) : r \in Int /\ (r = to \/ (r \in N /\ (r <= p \/ q <= r)))
    BY <1>5, <1>15, <1>22 DEF Outside
  <1>24. BlocksFit(to, K)
    <2>1. ASSUME NEW d \in K PROVE d.ptr - 1 # to
      <3>1. d \in L /\ d.ptr - 1 \in N /\ d.ptr - 1 # c /\ d.ptr - 1 # node /\ d.ptr \in Nat
            /\ 2 <= d.ptr
        <4>1. d.ptr - 1 # node
          BY <1>21
        <4> QED BY <1>5, <1>20, <4>1
      <3>2. d.ptr - 1 <= p \/ c <= d.ptr - 1
        <4>1. PICK r : r = d.ptr - 1
          OBVIOUS
        <4>2. r \in N /\ r \in Int /\ r # node
          BY <3>1, <4>1
        <4>3. (r <= p \/ node <= r) /\ (r <= node \/ c <= r)
          BY <1>13, <4>2
        <4>4. r <= p \/ c <= r
          BY <1>8, <4>2, <4>3
        <4> QED BY <4>1, <4>4
      <3> QED BY <1>5, <1>8, <1>13, <1>15, <3>1, <3>2
    <2>2. ASSUME NEW d \in K, NEW r \in NodesOf(to, K), d.ptr <= r
          PROVE  d.ptr + d.len <= r
      <3>1. d \in L /\ 2 <= d.ptr
        BY <1>5, <1>20
      <3>2. CASE r \in N
        BY <1>3, <1>4, <2>2, <3>1, <3>2 DEF BlocksFit
      <3>3. CASE r \notin N
        <4>1. r = 1
          BY <1>8, <1>14, <1>23, <3>3
        <4> QED BY <1>5, <2>2, <3>1, <4>1
      <3> QED BY <3>2, <3>3
    <2>3. K \subseteq L
      BY <1>20
    <2> QED BY <1>3, <2>1, <2>2, <2>3 DEF BlocksFit
  <1>25. Adjacent(NodesOf(to, K), 0, to) => to = 1
    <2> SUFFICES ASSUME to # 1 PROVE ~Adjacent(NodesOf(to, K), 0, to)
      OBVIOUS
    <2>1. p # 0
      BY <1>14
    <2>2. p \in NodesOf(to, K)
      BY <1>9, <1>13, <1>22 DEF Outside
    <2> QED BY <1>13, <1>15, <2>1, <2>2 DEF Adjacent
  <1>26. to \in 1..m_buffer_end - 1
    BY <1>5, <1>13, <1>15
  <1>27. ChainGood(mem', to, K)
    BY <1>19, <1>22, <1>24, <1>25, <1>26 DEF ChainGood
  <1> QED BY ONLY <1>18, <1>20, <1>27

LEMMA FreedElsewhere ==
  ASSUME ForwardBounds, ChainGood(mem, m_buffer_cursor, forwardLive),
         NEW b \in forwardLive, Fwd!DeallocateElsewhere(b)
  PROVE  ChainGood(mem', m_buffer_cursor', forwardLive')
  <1>1. PICK c : c = m_buffer_cursor
    OBVIOUS
  <1>2. PICK L : L = forwardLive
    OBVIOUS
  <1>3. /\ mem \in Links /\ c \in 1..m_buffer_end - 1 /\ BlocksFit(c, L) /\ Linked(mem, NodesOf(c, L))
        /\ b \in L /\ (Adjacent(NodesOf(c, L), 0, c) => c = 1)
    BY <1>1, <1>2 DEF ChainGood
  <1>4. PICK N : N = NodesOf(c, L)
    OBVIOUS
  <1>5. /\ N \in SUBSET Fwd!Places /\ N \subseteq Int /\ 0 \in N /\ c \in N /\ m_buffer_end \in N
        /\ c \in Nat /\ 1 <= c /\ c < m_buffer_end /\ m_buffer_end \in Nat
        /\ Fwd!Places = 0..m_buffer_end
        /\ \A d \in L : d.ptr \in 2..m_buffer_end /\ d.ptr - 1 \in N /\ d.ptr - 1 # c
    BY <1>3, <1>4, NodesAre
  <1>6. Linked(mem, N)
    BY <1>3, <1>4
  <1>7. PICK node : node = b.ptr - 1
    OBVIOUS
  <1>8. node \in N /\ node \in Int /\ 1 <= node /\ node < m_buffer_end /\ node # c
    <2>1. /\ b.ptr \in 2..m_buffer_end /\ b.ptr - 1 \in N /\ b.ptr - 1 # c
          /\ m_buffer_end \in Nat
      BY <1>3, <1>5
    <2> QED BY <1>7, <2>1
  <1>9. PICK p \in N : Adjacent(N, p, node)
    <2>1. node # 0
      BY <1>8
    <2> QED BY <1>5, <1>8, <2>1, PrevNode
  <1>10. PICK q \in N : Adjacent(N, node, q)
    BY <1>5, <1>8, NextNode
  <1>11. Fwd!get_prev(mem, node) = p /\ Fwd!get_next(mem, node) = q
    BY <1>5, <1>6, <1>9, <1>10, Neighbours
  <1>12. PICK j : j = Fwd!Link(mem, p, q)
    OBVIOUS
  <1>13. /\ mem' = [j EXCEPT ![node] = Fwd!DATA] /\ forwardLive' = L \ {b}
         /\ m_buffer_cursor' = c /\ c # q
    BY <1>1, <1>2, <1>7, <1>11, <1>12 DEF Fwd!DeallocateElsewhere
  <1>14. /\ p \in Int /\ q \in Int /\ p < node /\ node < q
         /\ \A r \in N : (r <= p \/ node <= r) /\ (r <= node \/ q <= r)
    BY <1>5, <1>9, <1>10 DEF Adjacent
  <1>15. PICK D : D = N \ {node}
    OBVIOUS
  <1>16. j \in Links /\ Linked(j, D)
    <2>1. SameOutside(mem, mem, N, p, q) /\ p < q
      BY <1>8, <1>14 DEF SameOutside
    <2>2. Outside(N, p, q) = D
      <3>1. \A r \in N : r <= p \/ q <= r <=> r # node
        <4> SUFFICES ASSUME NEW r \in N PROVE r <= p \/ q <= r <=> r # node
          OBVIOUS
        <4>1. r \in Int
          BY <1>5
        <4> QED BY <1>8, <1>14, <4>1
      <3> QED BY <1>15, <3>1 DEF Outside
    <2>3. ForwardBounds
      OBVIOUS
    <2>4. Fwd!Link(mem, p, q) \in Links /\ Linked(Fwd!Link(mem, p, q), Outside(N, p, q))
      BY ONLY <1>3, <1>5, <1>6, <1>9, <1>10, <2>1, <2>3, Bridge
    <2> QED BY ONLY <1>12, <2>2, <2>4
  <1>17. mem' \in Links /\ Linked(mem', D)
    <2>1. node \in Fwd!Places /\ D \subseteq Fwd!Places /\ node \notin D
      BY <1>5, <1>8, <1>15
    <2>2. mem' \in Links /\ \A x \in Fwd!Places : x # node => mem'[x] = j[x]
      <3>1. mem' = Erased(j, node)
        BY <1>13, <1>16, <2>1 DEF Erased
      <3> QED BY <1>16, <2>1, <3>1, DataWritten
    <2>3. mem' \in Links /\ \A x \in D : mem'[x] = j[x]
      BY <2>1, <2>2
    <2> QED BY <1>16, <2>3 DEF Linked
  <1>18. PICK K : K = L \ {b}
    OBVIOUS
  <1>19. {d.ptr - 1 : d \in K} = {d.ptr - 1 : d \in L} \ {node}
    <2>1. \A d \in K : d \in L /\ d.ptr - 1 # node
      <3> SUFFICES ASSUME NEW d \in K PROVE d \in L /\ d.ptr - 1 # node
        OBVIOUS
      <3>1. d \in L /\ d # b /\ d.ptr \in Int /\ b.ptr \in Int
        BY <1>3, <1>5, <1>18
      <3>2. d.ptr # b.ptr
        BY <1>3, <3>1 DEF BlocksFit
      <3> QED BY <1>7, <3>1, <3>2
    <2>2. \A d \in L : d.ptr - 1 # node => d \in K
      BY <1>7, <1>18
    <2> QED BY <2>1, <2>2
  <1>20. NodesOf(c, K) = D
    <2>1. 0 # node /\ m_buffer_end # node /\ c # node
      BY <1>5, <1>8
    <2> QED BY ONLY <1>4, <1>15, <1>19, <2>1 DEF NodesOf
  <1>21. BlocksFit(c, K)
    <2>1. K \subseteq L /\ NodesOf(c, K) \subseteq NodesOf(c, L)
      BY <1>4, <1>15, <1>18, <1>20
    <2> QED BY <1>3, <2>1 DEF BlocksFit
  <1>22. ASSUME Adjacent(D, 0, c) PROVE c = 1
    <2>1. CASE node < c
      <3>1. Adjacent(N, node, c)
        BY <1>5, <1>8, <1>15, <1>22, <2>1 DEF Adjacent
      <3>2. Fwd!get_next(mem, node) = c
        BY <1>5, <1>6, <3>1, Neighbours
      <3> QED BY <1>11, <1>13, <3>2
    <2>2. CASE c < node
      <3>1. Adjacent(N, 0, c)
        BY <1>5, <1>8, <1>15, <1>22, <2>2 DEF Adjacent
      <3> QED BY <1>3, <1>4, <3>1
    <2> QED BY <1>5, <1>8, <2>1, <2>2
  <1>23. ChainGood(mem', c, K)
    BY <1>3, <1>17, <1>20, <1>21, <1>22 DEF ChainGood
  <1> QED BY ONLY <1>13, <1>18, <1>23

ForwardInv == ChainGood(mem, m_buffer_cursor, forwardLive)

\* The region of a new block is apart from those of the live blocks.
LEMMA ForwardAllocates ==
  ASSUME ForwardBounds, NEW c, NEW m, ChainGood(m, c, forwardLive),
         NEW align \in ForwardAlignments, NEW size \in ForwardSizes,
         Fwd!Fits(m, c, size, align), Fwd!Allocate(m, c, size, align)
  PROVE  ForwardInv' /\ Fwd!Regions!Next
  <1>1. PICK L : L = forwardLive
    OBVIOUS
  <1>2. PICK at \in 1..m_buffer_end :
           /\ ChainGood(mem', at + 1 + size, L \cup {[ptr |-> at + 1, len |-> size]})
           /\ m_buffer_cursor' = at + 1 + size
           /\ forwardLive' = L \cup {[ptr |-> at + 1, len |-> size]}
           /\ at + 1 + size <= m_buffer_end
           /\ \A b \in L : b.ptr + b.len <= at \/ at + 1 + size <= b.ptr
    <2>1. /\ ForwardBounds /\ ChainGood(m, c, L)
          /\ align \in ForwardAlignments /\ size \in ForwardSizes
          /\ Fwd!Fits(m, c, size, align) /\ Fwd!Allocate(m, c, size, align)
      BY <1>1
    <2> QED BY ONLY <1>1, <2>1, BlockTaken
  <1>3. ForwardInv'
    BY <1>2 DEF ForwardInv
  <1>4. PICK r : r = [ptr |-> at + 1, len |-> size]
    OBVIOUS
  <1>5. \A b \in L : b.ptr \in Nat /\ b.len \in Nat
    <2>1. /\ L \subseteq [ptr : 2..m_buffer_end, len : ForwardSizes]
          /\ ForwardSizes \subseteq Nat /\ m_buffer_end \in Nat
      BY <1>1 DEF ChainGood, BlocksFit, ForwardBounds
    <2>2. ASSUME NEW b \in L PROVE b.ptr \in Nat /\ b.len \in Nat
      <3>1. b.ptr \in 2..m_buffer_end /\ b.len \in ForwardSizes
        BY <2>1
      <3>2. b.len \in Nat
        BY <2>1, <3>1
      <3>3. b.ptr \in Nat
        BY ONLY <2>1, <3>1, SMT
      <3> QED BY <3>2, <3>3
    <2> QED BY <2>2
  <1>6. /\ r \in Fwd!Regions!Region /\ Fwd!Regions!InRange(r)
        /\ \A s \in L : Fwd!Regions!Apart(r, s)
    BY <1>2, <1>4, <1>5 DEF ForwardBounds, Fwd!Regions!Region, Fwd!Regions!InRange, Fwd!Regions!Apart
  <1>7. Fwd!Regions!Allocate
    BY <1>1, <1>2, <1>4, <1>6 DEF Fwd!Regions!Allocate
  <1> QED BY <1>3, <1>7 DEF Fwd!Regions!Next

LEMMA ForwardStep ==
  ASSUME ForwardBounds, ForwardInv, [Fwd!Next]_forwardVars
  PROVE  ForwardInv' /\ [Fwd!Regions!Next]_forwardLive
  <1>1. CASE Fwd!reset
    <2>1. mem' = Fwd!EmptyMem /\ m_buffer_cursor' = 1 /\ forwardLive' = {}
      BY <1>1 DEF Fwd!reset, Fwd!m_buffer_begin
    <2>2. ForwardInv'
      BY <2>1, EmptyChain DEF ForwardInv
    <2> QED BY <2>1, <2>2 DEF Fwd!Regions!Next, Fwd!Regions!Release
  <1>2. ASSUME NEW size \in ForwardSizes, NEW align \in ForwardAlignments,
               Fwd!AllocateAtCursor(size, align)
        PROVE  ForwardInv' /\ [Fwd!Regions!Next]_forwardLive
    BY <1>2, ForwardAllocates DEF Fwd!AllocateAtCursor, ForwardInv
  <1>3. CASE UNCHANGED forwardVars
    BY <1>3 DEF forwardVars, ForwardInv
  <1>4. ASSUME NEW size \in ForwardSizes, NEW align \in ForwardAlignments,
               Fwd!AllocateFails(size, align)
        PROVE  ForwardInv' /\ [Fwd!Regions!Next]_forwardLive
    BY <1>3, <1>4 DEF Fwd!AllocateFails, Fwd!vars, forwardVars
  <1>5. ASSUME NEW size \in ForwardSizes, NEW align \in ForwardAlignments,
               Fwd!MustWrap(size, align)
        PROVE  ChainGood(Fwd!Wrapped, 1, forwardLive)
    BY <1>5, WrappedGood DEF Fwd!MustWrap, ForwardInv, ForwardBounds
  <1>6. ASSUME NEW size \in ForwardSizes, NEW align \in ForwardAlignments,
               Fwd!AllocateWraps(size, align)
        PROVE  ForwardInv' /\ [Fwd!Regions!Next]_forwardLive
    <2>1. /\ Fwd!Fits(Fwd!Wrapped, 1, size, align) /\ Fwd!Allocate(Fwd!Wrapped, 1, size, align)
          /\ Fwd!MustWrap(size, align)
      BY <1>6 DEF Fwd!AllocateWraps, Fwd!m_buffer_begin
    <2> QED BY <1>5, <2>1, ForwardAllocates
  <1>7. ASSUME NEW size \in ForwardSizes, NEW align \in ForwardAlignments,
               Fwd!AllocateFailsWrapped(size, align)
        PROVE  ForwardInv' /\ [Fwd!Regions!Next]_forwardLive
    <2>1. /\ mem' = Fwd!Wrapped /\ m_buffer_cursor' = 1 /\ forwardLive' = forwardLive
          /\ Fwd!MustWrap(size, align)
      BY <1>7 DEF Fwd!AllocateFailsWrapped, Fwd!m_buffer_begin
    <2> QED BY <1>5, <2>1 DEF ForwardInv
  <1>8. ASSUME NEW b \in forwardLive, Fwd!DeallocateBeforeCursor(b)
        PROVE  ForwardInv' /\ [Fwd!Regions!Next]_forwardLive
    <2>1. ForwardInv'
      BY <1>8, FreedBeforeCursor DEF ForwardInv
    <2>2. forwardLive' \subseteq forwardLive
      BY <1>8 DEF Fwd!DeallocateBeforeCursor
    <2> QED BY <2>1, <2>2 DEF Fwd!Regions!Next, Fwd!Regions!Release
  <1>9. ASSUME NEW b \in forwardLive, Fwd!DeallocateElsewhere(b)
        PROVE  ForwardInv' /\ [Fwd!Regions!Next]_forwardLive
    <2>1. ForwardInv'
      BY <1>9, FreedElsewhere DEF ForwardInv
    <2>2. forwardLive' \subseteq forwardLive
      BY <1>9 DEF Fwd!DeallocateElsewhere
    <2> QED BY <2>1, <2>2 DEF Fwd!Regions!Next, Fwd!Regions!Release
  <1> QED BY <1>1, <1>2, <1>3, <1>4, <1>6, <1>7, <1>8, <1>9 DEF Fwd!Next

-----------------------------------------------------------------------------
(* Forward: the theorems                                                   *)

Further(m) ==
  [reached \in SUBSET Fwd!Places |->
     reached \cup ({Fwd!get_next(m, p) : p \in reached \ {m_buffer_end}} \cap Fwd!Places)]

\* The links forth lead through all nodes of the chain and no others.
LEMMA ReachedAre ==
  ASSUME ForwardBounds, NEW m, NEW C \in SUBSET Fwd!Places, 0 \in C, m_buffer_end \in C,
         Linked(m, C)
  PROVE  StatesOf(Further(m), {0})[m_buffer_end] = C
  <1>1. /\ m_buffer_end \in Nat /\ Fwd!Places = 0..m_buffer_end /\ C \subseteq Nat
        /\ \A r \in C : 0 <= r /\ r <= m_buffer_end
    BY DEF ForwardBounds, Fwd!Places, Fwd!m_buffer_begin
  <1>2. PICK turn : turn = Further(m)
    OBVIOUS
  <1>3. PICK S : S = SUBSET Fwd!Places
    OBVIOUS
  <1>4. \A X \in S : /\ turn[X] \in S
                     /\ turn[X] = X \cup ({Fwd!get_next(m, p) : p \in X \ {m_buffer_end}} \cap Fwd!Places)
    BY <1>2, <1>3 DEF Further
  <1>5. {0} \in S
    BY <1>1, <1>3
  <1>6. PICK f : f = StatesOf(turn, {0})
    OBVIOUS
  <1>7. f \in [Nat -> S] /\ f[0] = {0} /\ \A k \in Nat : f[k + 1] = turn[f[k]]
    <2>1. \A X \in S : turn[X] \in S
      BY <1>4
    <2>2. Loops(f, S, turn, {0})
      BY ONLY <1>5, <1>6, <2>1, StatesOfLoop
    <2> QED BY <2>2 DEF Loops
  <1> DEFINE P == {k \in Nat : f[k] \subseteq C /\ \A r \in C : r <= k => r \in f[k]}
  <1>8. 0 \in P
    BY <1>1, <1>7
  <1>9. ASSUME NEW k \in Nat, k \in P PROVE k + 1 \in P
    <2>1. f[k] \subseteq C /\ (\A r \in C : r <= k => r \in f[k]) /\ f[k] \in S
      BY <1>7, <1>9
    <2>2. f[k + 1] = f[k] \cup ({Fwd!get_next(m, p) : p \in f[k] \ {m_buffer_end}} \cap Fwd!Places)
      BY <1>4, <1>7, <2>1
    <2>3. ASSUME NEW p \in f[k] \ {m_buffer_end} PROVE Fwd!get_next(m, p) \in C
      <3>1. p \in C /\ p # m_buffer_end
        BY <2>1
      <3>2. PICK q \in C : Adjacent(C, p, q)
        BY <3>1, NextNode
      <3> QED BY <3>2, Neighbours
    <2>4. f[k + 1] \subseteq C
      BY <2>1, <2>2, <2>3
    <2>5. ASSUME NEW r \in C, r <= k + 1 PROVE r \in f[k + 1]
      <3>1. r \in Nat
        BY <1>1
      <3>2. CASE r <= k
        BY <2>1, <2>2, <3>2
      <3>3. CASE ~(r <= k)
        <4>1. r # 0 /\ r = k + 1
          BY <2>5, <3>1, <3>3
        <4>2. PICK p \in C : Adjacent(C, p, r)
          BY <4>1, PrevNode
        <4>3. Fwd!get_next(m, p) = r
          BY <4>2, Neighbours
        <4>4. p \in Nat /\ p < r /\ r <= m_buffer_end
          BY <1>1, <4>2 DEF Adjacent
        <4>5. p <= k /\ p # m_buffer_end
          BY <1>1, <4>1, <4>4
        <4>6. p \in f[k] /\ r \in Fwd!Places
          BY <2>1, <4>5
        <4> QED BY <2>2, <4>3, <4>5, <4>6
      <3> QED BY <3>2, <3>3
    <2> QED BY <2>4, <2>5
  <1>10. Nat \subseteq P
    <2>1. \A k \in Nat : k \in P => k + 1 \in P
      BY <1>9
    <2> HIDE DEF P
    <2> QED BY ONLY <1>8, <2>1, NatSetInduction
  <1>11. m_buffer_end \in P
    BY <1>1, <1>10
  <1>12. f[m_buffer_end] = C
    BY <1>1, <1>11
  <1> QED BY <1>2, <1>6, <1>12

LEMMA ChainIs ==
  ASSUME ForwardBounds, ForwardInv
  PROVE  Fwd!Chain = NodesOf(m_buffer_cursor, forwardLive)
  <1>1. PICK C : C = NodesOf(m_buffer_cursor, forwardLive)
    OBVIOUS
  <1>2. C \in SUBSET Fwd!Places /\ 0 \in C /\ m_buffer_end \in C
    BY <1>1, NodesAre DEF ForwardInv, ChainGood
  <1>3. Linked(mem, C)
    BY <1>1 DEF ForwardInv, ChainGood
  <1>4. Fwd!Chain = StatesOf(Further(mem), {0})[m_buffer_end]
    BY DEF Fwd!Chain, Fwd!StatesOf, StatesOf, Further, Fwd!m_buffer_begin
  <1> QED BY <1>1, <1>2, <1>3, <1>4, ReachedAre

LEMMA ChainValid ==
  ASSUME ForwardBounds, ForwardInv
  PROVE  ChainIsLive /\ EmptyAgain
  <1>1. PICK c : c = m_buffer_cursor
    OBVIOUS
  <1>2. PICK L : L = forwardLive
    OBVIOUS
  <1>3. PICK N : N = NodesOf(c, L)
    OBVIOUS
  <1>4. /\ mem \in Links /\ c \in 1..m_buffer_end - 1 /\ BlocksFit(c, L) /\ Linked(mem, N)
        /\ Adjacent(N, 0, c) => c = 1
    BY <1>1, <1>2, <1>3 DEF ForwardInv, ChainGood
  <1>5. /\ N \in SUBSET Fwd!Places /\ N \subseteq Int /\ 0 \in N /\ c \in N /\ m_buffer_end \in N
        /\ c \in Nat /\ 1 <= c /\ c < m_buffer_end /\ m_buffer_end \in Nat
        /\ Fwd!Places = 0..m_buffer_end /\ \A r \in N : 0 <= r /\ r <= m_buffer_end
        /\ \A b \in L : /\ b.ptr \in 2..m_buffer_end /\ b.len \in Nat /\ b.len \in ForwardSizes
                        /\ b.ptr - 1 \in N /\ b.ptr - 1 # c
    BY <1>3, <1>4, NodesAre
  <1>6. Fwd!Chain = N /\ Fwd!m_buffer_begin = 0
    BY <1>1, <1>2, <1>3, ChainIs DEF Fwd!m_buffer_begin
  <1>7. Fwd!TypeOK
    <2>1. L \subseteq [ptr : Fwd!Places, len : ForwardSizes]
      <3>1. L \subseteq [ptr : 2..m_buffer_end, len : ForwardSizes]
        BY <1>4 DEF BlocksFit
      <3>2. 2..m_buffer_end \subseteq Fwd!Places
        BY <1>5
      <3> QED BY <3>1, <3>2
    <2>2. c \in Fwd!Places \ {0}
      BY <1>5
    <2> QED BY <1>1, <1>2, <1>4, <1>6, <2>1, <2>2 DEF Fwd!TypeOK, Links
  <1>8. Fwd!s_validate_chain
    <2>1. ASSUME NEW p \in N \ {m_buffer_end}
          PROVE  /\ Fwd!get_next(mem, p) \in p+1..m_buffer_end
                 /\ Fwd!get_prev(mem, Fwd!get_next(mem, p)) = p
      <3>1. PICK q \in N : Adjacent(N, p, q)
        BY <1>5, NextNode
      <3>2. Fwd!get_next(mem, p) = q /\ Fwd!get_prev(mem, q) = p
        BY <1>4, <1>5, <3>1, Neighbours
      <3>3. p \in Int /\ q \in Int /\ p < q /\ q <= m_buffer_end
        BY <1>5, <3>1 DEF Adjacent
      <3> QED BY <1>5, <3>2, <3>3
    <2> QED BY <1>5, <1>6, <2>1 DEF Fwd!s_validate_chain
  <1>9. \A b \in L : b.ptr + b.len <= Fwd!get_next(mem, b.ptr - 1)
    <2> SUFFICES ASSUME NEW b \in L PROVE b.ptr + b.len <= Fwd!get_next(mem, b.ptr - 1)
      OBVIOUS
    <2>1. PICK node \in N : node = b.ptr - 1
      BY <1>5
    <2>2. b.ptr \in Int /\ node # m_buffer_end /\ node \in Int
      <3>1. b.ptr \in 2..m_buffer_end /\ m_buffer_end \in Nat
        BY <1>5
      <3> QED BY <2>1, <3>1
    <2>3. PICK q \in N : Adjacent(N, node, q)
      BY <1>5, <2>2, NextNode
    <2>4. Fwd!get_next(mem, node) = q
      BY <1>4, <1>5, <2>3, Neighbours
    <2>5. q \in Int /\ b.ptr <= q
      BY <1>5, <2>1, <2>2, <2>3 DEF Adjacent
    <2>6. b.ptr + b.len <= q
      BY <1>3, <1>4, <2>5 DEF BlocksFit
    <2> QED BY <2>1, <2>4, <2>6
  <1>10. ChainIsLive
    <2>1. N = {Fwd!m_buffer_begin, m_buffer_cursor, m_buffer_end} \cup {b.ptr - 1 : b \in forwardLive}
      BY <1>1, <1>2, <1>3, <1>6 DEF NodesOf
    <2> QED BY <1>2, <1>6, <1>7, <1>8, <1>9, <2>1 DEF ChainIsLive, Fwd!ChainIsLive
  <1>11. ASSUME L = {} PROVE Fwd!is_empty
    <2>1. N = {0, c, m_buffer_end}
      BY <1>3, <1>11 DEF NodesOf
    <2>2. Adjacent(N, 0, c) /\ Adjacent(N, c, m_buffer_end)
      BY <1>5, <2>1 DEF Adjacent
    <2>3. c = 1
      BY <1>4, <2>2
    <2>4. /\ Fwd!get_next(mem, c) = m_buffer_end /\ Fwd!get_prev(mem, m_buffer_end) = c
          /\ Fwd!get_next(mem, 0) = c /\ Fwd!get_prev(mem, c) = 0
      BY <1>4, <1>5, <2>2, Neighbours
    <2> QED BY <1>1, <1>6, <2>3, <2>4 DEF Fwd!is_empty
  <1> QED BY <1>2, <1>10, <1>11 DEF EmptyAgain, Fwd!EmptyAgain

LEMMA InvariantOfForward ==
  ASSUME ForwardBounds
  PROVE  MCSpec => []ForwardInv /\ [][Fwd!Next]_forwardVars
  <1>1. MCInit => ForwardInv
    BY EmptyChain DEF MCInit, Fwd!Init, Fwd!m_buffer_begin, ForwardInv
  <1>2. [MCNext]_allVars
          => [Fwd!Next]_forwardVars
    BY DEF MCNext, allVars, NextOfStack, NextOfLinear, NextOfForward, NextOfFrame
  <1>3. ForwardInv /\ [Fwd!Next]_forwardVars => ForwardInv'
    BY ForwardStep
  <1> QED BY <1>1, <1>2, <1>3, PTL DEF MCSpec

\* "ASSERT(s_validate_chain(m_buffer_begin, m_buffer_end))" of forward_alloc_t holds after
\* every call, for every buffer, size and alignment, and the chain is that of the live
\* blocks, as long as the bounds AvoidExactFit and AvoidWrap are kept.
THEOREM ForwardChainIsLive == ASSUME ForwardBounds PROVE MCSpec => []ChainIsLive
  <1>1. ForwardInv => ChainIsLive
    BY ChainValid
  <1> QED BY <1>1, InvariantOfForward, PTL

\* When the client has freed all blocks, in whatever order, is_empty answers true: the
\* whole buffer can be allocated again.
THEOREM ForwardEmptyAgain == ASSUME ForwardBounds PROVE MCSpec => []EmptyAgain
  <1>1. ForwardInv => EmptyAgain
    BY ChainValid
  <1> QED BY <1>1, InvariantOfForward, PTL

LEMMA ForwardImplementsRegions ==
  ASSUME ForwardBounds PROVE MCSpec => Fwd!ImplementsRegions
  <1>1. MCInit => Fwd!Regions!Init
    BY DEF MCInit, Fwd!Init, Fwd!Regions!Init
  <1>2. ForwardInv /\ [Fwd!Next]_forwardVars => [Fwd!Regions!Next]_forwardLive
    BY ForwardStep
  <1>3. MCSpec => MCInit
    BY DEF MCSpec
  <1> QED BY <1>1, <1>2, <1>3, InvariantOfForward, PTL
          DEF Fwd!ImplementsRegions, Fwd!Regions!Spec

\* For their clients both allocators are region allocators: reset of the linear allocator
\* never gives back the allocator itself, and no block of the forward allocator is handed
\* out over a live one, wherever the cursor has wrapped around to.
THEOREM CursorsImplementRegions ==
  ASSUME LinearBounds, ForwardBounds PROVE MCSpec => LinearAndForwardImplementRegions
  BY LinearImplementsRegions, ForwardImplementsRegions, PTL DEF LinearAndForwardImplementRegions

-----------------------------------------------------------------------------
(* Frame: lanes and frames                                                 *)

\* The current frame is one of the active lane.
CurrentInLane == m_current_frame # Frm!NoFrame => m_current_frame[1] = m_active_lane

\* A frame that was created and not reset is held: what the table of the
\* other lane still shows is what a client can reset.
CreatedIsHeld ==
  \A l \in Frm!Lanes, i \in Frm!Numbers :
    i < m_active_frames[l] /\ m_frames[l][i].m_frame_number # -1 => <<l, i>> \in held

FrameInv ==
  /\ Frm!TypeOK
  /\ Frm!OtherLaneEnded
  /\ Frm!HeldCanBeReset
  /\ Frm!BlocksKept
  /\ CurrentInLane
  /\ CreatedIsHeld

LEMMA OtherLane ==
  ASSUME NEW l \in Frm!Lanes
  PROVE  Frm!Other(l) \in Frm!Lanes /\ Frm!Other(l) # l /\ Frm!Lanes = {l, Frm!Other(l)}
  BY DEF Frm!Lanes, Frm!Other

\* The constants that appear in arithmetic.
LEMMA FrameBounds ==
  /\ MaxActiveFrames \in Nat /\ MaxActiveFrames >= 1 /\ FrameArena \in Nat
  /\ 0 \in Frm!Numbers /\ Frm!Numbers \subseteq Nat /\ \A i \in Frm!Numbers : i < MaxActiveFrames
  /\ \A i \in Nat : i < MaxActiveFrames => i \in Frm!Numbers
  BY FrameAssumption DEF Frm!Numbers

LEMMA NoFrameIsNone == Frm!NoFrame \notin Frm!Lanes \X Frm!Numbers
  BY FrameBounds DEF Frm!NoFrame, Frm!Lanes

\* The counters of a lane as numbers.
LEMMA LaneCounters ==
  ASSUME Frm!TypeOK, NEW l \in Frm!Lanes
  PROVE  /\ m_active_lane \in Frm!Lanes
         /\ m_active_frames[l] \in Nat /\ m_active_frames[l] <= MaxActiveFrames
         /\ m_ended_frames[l] \in Nat /\ m_ended_frames[l] <= MaxActiveFrames
         /\ frameArena[l] \in Nat /\ frameArena[l] <= FrameArena
  BY FrameBounds DEF Frm!TypeOK

LEMMA FrameInitInv == Frm!Init => FrameInv
  BY FrameAssumption, FrameBounds
     DEF Frm!Init, FrameInv, Frm!TypeOK, Frm!OtherLaneEnded, Frm!HeldCanBeReset, Frm!BlocksKept, CurrentInLane,
         CreatedIsHeld, Frm!Lanes, Frm!Frame, Frm!ZeroFrame, Frm!Other, Frm!NoFrame

LEMMA FrameResetInv == FrameInv /\ Frm!reset => FrameInv'
  BY FrameAssumption, FrameBounds
     DEF Frm!reset, FrameInv, Frm!TypeOK, Frm!OtherLaneEnded, Frm!HeldCanBeReset, Frm!BlocksKept, CurrentInLane,
         CreatedIsHeld, Frm!Lanes, Frm!Frame, Frm!Other, Frm!NoFrame

\* One record of a table is replaced.
LEMMA ReplaceRecord ==
  ASSUME NEW f \in [Frm!Lanes -> [Frm!Numbers -> Frm!Frame]],
         NEW l \in Frm!Lanes, NEW i \in Frm!Numbers, NEW x \in Frm!Frame
  PROVE  LET g == [f EXCEPT ![l] = [@ EXCEPT ![i] = x]]
         IN  /\ g \in [Frm!Lanes -> [Frm!Numbers -> Frm!Frame]]
             /\ g[l][i] = x
             /\ \A k \in Frm!Lanes, j \in Frm!Numbers : <<k, j>> # <<l, i>> => g[k][j] = f[k][j]
  <1> DEFINE h == [f[l] EXCEPT ![i] = x]
             g == [f EXCEPT ![l] = h]
  <1>1. h \in [Frm!Numbers -> Frm!Frame] /\ h[i] = x /\ \A j \in Frm!Numbers : j # i => h[j] = f[l][j]
    OBVIOUS
  <1> HIDE DEF h
  <1>2. g \in [Frm!Lanes -> [Frm!Numbers -> Frm!Frame]] /\ g[l] = h /\ \A k \in Frm!Lanes : k # l => g[k] = f[k]
    BY <1>1
  <1> HIDE DEF g
  <1>3. \A k \in Frm!Lanes, j \in Frm!Numbers : <<k, j>> # <<l, i>> => g[k][j] = f[k][j]
    BY <1>1, <1>2
  <1> QED BY <1>1, <1>2, <1>3 DEF g, h

\* Ending the current frame changes neither the numbers of the frames nor
\* their types, and afterwards no frame of the active lane is left to end.
LEMMA EndFrame ==
  ASSUME Frm!TypeOK, Frm!OtherLaneEnded
  PROVE  /\ Frm!FramesAfterEnd \in [Frm!Lanes -> [Frm!Numbers -> Frm!Frame]]
         /\ \A l \in Frm!Lanes, i \in Frm!Numbers :
              Frm!FramesAfterEnd[l][i].m_frame_number = m_frames[l][i].m_frame_number
         /\ Frm!EndedAfterEnd \in [Frm!Lanes -> 0..MaxActiveFrames]
         /\ Frm!EndedAfterEnd = m_active_frames
  <1>1. CASE m_current_frame = Frm!NoFrame
    <2>1. m_ended_frames[m_active_lane] = m_active_frames[m_active_lane]
      <3>1. m_active_lane \in Frm!Lanes
        BY DEF Frm!TypeOK
      <3>2. m_active_frames[m_active_lane] - m_ended_frames[m_active_lane] = 0
        BY <1>1 DEF Frm!OtherLaneEnded
      <3> QED BY <3>1, <3>2, LaneCounters
    <2>2. \A l \in Frm!Lanes : m_ended_frames[l] = m_active_frames[l]
      BY <2>1, OtherLane DEF Frm!TypeOK, Frm!OtherLaneEnded
    <2> QED BY <1>1, <2>2 DEF Frm!TypeOK, Frm!FramesAfterEnd, Frm!EndedAfterEnd
  <1>2. CASE m_current_frame # Frm!NoFrame
    <2> DEFINE l == m_current_frame[1]
               i == m_current_frame[2]
    <2>1. l \in Frm!Lanes /\ i \in Frm!Numbers
      BY <1>2 DEF Frm!TypeOK
    <2> DEFINE x == [m_frames[l][i] EXCEPT !.m_ended = 1]
    <2>2. m_frames \in [Frm!Lanes -> [Frm!Numbers -> Frm!Frame]] /\ m_frames[l][i] \in Frm!Frame
      BY <2>1 DEF Frm!TypeOK
    <2>3. x \in Frm!Frame /\ x.m_frame_number = m_frames[l][i].m_frame_number
      BY <2>2 DEF Frm!Frame
    <2>4. Frm!FramesAfterEnd = [m_frames EXCEPT ![l] = [@ EXCEPT ![i] = x]]
      BY <1>2 DEF Frm!FramesAfterEnd
    <2> HIDE DEF l, i, x
    <2>5. Frm!FramesAfterEnd \in [Frm!Lanes -> [Frm!Numbers -> Frm!Frame]]
      BY <2>1, <2>2, <2>3, <2>4, ReplaceRecord
    <2>6. \A k \in Frm!Lanes, j \in Frm!Numbers :
             Frm!FramesAfterEnd[k][j].m_frame_number = m_frames[k][j].m_frame_number
      <3>1. /\ Frm!FramesAfterEnd[l][i] = x
            /\ \A k \in Frm!Lanes, j \in Frm!Numbers :
                 <<k, j>> # <<l, i>> => Frm!FramesAfterEnd[k][j] = m_frames[k][j]
        BY <2>1, <2>2, <2>3, <2>4, ReplaceRecord
      <3> QED BY <2>3, <3>1
    <2>7. Frm!EndedAfterEnd = [m_ended_frames EXCEPT ![m_active_lane] = @ + 1]
      BY <1>2 DEF Frm!EndedAfterEnd
    <2>8. m_ended_frames[m_active_lane] + 1 = m_active_frames[m_active_lane]
      BY <1>2, FrameBounds DEF Frm!TypeOK, Frm!OtherLaneEnded
    <2>9. \A k \in Frm!Lanes : Frm!EndedAfterEnd[k] = m_active_frames[k]
      BY <2>7, <2>8, OtherLane DEF Frm!TypeOK, Frm!OtherLaneEnded
    <2> QED BY <2>5, <2>6, <2>7, <2>9 DEF Frm!TypeOK
  <1> QED BY <1>1, <1>2

LEMMA EndFrameInv == FrameInv /\ Frm!v_end_frame => FrameInv'
  <1> SUFFICES ASSUME FrameInv, Frm!v_end_frame PROVE FrameInv'
    OBVIOUS
  <1> USE DEF FrameInv
  <1>1. /\ m_frames' \in [Frm!Lanes -> [Frm!Numbers -> Frm!Frame]]
        /\ \A l \in Frm!Lanes, i \in Frm!Numbers :
             m_frames'[l][i].m_frame_number = m_frames[l][i].m_frame_number
        /\ m_ended_frames' \in [Frm!Lanes -> 0..MaxActiveFrames]
        /\ m_ended_frames' = m_active_frames
    BY EndFrame DEF Frm!v_end_frame
  <1>2. Frm!TypeOK'
    BY <1>1 DEF Frm!v_end_frame, Frm!TypeOK
  <1>3. Frm!OtherLaneEnded'
    BY <1>1, OtherLane, FrameBounds DEF Frm!v_end_frame, Frm!TypeOK, Frm!OtherLaneEnded
  <1>4. Frm!HeldCanBeReset' /\ CreatedIsHeld' /\ Frm!BlocksKept'
    BY <1>1 DEF Frm!v_end_frame, Frm!HeldCanBeReset, CreatedIsHeld, Frm!BlocksKept, Frm!TypeOK
  <1>5. CurrentInLane'
    BY DEF Frm!v_end_frame, CurrentInLane
  <1> QED BY <1>2, <1>3, <1>4, <1>5

-----------------------------------------------------------------------------
(* new_frame                                                               *)

LEMMA NewRecord ==
  ASSUME NEW i \in Frm!Numbers
  PROVE  /\ [Frm!ZeroFrame EXCEPT !.m_frame_number = i] \in Frm!Frame
         /\ [Frm!ZeroFrame EXCEPT !.m_frame_number = i].m_frame_number = i
  BY DEF Frm!ZeroFrame, Frm!Frame

LEMMA NewFrameInv == FrameInv /\ Frm!v_new_frame => FrameInv'
  <1> SUFFICES ASSUME FrameInv, Frm!v_new_frame PROVE FrameInv'
    OBVIOUS
  <1> USE DEF FrameInv
  <1> DEFINE lane == m_active_lane
             i    == m_active_frames[m_active_lane]
             new  == [Frm!ZeroFrame EXCEPT !.m_frame_number = i]
  <1>1. lane \in Frm!Lanes /\ i \in Frm!Numbers /\ i \in Nat /\ <<lane, i>> # Frm!NoFrame
    BY FrameBounds, NoFrameIsNone DEF Frm!v_new_frame, Frm!TypeOK
  <1>2. new \in Frm!Frame /\ new.m_frame_number = i
    BY <1>1, NewRecord
  <1>3. m_frames' = [Frm!FramesAfterEnd EXCEPT ![lane] = [@ EXCEPT ![i] = new]]
    BY DEF Frm!v_new_frame, Frm!StartFrame
  <1>4. m_current_frame' = <<lane, i>> /\ held' = held \cup {<<lane, i>>}
    BY DEF Frm!v_new_frame, Frm!StartFrame
  <1>5. /\ m_active_frames' = [m_active_frames EXCEPT ![lane] = i + 1]
        /\ m_ended_frames' = m_active_frames
        /\ UNCHANGED <<m_active_lane, frameArena, blocks>>
    BY EndFrame DEF Frm!v_new_frame
  <1> HIDE DEF new
  <1>6. m_frames' \in [Frm!Lanes -> [Frm!Numbers -> Frm!Frame]]
    BY <1>1, <1>2, <1>3, EndFrame
  <1>7. /\ m_frames'[lane][i].m_frame_number = i
        /\ \A l \in Frm!Lanes, j \in Frm!Numbers : <<l, j>> # <<lane, i>> =>
             m_frames'[l][j].m_frame_number = m_frames[l][j].m_frame_number
    BY <1>1, <1>2, <1>3, EndFrame
  <1>8. Frm!TypeOK'
    <2>1. i + 1 \in 0..MaxActiveFrames
      BY <1>1, FrameBounds
    <2>2. m_active_frames' \in [Frm!Lanes -> 0..MaxActiveFrames]
      BY <1>1, <1>5, <2>1 DEF Frm!TypeOK
    <2>3. m_ended_frames' \in [Frm!Lanes -> 0..MaxActiveFrames]
      BY <1>5 DEF Frm!TypeOK
    <2>4. m_current_frame' \in Frm!Lanes \X Frm!Numbers /\ held' \subseteq Frm!Lanes \X Frm!Numbers
      BY <1>1, <1>4 DEF Frm!TypeOK
    <2> QED BY <1>5, <1>6, <2>2, <2>3, <2>4 DEF Frm!TypeOK
  <1>9. Frm!OtherLaneEnded'
    BY <1>1, <1>4, <1>5, OtherLane, FrameBounds DEF Frm!TypeOK, Frm!OtherLaneEnded
  <1>10. Frm!HeldCanBeReset'
    <2> SUFFICES ASSUME NEW id \in held'
                 PROVE  /\ m_frames'[id[1]][id[2]].m_frame_number = id[2]
                        /\ id[2] < m_active_frames'[id[1]]
      BY DEF Frm!HeldCanBeReset
    <2>1. CASE id = <<lane, i>>
      BY <1>1, <1>5, <1>7, <2>1 DEF Frm!TypeOK
    <2>2. CASE id # <<lane, i>>
      <3>1. id \in held /\ id = <<id[1], id[2]>> /\ id[1] \in Frm!Lanes /\ id[2] \in Frm!Numbers
        BY <1>4, <2>2 DEF Frm!TypeOK
      <3>2. m_frames[id[1]][id[2]].m_frame_number = id[2] /\ id[2] < m_active_frames[id[1]]
        BY <3>1 DEF Frm!HeldCanBeReset
      <3>3. /\ m_active_frames'[id[1]] >= m_active_frames[id[1]]
            /\ m_active_frames[id[1]] \in Nat /\ m_active_frames'[id[1]] \in Nat
        BY <1>1, <1>5, <3>1, LaneCounters DEF Frm!TypeOK
      <3>4. id[2] \in Nat
        BY <3>1, FrameBounds
      <3>5. id[2] < m_active_frames'[id[1]]
        BY <3>2, <3>3, <3>4
      <3>6. m_frames'[id[1]][id[2]].m_frame_number = id[2]
        BY <1>7, <2>2, <3>1, <3>2
      <3> QED BY <3>5, <3>6
    <2> QED BY <2>1, <2>2
  <1>11. Frm!BlocksKept'
    BY <1>4, <1>5 DEF Frm!BlocksKept
  <1>12. CreatedIsHeld'
    <2> SUFFICES ASSUME NEW l \in Frm!Lanes, NEW j \in Frm!Numbers,
                        j < m_active_frames'[l], m_frames'[l][j].m_frame_number # -1
                 PROVE  <<l, j>> \in held'
      BY DEF CreatedIsHeld
    <2>1. CASE <<l, j>> = <<lane, i>>
      BY <1>4, <2>1
    <2>2. CASE <<l, j>> # <<lane, i>>
      <3>1. j < m_active_frames[l]
        <4>1. CASE l # lane
          BY <1>1, <1>5, <4>1 DEF Frm!TypeOK
        <4>2. CASE l = lane
          <5>1. j # i /\ j \in Nat
            BY <2>2, <4>2, FrameBounds
          <5>2. m_active_frames'[l] = i + 1
            BY <1>1, <1>5, <4>2 DEF Frm!TypeOK
          <5> QED BY <1>1, <4>2, <5>1, <5>2
        <4> QED BY <4>1, <4>2
      <3> QED BY <1>4, <1>7, <2>2, <3>1 DEF CreatedIsHeld
    <2> QED BY <2>1, <2>2
  <1>13. CurrentInLane'
    BY <1>4, <1>5 DEF CurrentInLane
  <1> QED BY <1>8, <1>9, <1>10, <1>11, <1>12, <1>13

\* A lane whose frames are all reset has no frame that is held, and no block.
LEMMA ResetLaneIsFree ==
  ASSUME FrameInv, NEW lane \in Frm!Lanes, Frm!LaneIsReset(Frm!FramesAfterEnd, lane)
  PROVE  /\ \A id \in held : id[1] # lane
         /\ \A b \in blocks : b.id[1] # lane
  <1>1. ASSUME NEW id \in held PROVE id[1] # lane
    <2>1. id[1] \in Frm!Lanes /\ id[2] \in Frm!Numbers /\ id[2] # -1
      BY FrameBounds DEF FrameInv, Frm!TypeOK
    <2>2. /\ m_frames[id[1]][id[2]].m_frame_number = id[2]
          /\ id[2] < m_active_frames[id[1]]
      BY DEF FrameInv, Frm!HeldCanBeReset
    <2> QED BY <2>1, <2>2, EndFrame DEF FrameInv, Frm!LaneIsReset
  <1> QED BY <1>1 DEF FrameInv, Frm!BlocksKept

LEMMA SwitchInv == FrameInv /\ Frm!v_new_frame_Switches => FrameInv'
  <1> SUFFICES ASSUME FrameInv, Frm!v_new_frame_Switches PROVE FrameInv'
    OBVIOUS
  <1> USE DEF FrameInv
  <1> DEFINE lane == Frm!Other(m_active_lane)
             new  == [Frm!ZeroFrame EXCEPT !.m_frame_number = 0]
             empty == [i \in Frm!Numbers |-> Frm!ZeroFrame]
  <1>1. lane \in Frm!Lanes /\ lane # m_active_lane /\ Frm!Lanes = {lane, m_active_lane}
        /\ <<lane, 0>> # Frm!NoFrame
    BY OtherLane, FrameBounds, NoFrameIsNone DEF Frm!TypeOK
  <1>2. new \in Frm!Frame /\ new.m_frame_number = 0 /\ empty \in [Frm!Numbers -> Frm!Frame]
    BY NewRecord, FrameBounds DEF Frm!ZeroFrame, Frm!Frame
  <1>3. m_frames' = [Frm!FramesAfterEnd EXCEPT ![lane] = [empty EXCEPT ![0] = new]]
    <2>1. m_frames' = [[Frm!FramesAfterEnd EXCEPT ![lane] = empty] EXCEPT ![lane][0] = new]
      BY DEF Frm!v_new_frame_Switches, Frm!StartFrame
    <2> QED BY <1>1, <2>1, EndFrame
  <1>4. m_current_frame' = <<lane, 0>> /\ held' = held \cup {<<lane, 0>>}
    BY DEF Frm!v_new_frame_Switches, Frm!StartFrame
  <1>5. /\ m_active_frames' = [m_active_frames EXCEPT ![lane] = 1]
        /\ m_ended_frames' = [m_active_frames EXCEPT ![lane] = 0]
        /\ m_active_lane' = lane
        /\ frameArena' = [frameArena EXCEPT ![lane] = 0]
        /\ UNCHANGED blocks
    BY EndFrame DEF Frm!v_new_frame_Switches
  <1>6. /\ \A id \in held : id[1] # lane
        /\ \A b \in blocks : b.id[1] # lane
    BY <1>1, ResetLaneIsFree DEF Frm!v_new_frame_Switches
  <1> HIDE DEF new, empty
  <1>7. m_frames' \in [Frm!Lanes -> [Frm!Numbers -> Frm!Frame]]
    BY <1>1, <1>2, <1>3, EndFrame
  <1>8. /\ m_frames'[lane][0].m_frame_number = 0
        /\ \A j \in Frm!Numbers :
             m_frames'[m_active_lane][j].m_frame_number = m_frames[m_active_lane][j].m_frame_number
    BY <1>1, <1>2, <1>3, EndFrame, FrameBounds DEF Frm!TypeOK
  <1>9. Frm!TypeOK'
    BY <1>1, <1>4, <1>5, <1>7, FrameBounds DEF Frm!TypeOK
  <1>10. Frm!OtherLaneEnded'
    <2>1. Frm!Other(lane) = m_active_lane
      BY DEF Frm!Other, Frm!TypeOK, Frm!Lanes
    <2> QED BY <1>1, <1>4, <1>5, <2>1, FrameBounds DEF Frm!TypeOK, Frm!OtherLaneEnded
  <1>11. Frm!HeldCanBeReset'
    <2> SUFFICES ASSUME NEW id \in held'
                 PROVE  /\ m_frames'[id[1]][id[2]].m_frame_number = id[2]
                        /\ id[2] < m_active_frames'[id[1]]
      BY DEF Frm!HeldCanBeReset
    <2>1. CASE id = <<lane, 0>>
      BY <1>1, <1>5, <1>8, <2>1 DEF Frm!TypeOK
    <2>2. CASE id # <<lane, 0>>
      <3>1. id \in held /\ id[1] = m_active_lane /\ id[2] \in Frm!Numbers
        BY <1>1, <1>4, <1>6, <2>2 DEF Frm!TypeOK
      <3>2. m_active_frames'[m_active_lane] = m_active_frames[m_active_lane]
        BY <1>1, <1>5 DEF Frm!TypeOK
      <3> QED BY <1>8, <3>1, <3>2 DEF Frm!HeldCanBeReset
    <2> QED BY <2>1, <2>2
  <1>12. Frm!BlocksKept'
    <2>1. \A b \in blocks : b.id[1] = m_active_lane
      BY <1>1, <1>6 DEF Frm!TypeOK
    <2>2. frameArena'[m_active_lane] = frameArena[m_active_lane]
      BY <1>1, <1>5 DEF Frm!TypeOK
    <2> QED BY <1>4, <1>5, <2>1, <2>2 DEF Frm!BlocksKept
  <1>13. CreatedIsHeld'
    <2> SUFFICES ASSUME NEW l \in Frm!Lanes, NEW j \in Frm!Numbers,
                        j < m_active_frames'[l], m_frames'[l][j].m_frame_number # -1
                 PROVE  <<l, j>> \in held'
      BY DEF CreatedIsHeld
    <2>1. CASE l = lane
      BY <1>1, <1>4, <1>5, <2>1, FrameBounds DEF Frm!TypeOK
    <2>2. CASE l # lane
      <3>1. l = m_active_lane /\ j < m_active_frames[l]
        BY <1>1, <1>5, <2>2 DEF Frm!TypeOK
      <3> QED BY <1>4, <1>8, <3>1 DEF CreatedIsHeld
    <2> QED BY <2>1, <2>2
  <1>14. CurrentInLane'
    BY <1>4, <1>5 DEF CurrentInLane
  <1> QED BY <1>9, <1>10, <1>11, <1>12, <1>13, <1>14

LEMMA NewFrameFailsInv == FrameInv /\ Frm!v_new_frame_Fails => FrameInv'
  <1> SUFFICES ASSUME FrameInv, Frm!v_new_frame_Fails PROVE FrameInv'
    OBVIOUS
  <1> USE DEF FrameInv
  <1>1. /\ m_frames' \in [Frm!Lanes -> [Frm!Numbers -> Frm!Frame]]
        /\ \A l \in Frm!Lanes, i \in Frm!Numbers :
             m_frames'[l][i].m_frame_number = m_frames[l][i].m_frame_number
        /\ m_ended_frames' \in [Frm!Lanes -> 0..MaxActiveFrames]
        /\ m_ended_frames' = m_active_frames
    BY EndFrame DEF Frm!v_new_frame_Fails
  <1>2. Frm!TypeOK'
    BY <1>1 DEF Frm!v_new_frame_Fails, Frm!TypeOK
  <1>3. Frm!OtherLaneEnded'
    BY <1>1, OtherLane, FrameBounds DEF Frm!v_new_frame_Fails, Frm!TypeOK, Frm!OtherLaneEnded
  <1>4. Frm!HeldCanBeReset' /\ CreatedIsHeld' /\ Frm!BlocksKept'
    BY <1>1 DEF Frm!v_new_frame_Fails, Frm!HeldCanBeReset, CreatedIsHeld, Frm!BlocksKept, Frm!TypeOK
  <1>5. CurrentInLane'
    BY DEF Frm!v_new_frame_Fails, CurrentInLane
  <1> QED BY <1>2, <1>3, <1>4, <1>5

-----------------------------------------------------------------------------
(* reset_frame, allocate and deallocate                                    *)

LEMMA ResetFrameInv ==
  ASSUME FrameInv, NEW id \in held, Frm!v_reset_frame(id)
  PROVE  FrameInv'
  <1> USE DEF FrameInv
  <1> DEFINE old == [Frm!ZeroFrame EXCEPT !.m_frame_number = -1]
  <1>1. id \in Frm!Lanes \X Frm!Numbers /\ m_frames[id[1]][id[2]].m_frame_number = id[2]
    BY DEF Frm!TypeOK, Frm!HeldCanBeReset
  <1>2. old \in Frm!Frame /\ old.m_frame_number = -1
    BY DEF Frm!ZeroFrame, Frm!Frame
  <1>3. m_frames' = [m_frames EXCEPT ![id[1]] = [@ EXCEPT ![id[2]] = old]]
    BY <1>1 DEF Frm!v_reset_frame
  <1>4. /\ held' = held \ {id} /\ blocks' = {b \in blocks : b.id # id}
        /\ UNCHANGED <<m_active_frames, m_ended_frames, m_active_lane, m_current_frame, frameArena>>
    BY DEF Frm!v_reset_frame
  <1> HIDE DEF old
  <1>5. m_frames' \in [Frm!Lanes -> [Frm!Numbers -> Frm!Frame]]
    BY <1>1, <1>2, <1>3 DEF Frm!TypeOK
  <1>6. /\ m_frames'[id[1]][id[2]].m_frame_number = -1
        /\ \A l \in Frm!Lanes, j \in Frm!Numbers : <<l, j>> # id =>
             m_frames'[l][j].m_frame_number = m_frames[l][j].m_frame_number
    BY <1>1, <1>2, <1>3 DEF Frm!TypeOK
  <1>7. Frm!TypeOK'
    BY <1>4, <1>5 DEF Frm!TypeOK
  <1>8. Frm!OtherLaneEnded' /\ CurrentInLane'
    BY <1>4 DEF Frm!OtherLaneEnded, CurrentInLane
  <1>9. Frm!HeldCanBeReset'
    <2> SUFFICES ASSUME NEW h \in held'
                 PROVE  /\ m_frames'[h[1]][h[2]].m_frame_number = h[2]
                        /\ h[2] < m_active_frames'[h[1]]
      BY DEF Frm!HeldCanBeReset
    <2>1. h \in held /\ h # id /\ h = <<h[1], h[2]>> /\ h[1] \in Frm!Lanes /\ h[2] \in Frm!Numbers
      BY <1>4 DEF Frm!TypeOK
    <2> QED BY <1>4, <1>6, <2>1 DEF Frm!HeldCanBeReset
  <1>10. Frm!BlocksKept'
    BY <1>4 DEF Frm!BlocksKept
  <1>11. CreatedIsHeld'
    <2> SUFFICES ASSUME NEW l \in Frm!Lanes, NEW j \in Frm!Numbers,
                        j < m_active_frames'[l], m_frames'[l][j].m_frame_number # -1
                 PROVE  <<l, j>> \in held'
      BY DEF CreatedIsHeld
    <2>1. <<l, j>> # id
      BY <1>6
    <2> QED BY <1>4, <1>6, <2>1 DEF CreatedIsHeld
  <1> QED BY <1>7, <1>8, <1>9, <1>10, <1>11

\* Counting an allocation or a deallocation changes no frame's number.
LEMMA CountFrame ==
  ASSUME Frm!TypeOK, m_current_frame # Frm!NoFrame,
         \/ m_frames' = [m_frames EXCEPT
                        ![m_current_frame[1]][m_current_frame[2]].m_num_allocations = @ + 1]
         \/ m_frames' = [m_frames EXCEPT
                        ![m_current_frame[1]][m_current_frame[2]].m_num_deallocations = @ + 1]
  PROVE  /\ m_frames' \in [Frm!Lanes -> [Frm!Numbers -> Frm!Frame]]
         /\ \A l \in Frm!Lanes, i \in Frm!Numbers :
              m_frames'[l][i].m_frame_number = m_frames[l][i].m_frame_number
  <1> DEFINE l == m_current_frame[1]
             i == m_current_frame[2]
             old == m_frames[l][i]
             a == [old EXCEPT !.m_num_allocations = @ + 1]
             d == [old EXCEPT !.m_num_deallocations = @ + 1]
  <1>1. l \in Frm!Lanes /\ i \in Frm!Numbers /\ old \in Frm!Frame
    BY DEF Frm!TypeOK
  <1>2. /\ a \in Frm!Frame /\ a.m_frame_number = old.m_frame_number
        /\ d \in Frm!Frame /\ d.m_frame_number = old.m_frame_number
    BY <1>1 DEF Frm!Frame
  <1>3. PICK new \in {a, d} : m_frames' = [m_frames EXCEPT ![l] = [@ EXCEPT ![i] = new]]
    BY <1>1 DEF Frm!TypeOK
  <1>4. new \in Frm!Frame /\ new.m_frame_number = old.m_frame_number
    BY <1>2, <1>3
  <1> QED BY <1>1, <1>3, <1>4 DEF Frm!TypeOK

\* A step that changes neither the numbers of the frames nor what is held.
LEMMA SameNumbers ==
  ASSUME FrameInv,
         m_frames' \in [Frm!Lanes -> [Frm!Numbers -> Frm!Frame]],
         \A l \in Frm!Lanes, i \in Frm!Numbers :
           m_frames'[l][i].m_frame_number = m_frames[l][i].m_frame_number,
         UNCHANGED <<m_active_frames, m_ended_frames, m_active_lane, m_current_frame, held>>
  PROVE  Frm!OtherLaneEnded' /\ Frm!HeldCanBeReset' /\ CurrentInLane' /\ CreatedIsHeld'
  BY DEF FrameInv, Frm!TypeOK, Frm!OtherLaneEnded, Frm!HeldCanBeReset, CurrentInLane, CreatedIsHeld

LEMMA FrameAllocateInv ==
  ASSUME FrameInv, NEW size \in FrameSizes, Frm!v_allocate(size)
  PROVE  FrameInv'
  <1> USE DEF FrameInv
  <1> DEFINE lane == m_active_lane
             new  == [id |-> m_current_frame, ptr |-> frameArena[lane], len |-> size]
  <1>1. /\ m_current_frame \in Frm!Lanes \X Frm!Numbers /\ m_current_frame[1] = lane /\ lane \in Frm!Lanes
        /\ frameArena[lane] \in Nat /\ size \in Nat /\ frameArena[lane] + size <= FrameArena
    BY FrameAssumption, FrameBounds DEF Frm!v_allocate, Frm!Fits, Frm!TypeOK, CurrentInLane
  <1>2. /\ m_frames' \in [Frm!Lanes -> [Frm!Numbers -> Frm!Frame]]
        /\ \A l \in Frm!Lanes, i \in Frm!Numbers :
             m_frames'[l][i].m_frame_number = m_frames[l][i].m_frame_number
    BY CountFrame DEF Frm!v_allocate, Frm!CountAllocation, FrameInv
  <1>3. /\ UNCHANGED <<m_active_frames, m_ended_frames, m_active_lane, m_current_frame, held>>
        /\ frameArena' = [frameArena EXCEPT ![lane] = frameArena[lane] + size]
        /\ blocks' = IF m_current_frame \in held THEN blocks \cup {new} ELSE blocks
    BY DEF Frm!v_allocate
  <1>4. Frm!OtherLaneEnded' /\ Frm!HeldCanBeReset' /\ CurrentInLane' /\ CreatedIsHeld'
    BY <1>2, <1>3, SameNumbers
  <1>5. frameArena' \in [Frm!Lanes -> 0..FrameArena] /\ \A l \in Frm!Lanes : frameArena'[l] >= frameArena[l]
    BY <1>1, <1>3, FrameBounds DEF Frm!TypeOK
  <1>6. new \in [id : Frm!Lanes \X Frm!Numbers, ptr : Nat, len : FrameSizes]
    BY <1>1
  <1>7. Frm!TypeOK'
    BY <1>2, <1>3, <1>5, <1>6 DEF Frm!TypeOK
  <1>8. Frm!BlocksKept'
    <2>1. \A b \in blocks : /\ b.id[1] \in Frm!Lanes /\ b.ptr \in Nat /\ b.len \in Nat
                            /\ b.id \in held /\ b.ptr + b.len <= frameArena[b.id[1]]
      BY FrameAssumption DEF Frm!TypeOK, Frm!BlocksKept
    <2>2. \A b \in blocks : b.ptr + b.len <= frameArena'[b.id[1]]
      BY <1>5, <2>1, FrameBounds DEF Frm!TypeOK
    <2>3. CASE m_current_frame \notin held
      BY <1>3, <2>1, <2>2, <2>3 DEF Frm!BlocksKept
    <2>4. CASE m_current_frame \in held
      <3>1. blocks' = blocks \cup {new} /\ frameArena'[lane] = frameArena[lane] + size
        BY <1>1, <1>3, <2>4 DEF Frm!TypeOK
      <3>2. new.id \in held /\ new.ptr + new.len <= frameArena'[new.id[1]]
        BY <1>1, <2>4, <3>1
      <3>3. \A b \in blocks : b.id[1] = new.id[1] => b.ptr + b.len <= new.ptr
        BY <1>1, <2>1
      <3> QED BY <1>3, <2>1, <2>2, <3>1, <3>2, <3>3 DEF Frm!BlocksKept
    <2> QED BY <2>3, <2>4
  <1> QED BY <1>4, <1>7, <1>8

LEMMA FrameCountInv ==
  ASSUME FrameInv, Frm!v_deallocate \/ \E size \in FrameSizes : Frm!v_allocate_Fails(size)
  PROVE  FrameInv'
  <1> USE DEF FrameInv
  <1>1. /\ m_frames' \in [Frm!Lanes -> [Frm!Numbers -> Frm!Frame]]
        /\ \A l \in Frm!Lanes, i \in Frm!Numbers :
             m_frames'[l][i].m_frame_number = m_frames[l][i].m_frame_number
    BY CountFrame DEF Frm!v_deallocate, Frm!v_allocate_Fails, Frm!CountAllocation
  <1>2. UNCHANGED <<m_active_frames, m_ended_frames, m_active_lane, m_current_frame, frameArena,
                    held, blocks>>
    BY DEF Frm!v_deallocate, Frm!v_allocate_Fails
  <1>3. Frm!OtherLaneEnded' /\ Frm!HeldCanBeReset' /\ CurrentInLane' /\ CreatedIsHeld'
    BY <1>1, <1>2, SameNumbers
  <1>4. Frm!TypeOK' /\ Frm!BlocksKept'
    BY <1>1, <1>2 DEF Frm!TypeOK, Frm!BlocksKept
  <1> QED BY <1>3, <1>4

LEMMA FrameInductive == FrameInv /\ [Frm!Next]_frameVars => FrameInv'
  <1> SUFFICES ASSUME FrameInv, [Frm!Next]_frameVars PROVE FrameInv'
    OBVIOUS
  <1>1. CASE Frm!reset
    BY <1>1, FrameResetInv
  <1>2. CASE Frm!v_end_frame
    BY <1>2, EndFrameInv
  <1>3. CASE Frm!v_new_frame
    BY <1>3, NewFrameInv
  <1>4. CASE Frm!v_new_frame_Switches
    BY <1>4, SwitchInv
  <1>5. CASE Frm!v_new_frame_Fails
    BY <1>5, NewFrameFailsInv
  <1>6. CASE \E id \in held : Frm!v_reset_frame(id)
    BY <1>6, ResetFrameInv
  <1>7. CASE \E size \in FrameSizes : Frm!v_allocate(size)
    BY <1>7, FrameAllocateInv
  <1>8. CASE Frm!v_deallocate \/ \E size \in FrameSizes : Frm!v_allocate_Fails(size)
    BY <1>8, FrameCountInv
  <1>9. CASE UNCHANGED frameVars
    BY <1>9 DEF frameVars, FrameInv, Frm!TypeOK, Frm!OtherLaneEnded, Frm!HeldCanBeReset, Frm!BlocksKept,
                CurrentInLane, CreatedIsHeld
  <1> QED BY <1>1, <1>2, <1>3, <1>4, <1>5, <1>6, <1>7, <1>8, <1>9 DEF Frm!Next

LEMMA InvariantOfFrame == MCSpec => []FrameInv /\ [][Frm!Next]_frameVars
  <1>1. MCInit => FrameInv
    BY FrameInitInv DEF MCInit
  <1>2. [MCNext]_allVars => [Frm!Next]_frameVars
    BY DEF MCNext, allVars, NextOfStack, NextOfLinear, NextOfForward, NextOfFrame
  <1>3. FrameInv /\ [Frm!Next]_frameVars => FrameInv'
    BY FrameInductive
  <1> QED BY <1>1, <1>2, <1>3, PTL DEF MCSpec

-----------------------------------------------------------------------------
(* The properties                                                          *)

\* The counters of the lanes stay in range and tell how many frames are still
\* to end, so that the assertion of v_new_frame never fires.
THEOREM FrameLanesAccounted == MCSpec => []LanesAccounted
  <1>1. FrameInv => LanesAccounted
    BY DEF FrameInv, LanesAccounted, Frm!LanesAccounted
  <1> QED BY <1>1, InvariantOfFrame, PTL

\* A frame id the client holds is always one that reset_frame accepts.
THEOREM FrameHeldCanBeReset == MCSpec => []Frm!HeldCanBeReset
  <1>1. FrameInv => Frm!HeldCanBeReset
    BY DEF FrameInv
  <1> QED BY <1>1, InvariantOfFrame, PTL

\* No memory of a frame that is held is handed out again, however often
\* new_frame switches between the lanes.
THEOREM FrameBlocksKept == MCSpec => []BlocksKept
  <1>1. FrameInv => BlocksKept
    BY DEF FrameInv, BlocksKept
  <1> QED BY <1>1, InvariantOfFrame, PTL

\* new_frame returns -1 only while the client holds a frame of the other lane.
THEOREM FrameFailsOnlyIfHeld == MCSpec => FailsOnlyIfHeld
  <1> DEFINE A == ret' = "no_frame" => \E id \in held : id[1] = Frm!Other(m_active_lane)
  <1>1. FrameInv /\ [Frm!Next]_frameVars => [A]_frameVars
    <2> SUFFICES ASSUME FrameInv, Frm!Next, ret' = "no_frame"
                 PROVE  \E id \in held : id[1] = Frm!Other(m_active_lane)
      OBVIOUS
    <2>1. Frm!v_new_frame_Fails
      BY DEF Frm!Next, Frm!reset, Frm!v_end_frame, Frm!v_new_frame, Frm!v_new_frame_Switches,
             Frm!StartFrame, Frm!v_reset_frame, Frm!v_allocate, Frm!v_allocate_Fails,
             Frm!v_deallocate
    <2>2. Frm!Other(m_active_lane) \in Frm!Lanes
      BY OtherLane DEF FrameInv, Frm!TypeOK
    <2>3. PICK i \in Frm!Numbers :
                 /\ i < m_active_frames[Frm!Other(m_active_lane)]
                 /\ m_frames[Frm!Other(m_active_lane)][i].m_frame_number # -1
      BY <2>1, <2>2, EndFrame DEF Frm!v_new_frame_Fails, Frm!LaneIsReset, FrameInv
    <2>4. <<Frm!Other(m_active_lane), i>> \in held
      BY <2>2, <2>3 DEF FrameInv, CreatedIsHeld
    <2> QED BY <2>4
  <1>2. [A]_frameVars => [A]_Frm!vars
    BY DEF frameVars, Frm!vars
  <1> QED BY <1>1, <1>2, InvariantOfFrame, PTL DEF FailsOnlyIfHeld, Frm!FailsOnlyIfHeld

-----------------------------------------------------------------------------
(* The refinement                                                          *)

\* A block as a region: the arena of lane 1 lies behind that of lane 0.
RegionOfFrame(b) == [ptr |-> b.id[1] * FrameArena + b.ptr, len |-> b.len]

LEMMA FrameAllocateRefines ==
  ASSUME FrameInv, NEW size \in FrameSizes, Frm!v_allocate(size)
  PROVE  Frm!Regions!Next
  <1> DEFINE lane == m_active_lane
             new  == [id |-> m_current_frame, ptr |-> frameArena[lane], len |-> size]
             r    == RegionOfFrame(new)
             old  == {RegionOfFrame(b) : b \in blocks}
  <1>1. /\ m_current_frame[1] = lane /\ lane \in {0, 1} /\ FrameArena \in Nat
        /\ frameArena[lane] \in Nat /\ size \in Nat /\ frameArena[lane] + size <= FrameArena
    BY FrameAssumption, FrameBounds DEF Frm!v_allocate, Frm!Fits, FrameInv, Frm!TypeOK, CurrentInLane, Frm!Lanes
  <1>2. blocks' = IF m_current_frame \in held THEN blocks \cup {new} ELSE blocks
    BY DEF Frm!v_allocate
  <1>3. CASE m_current_frame \notin held
    BY <1>2, <1>3 DEF Frm!Regions!Next, Frm!Regions!Release
  <1>4. CASE m_current_frame \in held
    <2>1. {RegionOfFrame(b) : b \in blocks'} = old \cup {r}
      BY <1>2, <1>4
    <2>2. /\ r.ptr = lane * FrameArena + frameArena[lane] /\ r.len = size
          /\ r.ptr \in 0..2*FrameArena /\ r.len \in 0..2*FrameArena
          /\ r.ptr + r.len <= 2*FrameArena
      <3>1. CASE lane = 0
        BY <1>1, <3>1 DEF RegionOfFrame
      <3>2. CASE lane = 1
        BY <1>1, <3>2 DEF RegionOfFrame
      <3> QED BY <1>1, <3>1, <3>2
    <2>3. ASSUME NEW b \in blocks
          PROVE  Frm!Regions!Apart(r, RegionOfFrame(b))
      <3> DEFINE l == b.id[1]
      <3>1. /\ l \in {0, 1} /\ b.ptr \in Nat /\ b.len \in Nat
            /\ b.ptr + b.len <= frameArena[l] /\ frameArena[l] \in Nat /\ frameArena[l] <= FrameArena
        <4>1. /\ l \in Frm!Lanes /\ b.ptr \in Nat /\ b.len \in Nat
              /\ b.ptr + b.len <= frameArena[l]
          BY FrameAssumption DEF FrameInv, Frm!TypeOK, Frm!BlocksKept
        <4> QED BY <4>1, LaneCounters DEF FrameInv, Frm!Lanes
      <3>2. RegionOfFrame(b).ptr = l * FrameArena + b.ptr /\ RegionOfFrame(b).len = b.len
        BY DEF RegionOfFrame
      <3> HIDE DEF r, l
      <3>3. CASE lane = 0 /\ l = 0
        BY <1>1, <2>2, <3>1, <3>2, <3>3 DEF Frm!Regions!Apart
      <3>4. CASE lane = 0 /\ l = 1
        BY <1>1, <2>2, <3>1, <3>2, <3>4 DEF Frm!Regions!Apart
      <3>5. CASE lane = 1 /\ l = 0
        BY <1>1, <2>2, <3>1, <3>2, <3>5 DEF Frm!Regions!Apart
      <3>6. CASE lane = 1 /\ l = 1
        BY <1>1, <2>2, <3>1, <3>2, <3>6 DEF Frm!Regions!Apart
      <3> QED BY <1>1, <3>1, <3>3, <3>4, <3>5, <3>6
    <2>4. r \in Frm!Regions!Region /\ Frm!Regions!InRange(r)
      BY <2>2 DEF Frm!Regions!Region, Frm!Regions!InRange, RegionOfFrame
    <2>5. Frm!Regions!Allocate
      BY <2>1, <2>3, <2>4 DEF Frm!Regions!Allocate, RegionOfFrame
    <2> QED BY <2>5 DEF Frm!Regions!Next
  <1> QED BY <1>3, <1>4

LEMMA FrameNextRefines == FrameInv /\ [Frm!Next]_frameVars =>
  [Frm!Regions!Next]_{[ptr |-> b.id[1] * FrameArena + b.ptr, len |-> b.len] : b \in blocks}
  <1> SUFFICES ASSUME FrameInv, Frm!Next \/ blocks' = blocks
               PROVE  Frm!Regions!Next \/ blocks' = blocks
    BY DEF frameVars
  <1>1. CASE \E size \in FrameSizes : Frm!v_allocate(size)
    BY <1>1, FrameAllocateRefines
  <1>2. CASE ~\E size \in FrameSizes : Frm!v_allocate(size)
    <2>1. blocks' \subseteq blocks
      BY <1>2 DEF Frm!Next, Frm!reset, Frm!v_end_frame, Frm!v_new_frame,
                  Frm!v_new_frame_Switches, Frm!v_new_frame_Fails, Frm!v_reset_frame,
                  Frm!v_allocate_Fails, Frm!v_deallocate
    <2> QED BY <2>1 DEF Frm!Regions!Next, Frm!Regions!Release
  <1> QED BY <1>1, <1>2

\* For its client the frame allocator is a region allocator over both arenas.
THEOREM FrameRegionsImplemented == MCSpec => FrameImplementsRegions
  <1>1. MCInit => Frm!Regions!Init
    BY DEF MCInit, Frm!Init, Frm!Regions!Init
  <1>2. FrameInv /\ [Frm!Next]_frameVars =>
          [Frm!Regions!Next]_{[ptr |-> b.id[1] * FrameArena + b.ptr, len |-> b.len] : b \in blocks}
    BY FrameNextRefines
  <1>3. MCSpec => MCInit
    BY DEF MCSpec
  <1> QED BY <1>1, <1>2, <1>3, InvariantOfFrame, PTL
          DEF FrameImplementsRegions, Frm!ImplementsRegions, Frm!Regions!Spec

=============================================================================
