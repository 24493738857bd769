---------------------------- MODULE SegwardProofs ----------------------------
(***************************************************************************)
(* Proofs about Segward, for any number and size of segments: counters,    *)
(* reuse and committed memory are right as long as a header page and a     *)
(* block fit into a segment (LargeSegments) and the arena ends below 4 GB  *)
(* (BelowU32); TLC shows what happens otherwise.                           *)
(***************************************************************************)
EXTENDS Segward, Arithmetic, FiniteSetTheorems, TLAPS

LargeSegments == PageSize + MaxRequest <= SegmentSize
BelowU32 == NumSegments * SegmentSize < U32

-----------------------------------------------------------------------------
(* Segments                                                                *)

LEMMA Constants ==
  /\ SegmentSize \in Nat \ {0} /\ PageSize \in Nat \ {0}
  /\ NumSegments \in Nat \ {0} /\ MinSegments \in Nat \ {0} /\ MinSegments <= NumSegments
  /\ MaxRequest \in Nat \ {0} /\ CounterMax \in Nat \ {0} /\ SegmentSize <= CounterMax
  /\ U32 \in Nat \ {0} /\ 0 \in Segments
  BY SegwardAssumption DEF Segments

LEMMA SegmentBounds ==
  ASSUME NEW i \in Segments
  PROVE  /\ i \in Nat /\ i * SegmentSize \in Nat /\ EndOf(i) \in Nat
         /\ EndOf(i) = i * SegmentSize + SegmentSize
         /\ EndOf(i) <= NumSegments * SegmentSize
         /\ NumSegments * SegmentSize \in Nat
  <1>1. i \in Nat /\ i + 1 <= NumSegments
    BY Constants DEF Segments
  <1>2. (i + 1) * SegmentSize <= NumSegments * SegmentSize
    BY <1>1, Constants, SMT
  <1>3. (i + 1) * SegmentSize = i * SegmentSize + SegmentSize
    BY <1>1, Constants, SMT
  <1>4. i * SegmentSize \in Nat /\ NumSegments * SegmentSize \in Nat
    BY <1>1, Constants, SMT
  <1> QED BY <1>1, <1>2, <1>3, <1>4, Constants DEF EndOf

LEMMA SegmentsInOrder ==
  ASSUME NEW i \in Segments, NEW j \in Segments, i < j
  PROVE  EndOf(i) <= j * SegmentSize
  <1>1. i \in Nat /\ j \in Nat /\ i + 1 <= j
    BY SegmentBounds
  <1>2. (i + 1) * SegmentSize <= j * SegmentSize
    BY <1>1, Constants, SMT
  <1> QED BY <1>2 DEF EndOf

\* The addresses of a segment are those deallocate takes for it.
LEMMA SegmentOfIs ==
  ASSUME NEW i \in Segments, NEW p \in Nat, i * SegmentSize <= p, p < EndOf(i)
  PROVE  SegmentOf(p) = i
  <1>1. SegmentSize * i = i * SegmentSize
    BY SegmentBounds, Constants, SMT
  <1>2. SegmentSize * i <= p /\ p < SegmentSize * i + SegmentSize
    BY <1>1, SegmentBounds
  <1>3. i \in Nat /\ SegmentSize \in Nat \ {0}
    BY SegmentBounds, Constants
  <1> QED BY <1>2, <1>3, DivUnique DEF SegmentOf

\* An address is in one segment only.
LEMMA OneSegment ==
  ASSUME NEW i \in Segments, NEW j \in Segments, NEW p \in Nat,
         i * SegmentSize <= p, p < EndOf(i), j * SegmentSize <= p, p < EndOf(j)
  PROVE  i = j
  BY SegmentOfIs

\* Alignment moves an address up, and a start of a segment not at all.
LEMMA AlignUpIs ==
  ASSUME NEW a \in Alignments, NEW x \in Nat
  PROVE  /\ a \in Nat \ {0} /\ AlignUp(x, a) \in Nat /\ x <= AlignUp(x, a)
         /\ x % a = 0 => AlignUp(x, a) = x
  <1>1. a \in Nat \ {0}
    BY SegwardAssumption
  <1> QED BY <1>1, RoundUp DEF AlignUp

LEMMA StartIsAligned ==
  ASSUME NEW a \in Alignments, NEW i \in Segments
  PROVE  /\ StartOf(i) \in Nat
         /\ AlignUp(StartOf(i), a) = StartOf(i)
  <1>1. a \in Nat \ {0} /\ SegmentSize % a = 0 /\ PageSize % a = 0
    BY SegwardAssumption
  <1>2. CASE i = 0
    <2>1. StartOf(i) = PageSize /\ PageSize \in Nat
      BY <1>2, Constants DEF StartOf
    <2> QED BY <1>1, <2>1, AlignUpIs
  <1>3. CASE i # 0
    <2>1. PICK k \in Nat : SegmentSize = k * a
      BY <1>1, Multiple, Constants
    <2>2. i * SegmentSize = (i * k) * a /\ i * k \in Nat
      <3>1. i \in Nat /\ a \in Nat
        BY <1>1, SegmentBounds
      <3>2. i * (k * a) = (i * k) * a /\ i * k \in Nat
        BY <3>1, ProductAssociates
      <3> QED BY <2>1, <3>2, Zenon
    <2>3. ((i * k) * a) % a = 0
      BY <1>1, <2>2, MultipleHasNoRest
    <2>4. (i * SegmentSize) % a = 0
      BY <2>2, <2>3
    <2>5. StartOf(i) = i * SegmentSize /\ i * SegmentSize \in Nat
      BY <1>3, SegmentBounds DEF StartOf
    <2> QED BY <2>4, <2>5, AlignUpIs
  <1> QED BY <1>2, <1>3

-----------------------------------------------------------------------------
(* The inductive invariant                                                 *)

\* Blocks do not overlap.
BlocksApart ==
  \A r, s \in live : r # s => r.ptr + r.len <= s.ptr \/ s.ptr + s.len <= r.ptr

\* The cursor is in the current segment, behind all of its blocks.
CursorAhead ==
  /\ m_segment * SegmentSize <= m_segment_alloc_cursor
  /\ \A r \in LiveIn(m_segment) : r.ptr + r.len <= m_segment_alloc_cursor

\* The current segment is not one that is marked as uncommitted.
CurrentInUse == created => m_segment_counters[m_segment] >= 0

NothingBefore == ~created => live = {} /\ ret = "none"

IInv ==
  /\ TypeOK
  /\ IsFiniteSet(live)
  /\ CountersMatch
  /\ FitsSegment
  /\ BlocksApart
  /\ CursorAhead
  /\ CurrentInUse
  /\ NothingBefore

LEMMA LiveTyped ==
  ASSUME TypeOK, NEW r \in live
  PROVE  /\ r.ptr \in Nat /\ r.len \in Nat \ {0} /\ r.len <= MaxRequest
         /\ r = [ptr |-> r.ptr, len |-> r.len]
  BY Constants DEF TypeOK

\* A live block is in the segment that its first address is in.
LEMMA LiveInItsSegment ==
  ASSUME TypeOK, FitsSegment, NEW i \in Segments, NEW r \in LiveIn(i)
  PROVE  r \in live /\ i * SegmentSize <= r.ptr /\ r.ptr + r.len <= EndOf(i)
  <1>1. r \in live /\ i * SegmentSize <= r.ptr /\ r.ptr < EndOf(i)
    BY DEF LiveIn
  <1>2. PICK j \in Segments : j * SegmentSize <= r.ptr /\ r.ptr + r.len <= EndOf(j)
    BY <1>1 DEF FitsSegment
  <1>3. r.ptr \in Nat /\ r.len \in Nat \ {0}
    BY <1>1, LiveTyped
  <1>4. r.ptr < EndOf(j)
    BY <1>2, <1>3, SegmentBounds
  <1>5. i = j
    BY <1>1, <1>2, <1>3, <1>4, OneSegment
  <1> QED BY <1>1, <1>2, <1>5

LEMMA LiveInFinite ==
  ASSUME IsFiniteSet(live), NEW i
  PROVE  IsFiniteSet(LiveIn(i)) /\ Cardinality(LiveIn(i)) \in Nat
  <1>1. LiveIn(i) \in SUBSET live
    BY DEF LiveIn
  <1> QED BY <1>1, FS_Subset, FS_CardinalityType

\* Blocks that do not overlap in one segment are at most as many as its units.
LEMMA FewBlocks ==
  ASSUME NEW i \in Segments, NEW B,
         \A r \in B : /\ r.ptr \in Nat /\ r.len \in Nat \ {0}
                      /\ i * SegmentSize <= r.ptr /\ r.ptr + r.len <= EndOf(i),
         \A r, s \in B : r # s => r.ptr + r.len <= s.ptr \/ s.ptr + s.len <= r.ptr
  PROVE  Cardinality(B) <= CounterMax
  <1> DEFINE lo == i * SegmentSize
             T  == lo..lo + SegmentSize - 1
             f  == [r \in B |-> r.ptr]
  <1>1. lo \in Nat /\ EndOf(i) = lo + SegmentSize
    BY SegmentBounds
  <1>2. \A r \in B : r.ptr \in T
    <2> HIDE DEF lo
    <2> QED BY <1>1, Constants DEF lo
  <1>3. \A r, s \in B : r.ptr = s.ptr => r = s
    OBVIOUS
  <1>4. f \in Injection(B, T)
    BY <1>2, <1>3 DEF Injection, IsInjective
  <1>5. IsFiniteSet(T) /\ Cardinality(T) = SegmentSize
    <2> HIDE DEF lo
    <2> QED BY <1>1, Constants, FS_Interval DEF T
  <1> HIDE DEF T, f
  <1>6. IsFiniteSet(B) /\ Cardinality(B) <= SegmentSize
    BY <1>4, <1>5, FS_Injection
  <1> QED BY <1>6, Constants, FS_CardinalityType

LEMMA InitIInv == Init => IInv
  <1> SUFFICES ASSUME Init PROVE IInv
    OBVIOUS
  <1>1. /\ created = FALSE /\ m_segment = 0 /\ m_segment_alloc_cursor = 0
        /\ live = {} /\ ret = "none"
    BY DEF Init
  <1>2. 0 * SegmentSize = 0 /\ EndOf(0) = SegmentSize /\ NumSegments * SegmentSize \in Nat
    BY Constants, SegmentBounds DEF EndOf
  <1>3. TypeOK
    <2>1. m_segment_counters \in [Segments -> -1..CounterMax]
      BY Constants DEF Init
    <2>2. m_segment_alloc_cursor \in 0..NumSegments * SegmentSize
      <3> DEFINE top == NumSegments * SegmentSize
      <3> HIDE DEF top
      <3>1. top \in Nat => m_segment_alloc_cursor \in 0..top
        BY <1>1
      <3> QED BY <1>2, <3>1 DEF top
    <2> QED BY <1>1, <2>1, <2>2, Constants DEF Init, TypeOK
  <1>4. IsFiniteSet(live) /\ \A i \in Segments : LiveIn(i) = {}
    BY <1>1, FS_EmptySet DEF LiveIn
  <1>5. CursorAhead /\ FitsSegment
    BY <1>1, <1>2, <1>4, Constants DEF CursorAhead, FitsSegment
  <1> QED BY <1>1, <1>3, <1>4, <1>5 DEF IInv, CountersMatch, BlocksApart, CurrentInUse, NothingBefore

-----------------------------------------------------------------------------
(* A block is handed out                                                   *)

\* A count that fits is not changed by i16 arithmetic.
LEMMA AsI16Is ==
  ASSUME NEW n \in Nat, n <= CounterMax
  PROVE  AsI16(n) = n
  <1> DEFINE m == 2 * (CounterMax + 1)
             x == n + CounterMax + 1
  <1>1. m \in Nat \ {0} /\ x \in 0..m-1
    BY Constants
  <1>2. x % m = x
    <2> HIDE DEF m, x
    <2> QED BY <1>1, ModSmall
  <1>3. AsI16(n) = x - (CounterMax + 1)
    BY <1>2 DEF AsI16
  <1> QED BY <1>3, Constants

\* What both successful ways through allocate do: segment i is or becomes the
\* current one, a block is put behind the blocks it has, and its counter, which
\* was their number, goes up.
LEMMA BlockAdded ==
  ASSUME IInv, created,
         NEW i \in Segments, NEW p \in Nat, NEW size \in 1..MaxRequest,
         i * SegmentSize <= p, p + size <= EndOf(i),
         \A r \in LiveIn(i) : r.ptr + r.len <= p,
         m_segment_counters' =
           [m_segment_counters EXCEPT ![i] = AsI16(Cardinality(LiveIn(i)) + 1)],
         created' = created, m_segment' = i, m_segment_alloc_cursor' = p + size,
         live' = live \cup {[ptr |-> p, len |-> size]},
         committed' \in Nat, ret' = "ok"
  PROVE  IInv'
  <1> DEFINE new == [ptr |-> p, len |-> size]
             n   == Cardinality(LiveIn(i)) + 1
  <1>1. /\ TypeOK /\ IsFiniteSet(live) /\ CountersMatch /\ FitsSegment /\ BlocksApart
    BY DEF IInv
  <1>2. new.ptr = p /\ new.len = size /\ size \in Nat \ {0} /\ p < EndOf(i)
    <2>1. size \in Nat \ {0} /\ EndOf(i) \in Nat
      BY Constants, SegmentBounds
    <2>2. p < EndOf(i)
      BY <2>1
    <2> QED BY <2>1, <2>2
  <1>3. LiveIn(i)' = LiveIn(i) \cup {new}
    BY <1>2 DEF LiveIn
  <1>4. ASSUME NEW j \in Segments, j # i
        PROVE  LiveIn(j)' = LiveIn(j)
    <2>1. ~(j * SegmentSize <= p /\ p < EndOf(j))
      BY <1>2, <1>4, OneSegment
    <2> QED BY <1>2, <2>1 DEF LiveIn
  <1>5. new \notin LiveIn(i)
    <2>1. ASSUME new \in LiveIn(i) PROVE FALSE
      <3>1. new.ptr + new.len <= p
        BY <2>1
      <3> QED BY <1>2, <3>1
    <2> QED BY <2>1
  <1> HIDE DEF new
  \* The new block is apart from every other one.
  <1>6. ASSUME NEW r \in live
        PROVE  r.ptr + r.len <= p \/ p + size <= r.ptr
    <2>1. r.ptr \in Nat /\ r.len \in Nat \ {0}
      BY <1>1, LiveTyped
    <2>2. PICK j \in Segments : j * SegmentSize <= r.ptr /\ r.ptr + r.len <= EndOf(j)
      BY <1>1 DEF FitsSegment
    <2>3. CASE j = i
      <3>1. r.ptr < EndOf(i)
        BY <2>1, <2>2, <2>3, SegmentBounds
      <3>2. r \in LiveIn(i)
        BY <2>2, <2>3, <3>1 DEF LiveIn
      <3> QED BY <3>2
    <2>4. CASE j < i
      <3>1. EndOf(j) <= i * SegmentSize
        BY <2>4, SegmentsInOrder
      <3> QED BY <2>1, <2>2, <3>1, SegmentBounds
    <2>5. CASE i < j
      <3>1. EndOf(i) <= j * SegmentSize
        BY <2>5, SegmentsInOrder
      <3> QED BY <1>2, <2>1, <2>2, <3>1, SegmentBounds
    <2>6. i \in Nat /\ j \in Nat
      BY SegmentBounds
    <2> QED BY <2>3, <2>4, <2>5, <2>6
  <1>7. BlocksApart'
    BY <1>1, <1>2, <1>6 DEF BlocksApart, new
  <1>8. IsFiniteSet(live)'
    BY <1>1, FS_AddElement
  <1>9. FitsSegment'
    <2>1. \A r \in live' : \E j \in Segments : j * SegmentSize <= r.ptr /\ r.ptr + r.len <= EndOf(j)
      BY <1>1, <1>2 DEF FitsSegment, new
    <2> QED BY <2>1 DEF FitsSegment, EndOf
  <1>10. Cardinality(LiveIn(i) \cup {new}) = n /\ n \in Nat
    <2>1. IsFiniteSet(LiveIn(i)) /\ Cardinality(LiveIn(i)) \in Nat
      BY <1>1, LiveInFinite
    <2>2. Cardinality(LiveIn(i) \cup {new})
            = IF new \in LiveIn(i) THEN Cardinality(LiveIn(i)) ELSE Cardinality(LiveIn(i)) + 1
      BY <2>1, FS_AddElement
    <2> QED BY <1>5, <2>1, <2>2
  <1>11. n <= CounterMax
    <2> DEFINE B == LiveIn(i) \cup {new}
    <2>1. \A r \in B : /\ r.ptr \in Nat /\ r.len \in Nat \ {0}
                       /\ i * SegmentSize <= r.ptr /\ r.ptr + r.len <= EndOf(i)
      BY <1>1, <1>2, LiveInItsSegment, LiveTyped
    <2>2. B \subseteq live'
      BY DEF LiveIn, new
    <2>3. \A r, s \in B : r # s => r.ptr + r.len <= s.ptr \/ s.ptr + s.len <= r.ptr
      BY <1>7, <2>2 DEF BlocksApart
    <2> HIDE DEF B
    <2>4. Cardinality(B) <= CounterMax
      BY <2>1, <2>3, FewBlocks
    <2> QED BY <1>10, <2>4 DEF B
  <1>12. m_segment_counters' = [m_segment_counters EXCEPT ![i] = n]
    BY <1>10, <1>11, AsI16Is
  <1> HIDE DEF n
  <1>13. \A j \in Segments : m_segment_counters'[j] = IF j = i THEN n ELSE m_segment_counters[j]
    BY <1>1, <1>12 DEF TypeOK
  <1>14. CountersMatch'
    <2>1. ASSUME NEW j \in Segments
          PROVE  \/ m_segment_counters'[j] = -1 /\ LiveIn(j)' = {}
                 \/ m_segment_counters'[j] = Cardinality(LiveIn(j)')
      <3>1. CASE j = i
        BY <1>3, <1>10, <1>13, <3>1 DEF n
      <3>2. CASE j # i
        BY <1>1, <1>4, <1>13, <3>2 DEF CountersMatch
      <3> QED BY <3>1, <3>2
    <2> QED BY <2>1 DEF CountersMatch
  <1>15. CursorAhead'
    <2>1. i * SegmentSize <= p + size
      BY <1>2, SegmentBounds
    <2>2. \A r \in LiveIn(i) \cup {new} : r.ptr + r.len <= p + size
      <3>1. ASSUME NEW r \in LiveIn(i)
            PROVE  r.ptr + r.len <= p + size
        <4>1. r.ptr \in Nat /\ r.len \in Nat /\ r.ptr + r.len <= p
          BY <1>1, LiveTyped DEF LiveIn
        <4> QED BY <1>2, <4>1
      <3>2. new.ptr + new.len <= p + size
        BY <1>2
      <3> QED BY <3>1, <3>2
    <2> QED BY <1>3, <2>1, <2>2 DEF CursorAhead
  <1>16. TypeOK'
    <2>1. m_segment_counters' \in [Segments -> -1..CounterMax]
      BY <1>1, <1>10, <1>11, <1>12 DEF TypeOK, n
    <2>2. m_segment_alloc_cursor' \in 0..NumSegments * SegmentSize
      <3> DEFINE top == NumSegments * SegmentSize
      <3>1. p + size <= EndOf(i) /\ EndOf(i) <= top /\ EndOf(i) \in Nat /\ top \in Nat
        BY SegmentBounds
      <3> HIDE DEF top
      <3> QED BY <1>2, <3>1 DEF top
    <2>3. live' \subseteq [ptr : Nat, len : 1..MaxRequest]
      BY <1>1 DEF TypeOK
    <2> QED BY <1>1, <2>1, <2>2, <2>3 DEF TypeOK
  <1>17. CurrentInUse' /\ NothingBefore'
    BY <1>10, <1>13 DEF CurrentInUse, NothingBefore, n
  <1> QED BY <1>7, <1>8, <1>9, <1>14, <1>15, <1>16, <1>17 DEF IInv

LEMMA AllocateInCurrentIInv ==
  ASSUME IInv, NEW size \in 1..MaxRequest, NEW align \in Alignments,
         AllocateInCurrent(size, align)
  PROVE  IInv'
  <1> DEFINE i == m_segment
             p == AlignUp(m_segment_alloc_cursor, align)
  <1>1. TypeOK /\ CursorAhead /\ CountersMatch /\ CurrentInUse
    BY DEF IInv
  <1>2. created /\ i \in Segments /\ m_segment_alloc_cursor \in Nat
    <2>1. NumSegments * SegmentSize \in Nat
      BY Constants, SegmentBounds
    <2> QED BY <1>1, <2>1 DEF AllocateInCurrent, TypeOK
  <1>3. p \in Nat /\ m_segment_alloc_cursor <= p
    BY <1>2, AlignUpIs
  <1>4. i * SegmentSize <= p /\ \A r \in LiveIn(i) : r.ptr + r.len <= p
    <2>1. i * SegmentSize <= p
      BY <1>1, <1>2, <1>3, SegmentBounds DEF CursorAhead
    <2>2. ASSUME NEW r \in LiveIn(i)
          PROVE  r.ptr + r.len <= p
      <3>1. r.ptr \in Nat /\ r.len \in Nat
        BY <1>1, LiveTyped DEF LiveIn
      <3> QED BY <1>1, <1>2, <1>3, <3>1 DEF CursorAhead
    <2> QED BY <2>1, <2>2
  <1>5. p + size <= EndOf(i)
    BY DEF AllocateInCurrent, FitsCurrent
  <1>6. m_segment_counters[i] = Cardinality(LiveIn(i))
    BY <1>1, <1>2 DEF CountersMatch, CurrentInUse
  <1>7. /\ m_segment_counters' =
             [m_segment_counters EXCEPT ![i] = AsI16(Cardinality(LiveIn(i)) + 1)]
        /\ created' = created /\ m_segment' = i /\ m_segment_alloc_cursor' = p + size
        /\ live' = live \cup {[ptr |-> p, len |-> size]}
        /\ committed' \in Nat /\ ret' = "ok"
    BY <1>1, <1>6 DEF AllocateInCurrent, TypeOK
  <1> HIDE DEF i, p
  <1> QED BY <1>2, <1>3, <1>4, <1>5, <1>7, BlockAdded

\* The search stops at a segment without a live block.
LEMMA ReusableIsEmpty ==
  ASSUME IInv, created, Reusable # {}
  PROVE  LeastOf(Reusable) \in Segments /\ LiveIn(LeastOf(Reusable)) = {}
  <1> DEFINE i == LeastOf(Reusable)
  <1>1. Reusable \in SUBSET Nat
    BY DEF Reusable, Segments
  <1>2. i \in Reusable
    BY <1>1, LeastExists DEF LeastOf
  <1> HIDE DEF i
  <1>3. i \in Segments /\ m_segment_counters[i] <= 0
    BY <1>2 DEF Reusable
  <1>4. IsFiniteSet(LiveIn(i)) /\ Cardinality(LiveIn(i)) \in Nat
    BY LiveInFinite DEF IInv
  <1>5. LiveIn(i) = {} \/ Cardinality(LiveIn(i)) = 0
    BY <1>3, <1>4 DEF IInv, CountersMatch
  <1> QED BY <1>3, <1>4, <1>5, FS_EmptySet DEF i

LEMMA AllocateInNextIInv ==
  ASSUME LargeSegments, IInv, NEW size \in 1..MaxRequest, NEW align \in Alignments,
         AllocateInNext(size, align)
  PROVE  IInv'
  <1> DEFINE i == LeastOf(Reusable)
             p == AlignUp(StartOf(i), align)
  <1>1. TypeOK
    BY DEF IInv
  <1>2. created /\ i \in Segments /\ LiveIn(i) = {}
    BY ReusableIsEmpty DEF AllocateInNext
  <1>3. p = StartOf(i) /\ p \in Nat
    BY <1>2, StartIsAligned
  <1>4. i * SegmentSize <= p /\ p + size <= EndOf(i)
    <2>1. size \in Nat /\ size <= MaxRequest /\ MaxRequest <= SegmentSize
      BY Constants, SegwardAssumption
    <2>2. CASE i = 0
      <3>1. p = PageSize /\ 0 * SegmentSize = 0 /\ EndOf(0) = SegmentSize
        BY <1>3, <2>2, Constants DEF StartOf, EndOf
      <3> HIDE DEF i, p
      <3> QED BY <2>1, <2>2, <3>1, Constants DEF LargeSegments
    <2>3. CASE i # 0
      <3>1. p = i * SegmentSize
        BY <1>3, <2>3 DEF StartOf
      <3> HIDE DEF i, p
      <3>2. i * SegmentSize \in Nat /\ EndOf(i) = i * SegmentSize + SegmentSize
        BY <1>2, SegmentBounds
      <3> QED BY <2>1, <3>1, <3>2, Constants
    <2> QED BY <2>2, <2>3
  <1>5. AsI16(Cardinality(LiveIn(i)) + 1) = 1
    BY <1>2, FS_EmptySet, AsI16Is, Constants
  <1>6. committed' \in Nat
    <2>1. CommittedSize(i) \in Nat
      <3> HIDE DEF i
      <3>1. EndOf(i) \in Nat /\ U32 \in Nat \ {0} /\ PageSize \in Nat
        BY <1>2, SegmentBounds, Constants
      <3>2. EndOf(i) % U32 \in Nat
        BY <3>1, SMT
      <3> QED BY <3>1, <3>2 DEF CommittedSize
    <2> QED BY <1>1, <2>1 DEF AllocateInNext, Commit, TypeOK
  <1>7. /\ m_segment_counters' =
             [m_segment_counters EXCEPT ![i] = AsI16(Cardinality(LiveIn(i)) + 1)]
        /\ created' = created /\ m_segment' = i /\ m_segment_alloc_cursor' = p + size
        /\ live' = live \cup {[ptr |-> p, len |-> size]}
        /\ ret' = "ok"
    BY <1>5 DEF AllocateInNext
  <1> HIDE DEF i, p
  <1> QED BY <1>2, <1>3, <1>4, <1>6, <1>7, BlockAdded

-----------------------------------------------------------------------------
(* The other steps                                                         *)

\* The block that is given back is counted for the segment it is in.
LEMMA DeallocateIInv ==
  ASSUME IInv, NEW r \in live, Deallocate(r)
  PROVE  IInv'
  <1>1. /\ TypeOK /\ IsFiniteSet(live) /\ CountersMatch /\ FitsSegment /\ BlocksApart
        /\ CursorAhead /\ CurrentInUse /\ NothingBefore
    BY DEF IInv
  <1>2. /\ created /\ live' = live \ {r}
        /\ UNCHANGED <<created, m_segment_alloc_cursor, m_segment, committed>>
    BY DEF Deallocate
  <1>3. r.ptr \in Nat /\ r.len \in Nat \ {0}
    BY <1>1, LiveTyped
  <1>4. PICK i \in Segments : i * SegmentSize <= r.ptr /\ r.ptr + r.len <= EndOf(i)
    BY <1>1 DEF FitsSegment
  <1>5. r.ptr < EndOf(i)
    BY <1>3, <1>4, SegmentBounds
  <1>6. SegmentOf(r.ptr) = i /\ r \in LiveIn(i)
    BY <1>3, <1>4, <1>5, SegmentOfIs DEF LiveIn
  <1>7. IsFiniteSet(LiveIn(i)) /\ Cardinality(LiveIn(i)) \in Nat
    BY <1>1, LiveInFinite
  <1>8. LiveIn(i) # {} /\ Cardinality(LiveIn(i)) # 0
    BY <1>6, <1>7, FS_EmptySet
  <1>9. m_segment_counters[i] = Cardinality(LiveIn(i)) /\ m_segment_counters[i] > 0
    BY <1>1, <1>2, <1>7, <1>8 DEF CountersMatch
  <1>10. m_segment_counters' = [m_segment_counters EXCEPT ![i] = @ - 1]
    BY <1>6, <1>9 DEF Deallocate
  <1>11. LiveIn(i)' = LiveIn(i) \ {r} /\ \A j \in Segments : j # i => LiveIn(j)' = LiveIn(j)
    <2>1. LiveIn(i)' = LiveIn(i) \ {r}
      BY <1>2 DEF LiveIn, EndOf
    <2>2. ASSUME NEW j \in Segments, j # i
          PROVE  LiveIn(j)' = LiveIn(j)
      <3>1. r \notin LiveIn(j)
        BY <1>3, <1>4, <1>5, <2>2, OneSegment DEF LiveIn
      <3> QED BY <1>2, <3>1 DEF LiveIn, EndOf
    <2> QED BY <2>1, <2>2
  <1>12. Cardinality(LiveIn(i) \ {r}) = Cardinality(LiveIn(i)) - 1
    BY <1>6, <1>7, FS_RemoveElement
  <1>13. \A j \in Segments :
           m_segment_counters'[j] = IF j = i THEN m_segment_counters[i] - 1 ELSE m_segment_counters[j]
    BY <1>1, <1>10 DEF TypeOK
  <1>14. CountersMatch'
    <2>1. ASSUME NEW j \in Segments
          PROVE  \/ m_segment_counters'[j] = -1 /\ LiveIn(j)' = {}
                 \/ m_segment_counters'[j] = Cardinality(LiveIn(j)')
      <3>1. CASE j = i
        BY <1>9, <1>11, <1>12, <1>13, <3>1
      <3>2. CASE j # i
        BY <1>1, <1>2, <1>11, <1>13, <3>2 DEF CountersMatch
      <3> QED BY <3>1, <3>2
    <2> QED BY <2>1 DEF CountersMatch
  <1>15. TypeOK'
    <2>1. m_segment_counters[i] - 1 \in -1..CounterMax
      <3>1. m_segment_counters[i] \in -1..CounterMax /\ CounterMax \in Nat
        BY <1>1, Constants DEF TypeOK
      <3> QED BY <1>9, <3>1
    <2>2. m_segment_counters' \in [Segments -> -1..CounterMax]
      BY <1>1, <1>10, <2>1 DEF TypeOK
    <2> QED BY <1>1, <1>2, <2>2 DEF TypeOK, Deallocate
  <1>16. IsFiniteSet(live)'
    BY <1>1, <1>2, FS_RemoveElement
  <1>17. FitsSegment' /\ BlocksApart'
    BY <1>1, <1>2 DEF FitsSegment, BlocksApart, EndOf
  <1>18. CursorAhead'
    <2>1. LiveIn(m_segment)' \subseteq LiveIn(m_segment)
      BY <1>2 DEF LiveIn, EndOf
    <2> QED BY <1>1, <1>2, <2>1 DEF CursorAhead
  <1>19. CurrentInUse'
    <2>1. m_segment \in Segments /\ m_segment_counters \in [Segments -> -1..CounterMax]
      BY <1>1 DEF TypeOK
    <2>2. m_segment_counters[m_segment] >= 0
      BY <1>1, <1>2 DEF CurrentInUse
    <2>3. m_segment_counters[i] - 1 >= 0
      BY <1>7, <1>9
    <2> QED BY <1>2, <1>13, <2>1, <2>2, <2>3 DEF CurrentInUse
  <1> QED BY <1>2, <1>14, <1>15, <1>16, <1>17, <1>18, <1>19 DEF IInv, NothingBefore

LEMMA CreateIInv ==
  ASSUME IInv, Create
  PROVE  IInv'
  <1>1. live = {} /\ live' = {} /\ TypeOK
    BY DEF IInv, NothingBefore, Create
  <1>2. /\ created' = TRUE /\ m_segment_alloc_cursor' = 0 /\ m_segment' = 0 /\ ret' = ret
        /\ m_segment_counters' = [i \in Segments |-> IF i < MinSegments THEN 0 ELSE -1]
        /\ committed' = PageSize + MinSegments * SegmentSize
    BY <1>1 DEF Create
  <1>3. 0 * SegmentSize = 0 /\ EndOf(0) = SegmentSize
    BY Constants DEF EndOf
  <1>4. MinSegments * SegmentSize \in Nat /\ NumSegments * SegmentSize \in Nat
    BY Constants, SegmentBounds, SMT
  <1>5. TypeOK'
    <2>1. m_segment_counters' \in [Segments -> -1..CounterMax]
      BY <1>2, Constants
    <2>2. m_segment_alloc_cursor' \in 0..NumSegments * SegmentSize
      <3> DEFINE top == NumSegments * SegmentSize
      <3> HIDE DEF top
      <3>1. top \in Nat => m_segment_alloc_cursor' \in 0..top
        BY <1>2
      <3> QED BY <1>4, <3>1 DEF top
    <2>3. committed' \in Nat
      BY <1>2, <1>4, Constants
    <2> QED BY <1>1, <1>2, <2>1, <2>2, <2>3, Constants DEF TypeOK
  <1>6. IsFiniteSet(live)' /\ \A i \in Segments : LiveIn(i)' = {} /\ Cardinality(LiveIn(i)') = 0
    BY <1>1, FS_EmptySet DEF LiveIn
  <1>7. CountersMatch'
    <2>1. ASSUME NEW i \in Segments
          PROVE  \/ m_segment_counters'[i] = -1 /\ LiveIn(i)' = {}
                 \/ m_segment_counters'[i] = Cardinality(LiveIn(i)')
      BY <1>2, <1>6
    <2> QED BY <2>1 DEF CountersMatch
  <1>8. FitsSegment' /\ CursorAhead'
    <2>1. 0 <= SegmentSize
      BY Constants
    <2>2. LiveIn(0)' = {}
      BY <1>6, Constants
    <2> QED BY <1>1, <1>2, <1>3, <2>1, <2>2 DEF FitsSegment, CursorAhead, EndOf
  <1>9. CurrentInUse'
    BY <1>2, Constants DEF CurrentInUse
  <1> QED BY <1>1, <1>2, <1>5, <1>6, <1>7, <1>8, <1>9 DEF IInv, BlocksApart, NothingBefore

\* destroy leaves the state every allocator starts from.
LEMMA DestroyIInv ==
  ASSUME Destroy
  PROVE  IInv'
  <1>1. Init'
    BY DEF Destroy, Init
  <1> QED BY <1>1, InitIInv, PTL

LEMMA AllocateFailsIInv ==
  ASSUME IInv, NEW size \in 1..MaxRequest, NEW align \in Alignments,
         AllocateFails(size, align)
  PROVE  IInv'
  <1>1. /\ UNCHANGED <<created, m_segment_alloc_cursor, m_segment_counters, m_segment, committed, live>>
        /\ created /\ ret' = "oom"
    BY DEF AllocateFails
  <1> QED BY <1>1 DEF IInv, TypeOK, CountersMatch, FitsSegment, BlocksApart, CursorAhead,
                      CurrentInUse, NothingBefore, LiveIn, EndOf

LEMMA StutterIInv ==
  ASSUME IInv, UNCHANGED vars
  PROVE  IInv'
  BY DEF vars, IInv, TypeOK, CountersMatch, FitsSegment, BlocksApart, CursorAhead,
         CurrentInUse, NothingBefore, LiveIn, EndOf

\* The invariant is inductive if a block behind the header page fits.
LEMMA IInvInductive ==
  ASSUME LargeSegments, IInv, [Next]_vars
  PROVE  IInv'
  <1>1. CASE Create
    BY <1>1, CreateIInv
  <1>2. CASE Destroy
    BY <1>2, DestroyIInv
  <1>3. ASSUME NEW size \in 1..MaxRequest, NEW align \in Alignments,
               AllocateInCurrent(size, align)
        PROVE  IInv'
    BY <1>3, AllocateInCurrentIInv
  <1>4. ASSUME NEW size \in 1..MaxRequest, NEW align \in Alignments,
               AllocateInNext(size, align)
        PROVE  IInv'
    BY <1>4, AllocateInNextIInv
  <1>5. ASSUME NEW size \in 1..MaxRequest, NEW align \in Alignments,
               AllocateFails(size, align)
        PROVE  IInv'
    BY <1>5, AllocateFailsIInv
  <1>6. ASSUME NEW r \in live, Deallocate(r)
        PROVE  IInv'
    BY <1>6, DeallocateIInv
  <1>7. CASE UNCHANGED vars
    BY <1>7, StutterIInv
  <1> QED BY <1>1, <1>2, <1>3, <1>4, <1>5, <1>6, <1>7 DEF Next

\* The strengthened invariant holds in every reachable state.
THEOREM InvariantOfSegward ==
  ASSUME LargeSegments
  PROVE  Spec => []IInv
  <1>1. IInv /\ [Next]_vars => IInv'
    BY IInvInductive
  <1> QED BY <1>1, InitIInv, PTL DEF Spec

\* The cursor stays in the arena and no counter goes below -1 or over its i16.
THEOREM SegwardTypeOK ==
  ASSUME LargeSegments
  PROVE  Spec => []TypeOK
  <1>1. IInv => TypeOK
    BY DEF IInv
  <1> QED BY <1>1, InvariantOfSegward, PTL

\* A counter is the number of live blocks of its segment: no segment is used
\* again under a live block, whatever the order of the calls.
THEOREM SegwardCountersMatch ==
  ASSUME LargeSegments
  PROVE  Spec => []CountersMatch
  <1>1. IInv => CountersMatch
    BY DEF IInv
  <1> QED BY <1>1, InvariantOfSegward, PTL

\* No block and no cursor reaches beyond the end of its segment.
THEOREM SegwardFitsSegment ==
  ASSUME LargeSegments
  PROVE  Spec => []FitsSegment
  <1>1. IInv => FitsSegment
    BY DEF IInv
  <1> QED BY <1>1, InvariantOfSegward, PTL

-----------------------------------------------------------------------------
(* Failure                                                                 *)

LEMMA FailsOnlyIfFull ==
  ASSUME IInv, NEW size \in 1..MaxRequest, NEW align \in Alignments,
         AllocateFails(size, align), NEW i \in Segments
  PROVE  LiveIn(i) # {}
  <1>1. created /\ i \notin Reusable
    BY DEF AllocateFails
  <1>2. m_segment_counters[i] \in -1..CounterMax /\ CounterMax \in Nat
    BY Constants DEF IInv, TypeOK
  <1>3. m_segment_counters[i] > 0
    BY <1>1, <1>2 DEF Reusable
  <1>4. Cardinality(LiveIn(i)) > 0
    BY <1>1, <1>3 DEF IInv, CountersMatch
  <1> QED BY <1>4, FS_EmptySet

\* allocate returns nullptr only when every segment holds a live block.
THEOREM SegwardOOMIsHonest ==
  ASSUME LargeSegments
  PROVE  Spec => OOMIsHonest
  <1>1. ASSUME IInv, [Next]_vars
        PROVE  [ret' = "oom" => \A i \in Segments : LiveIn(i) # {}]_vars
    <2>1. CASE \E size \in 1..MaxRequest, align \in Alignments : AllocateFails(size, align)
      BY <1>1, <2>1, FailsOnlyIfFull
    <2>2. CASE Create
      BY <1>1, <2>2 DEF Create, IInv, NothingBefore
    <2>3. CASE \/ Destroy \/ \E r \in live : Deallocate(r)
               \/ \E size \in 1..MaxRequest, align \in Alignments :
                    AllocateInCurrent(size, align) \/ AllocateInNext(size, align)
      BY <2>3 DEF Destroy, Deallocate, AllocateInCurrent, AllocateInNext
    <2>4. CASE UNCHANGED vars
      BY <2>4
    <2> QED BY <1>1, <2>1, <2>2, <2>3, <2>4 DEF Next
  <1> QED BY <1>1, InvariantOfSegward, PTL DEF Spec, OOMIsHonest

-----------------------------------------------------------------------------
(* Committed memory                                                        *)

\* A block that is put into a committed segment is committed.
LEMMA CommitKept ==
  ASSUME IInv, IInv', LiveIsCommitted, created, created',
         NEW i \in Segments, NEW p \in Nat, NEW size \in 1..MaxRequest,
         p + size <= EndOf(i), live' = live \cup {[ptr |-> p, len |-> size]},
         committed <= committed', PageSize + EndOf(i) <= committed',
         \A j \in Segments : j # i => m_segment_counters'[j] = m_segment_counters[j]
  PROVE  LiveIsCommitted'
  <1>1. committed \in Nat /\ committed' \in Nat /\ PageSize \in Nat /\ size \in Nat
    BY Constants DEF IInv, TypeOK
  <1>2. ASSUME NEW r \in live'
        PROVE  PageSize + r.ptr + r.len <= committed'
    <2>1. CASE r \in live
      <3>1. r.ptr \in Nat /\ r.len \in Nat
        BY <2>1, LiveTyped DEF IInv
      <3>2. PageSize + r.ptr + r.len <= committed
        BY <2>1 DEF LiveIsCommitted
      <3> QED BY <1>1, <3>1, <3>2
    <2>2. CASE r = [ptr |-> p, len |-> size]
      <3>1. EndOf(i) \in Nat
        BY SegmentBounds
      <3> QED BY <1>1, <2>2, <3>1
    <2> QED BY <2>1, <2>2
  <1>3. ASSUME NEW j \in Segments, m_segment_counters'[j] >= 0
        PROVE  PageSize + EndOf(j) <= committed'
    <2>1. CASE j = i
      BY <2>1
    <2>2. CASE j # i
      <3>1. m_segment_counters[j] >= 0 /\ EndOf(j) \in Nat
        BY <1>3, <2>2, SegmentBounds
      <3>2. PageSize + EndOf(j) <= committed
        BY <3>1 DEF LiveIsCommitted
      <3> QED BY <1>1, <3>1, <3>2
    <2> QED BY <2>1, <2>2
  <1> QED BY <1>2, <1>3 DEF LiveIsCommitted, EndOf

LEMMA CommittedCurrent ==
  ASSUME IInv, IInv', LiveIsCommitted, NEW size \in 1..MaxRequest, NEW align \in Alignments,
         AllocateInCurrent(size, align)
  PROVE  LiveIsCommitted'
  <1> DEFINE p == AlignUp(m_segment_alloc_cursor, align)
  <1>1. TypeOK /\ CurrentInUse
    BY DEF IInv
  <1>2. m_segment \in Segments /\ m_segment_alloc_cursor \in Nat /\ committed \in Nat
    <2>1. NumSegments * SegmentSize \in Nat
      BY Constants, SegmentBounds
    <2> QED BY <1>1, <2>1 DEF TypeOK
  <1>3. p \in Nat
    BY <1>2, AlignUpIs
  <1>4. /\ created /\ created' /\ committed' = committed
        /\ p + size <= EndOf(m_segment) /\ live' = live \cup {[ptr |-> p, len |-> size]}
    BY DEF AllocateInCurrent, FitsCurrent
  <1>5. PageSize + EndOf(m_segment) <= committed
    BY <1>1, <1>2, <1>4 DEF CurrentInUse, LiveIsCommitted
  <1>6. \A j \in Segments : j # m_segment => m_segment_counters'[j] = m_segment_counters[j]
    BY <1>1 DEF AllocateInCurrent, TypeOK
  <1> HIDE DEF p
  <1> QED BY <1>2, <1>3, <1>4, <1>5, <1>6, CommitKept

LEMMA CommittedNext ==
  ASSUME LargeSegments, BelowU32, IInv, IInv', LiveIsCommitted,
         NEW size \in 1..MaxRequest, NEW align \in Alignments, AllocateInNext(size, align)
  PROVE  LiveIsCommitted'
  <1> DEFINE i == LeastOf(Reusable)
             p == AlignUp(StartOf(i), align)
  <1>1. TypeOK /\ created /\ i \in Segments
    BY ReusableIsEmpty DEF IInv, AllocateInNext
  <1>2. p \in Nat
    BY <1>1, StartIsAligned
  <1>3. /\ created' /\ m_segment' = i /\ m_segment_alloc_cursor' = p + size
        /\ live' = live \cup {[ptr |-> p, len |-> size]}
        /\ m_segment_counters' = [m_segment_counters EXCEPT ![i] = 1]
        /\ committed' = IF m_segment_counters[i] < 0 THEN Commit(CommittedSize(i)) ELSE committed
    BY DEF AllocateInNext
  <1>4. p + size <= EndOf(i)
    <2>1. p + size <= EndOf(m_segment')
      BY <1>3 DEF IInv, FitsSegment, EndOf
    <2> QED BY <1>3, <2>1
  <1> HIDE DEF i, p
  <1>5. CommittedSize(i) = PageSize + EndOf(i)
    <2>1. EndOf(i) \in Nat /\ EndOf(i) < U32 /\ U32 \in Nat \ {0}
      BY <1>1, SegmentBounds, Constants DEF BelowU32
    <2>2. EndOf(i) % U32 = EndOf(i)
      BY <2>1, ModSmall
    <2> QED BY <2>2 DEF CommittedSize
  <1>6. /\ committed \in Nat /\ PageSize \in Nat /\ EndOf(i) \in Nat
        /\ m_segment_counters[i] \in Int
    BY <1>1, SegmentBounds, Constants DEF TypeOK
  <1>7. committed <= committed' /\ PageSize + EndOf(i) <= committed'
    <2>1. CASE m_segment_counters[i] < 0
      BY <1>3, <1>5, <1>6, <2>1 DEF Commit
    <2>2. CASE m_segment_counters[i] >= 0
      BY <1>1, <1>3, <1>6, <2>2 DEF LiveIsCommitted
    <2> QED BY <1>6, <2>1, <2>2
  <1>8. \A j \in Segments : j # i => m_segment_counters'[j] = m_segment_counters[j]
    BY <1>1, <1>3 DEF TypeOK
  <1> QED BY <1>1, <1>2, <1>3, <1>4, <1>7, <1>8, CommitKept

LEMMA CommittedCreate ==
  ASSUME IInv, Create
  PROVE  LiveIsCommitted'
  <1>1. live' = {} /\ committed' = PageSize + MinSegments * SegmentSize
    BY DEF IInv, NothingBefore, Create
  <1>2. ASSUME NEW i \in Segments, m_segment_counters'[i] >= 0
        PROVE  PageSize + EndOf(i) <= committed'
    <2>1. i < MinSegments
      BY <1>2 DEF Create
    <2>2. i \in Nat /\ i + 1 <= MinSegments
      BY <2>1, SegmentBounds, Constants
    <2>3. (i + 1) * SegmentSize <= MinSegments * SegmentSize
      BY <2>2, Constants, SMT
    <2>4. EndOf(i) \in Nat /\ MinSegments * SegmentSize \in Nat /\ PageSize \in Nat
      BY SegmentBounds, Constants, SMT
    <2>5. EndOf(i) <= MinSegments * SegmentSize
      BY <2>3 DEF EndOf
    <2> HIDE DEF EndOf
    <2> QED BY <1>1, <2>4, <2>5
  <1> QED BY <1>1, <1>2 DEF LiveIsCommitted, EndOf

LEMMA CommittedDeallocate ==
  ASSUME IInv, LiveIsCommitted, NEW r \in live, Deallocate(r)
  PROVE  LiveIsCommitted'
  <1>1. created /\ live' \subseteq live /\ committed' = committed /\ TypeOK
    BY DEF Deallocate, IInv
  <1>2. \A i \in Segments : m_segment_counters'[i] >= 0 => m_segment_counters[i] >= 0
    BY <1>1 DEF Deallocate, TypeOK
  <1> QED BY <1>1, <1>2 DEF LiveIsCommitted, EndOf

LEMMA CommittedInductive ==
  ASSUME LargeSegments, BelowU32, IInv, IInv', LiveIsCommitted, [Next]_vars
  PROVE  LiveIsCommitted'
  <1>1. CASE Create
    BY <1>1, CommittedCreate
  <1>2. CASE Destroy
    BY <1>2 DEF Destroy, LiveIsCommitted
  <1>3. ASSUME NEW size \in 1..MaxRequest, NEW align \in Alignments,
               AllocateInCurrent(size, align)
        PROVE  LiveIsCommitted'
    BY <1>3, CommittedCurrent
  <1>4. ASSUME NEW size \in 1..MaxRequest, NEW align \in Alignments,
               AllocateInNext(size, align)
        PROVE  LiveIsCommitted'
    BY <1>4, CommittedNext
  <1>5. ASSUME NEW size \in 1..MaxRequest, NEW align \in Alignments,
               AllocateFails(size, align)
        PROVE  LiveIsCommitted'
    BY <1>5 DEF AllocateFails, LiveIsCommitted, EndOf
  <1>6. ASSUME NEW r \in live, Deallocate(r)
        PROVE  LiveIsCommitted'
    BY <1>6, CommittedDeallocate
  <1>7. CASE UNCHANGED vars
    BY <1>7 DEF vars, LiveIsCommitted, EndOf
  <1> QED BY <1>1, <1>2, <1>3, <1>4, <1>5, <1>6, <1>7 DEF Next

\* Below 4 GB the memory of every live block, and of every segment that is not
\* marked as uncommitted, is committed.
THEOREM SegwardLiveIsCommitted ==
  ASSUME LargeSegments, BelowU32
  PROVE  Spec => []LiveIsCommitted
  <1>1. Init => LiveIsCommitted
    BY DEF Init, LiveIsCommitted
  <1>2. IInv /\ IInv' /\ LiveIsCommitted /\ [Next]_vars => LiveIsCommitted'
    BY CommittedInductive
  <1> QED BY <1>1, <1>2, InvariantOfSegward, PTL DEF Spec

-----------------------------------------------------------------------------
(* What the client sees                                                    *)

\* A new block is a region of the arena, apart from all live ones.
LEMMA RefinesAllocate ==
  ASSUME IInv, IInv', NEW b, b \notin live, live' = live \cup {b}
  PROVE  Regions!Allocate
  <1>1. TypeOK' /\ FitsSegment' /\ BlocksApart' /\ b \in live'
    BY DEF IInv
  <1>2. b \in [ptr : Nat, len : 1..MaxRequest]
    BY <1>1 DEF TypeOK
  <1>3. PICK i \in Segments : b.ptr + b.len <= EndOf(i)
    BY <1>1 DEF FitsSegment, EndOf
  <1>4. /\ EndOf(i) \in Nat /\ EndOf(i) <= NumSegments * SegmentSize
        /\ NumSegments * SegmentSize \in Nat
    BY SegmentBounds
  <1>5. b.ptr \in Nat /\ b.len \in Nat /\ b = [ptr |-> b.ptr, len |-> b.len]
    BY <1>2, Constants
  <1>6. Regions!InRange(b) /\ b \in Regions!Region
    <2> DEFINE top == NumSegments * SegmentSize
    <2>1. EndOf(i) <= top /\ top \in Nat
      BY <1>4
    <2> HIDE DEF top
    <2>2. b.ptr + b.len <= top /\ b.ptr \in 0..top /\ b.len \in 0..top
      BY <1>3, <1>4, <1>5, <2>1
    <2> QED BY <1>5, <2>2 DEF Regions!InRange, Regions!Region, top
  <1>7. \A s \in live : Regions!Apart(b, s)
    BY <1>1 DEF BlocksApart, Regions!Apart
  <1> QED BY <1>1, <1>6, <1>7 DEF Regions!Allocate

LEMMA RefinesNext ==
  ASSUME IInv, IInv', [Next]_vars
  PROVE  [Regions!Next]_live
  <1>1. CASE live' \subseteq live
    BY <1>1 DEF Regions!Next, Regions!Release
  <1>2. CASE ~(live' \subseteq live)
    <2>1. \/ \E size \in 1..MaxRequest, align \in Alignments : AllocateInCurrent(size, align)
          \/ \E size \in 1..MaxRequest, align \in Alignments : AllocateInNext(size, align)
      BY <1>1, <1>2 DEF Next, vars, Create, Destroy, AllocateFails, Deallocate
    <2>2. \E b : live' = live \cup {b}
      BY <2>1 DEF AllocateInCurrent, AllocateInNext
    <2>3. PICK b : live' = live \cup {b}
      BY <2>2
    <2>4. b \notin live
      BY <1>2, <2>3
    <2> QED BY <2>3, <2>4, RefinesAllocate DEF Regions!Next
  <1> QED BY <1>1, <1>2

\* A client of the segmented allocator sees a region allocator: every block it
\* gets is inside the arena and apart from all the blocks it still holds.
THEOREM SegwardImplementsRegions ==
  ASSUME LargeSegments
  PROVE  Spec => ImplementsRegions
  <1>1. Init => Regions!Init
    BY DEF Init, Regions!Init
  <1>2. IInv /\ IInv' /\ [Next]_vars => [Regions!Next]_live
    BY RefinesNext
  <1> QED BY <1>1, <1>2, InvariantOfSegward, PTL
          DEF Spec, ImplementsRegions, Regions!Spec

=============================================================================
