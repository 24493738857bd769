------------------------------- MODULE Segward -------------------------------
(***************************************************************************)
(* nsegward: the segmented forward allocator of c_allocator_segward.cpp.   *)
(*                                                                         *)
(* NumSegments segments of SegmentSize units follow a header page in one   *)
(* virtual memory arena.  Allocation bumps a cursor in the current segment *)
(* and counts; deallocation only counts down; a segment whose counter is   *)
(* zero is used again from its start.  Addresses are offsets from the end  *)
(* of the header page, as m_segment_alloc_cursor is.                       *)
(***************************************************************************)
EXTENDS Integers, FiniteSets

CONSTANTS
  SegmentSize,    \* 1 << m_segment_size_shift, in units
  NumSegments,    \* m_segment_count
  MinSegments,    \* min_segments of create: 3 in the code
  PageSize,       \* 1 << m_page_size_shift, in units
  MaxRequest,     \* the largest size and alignment: segment size / 64 in the code
  Alignments,     \* the alignments the client asks for
  CounterMax,     \* the largest value of a counter: 32767 in the code
  U32             \* where a u32 wraps around, in units: 2^32 bytes in the code

Segments == 0..NumSegments-1

\* create returns nullptr for fewer segments than the minimum; allocate asserts
\* the bounds on size and alignment; at most CounterMax blocks of a segment
\* are live at a time is a requirement on the client (c_allocator_segward.h:36),
\* met here because a block has at least one unit.
ASSUME SegwardAssumption ==
  /\ SegmentSize \in Nat \ {0} /\ PageSize \in Nat \ {0}
  /\ MinSegments \in Nat \ {0} /\ NumSegments \in Nat /\ NumSegments >= MinSegments
  /\ MaxRequest \in Nat \ {0} /\ 2 * MaxRequest <= SegmentSize
  /\ Alignments \subseteq 1..MaxRequest
  /\ \A a \in Alignments : SegmentSize % a = 0 /\ PageSize % a = 0
  /\ CounterMax \in Nat /\ CounterMax >= SegmentSize
  /\ U32 \in Nat \ {0}

VARIABLES
  created,                \* whether the client holds an allocator
  m_segment_alloc_cursor, \* where the next block goes, before alignment
  m_segment_counters,     \* blocks per segment, -1 while uncommitted
  m_segment,              \* the current segment
  committed,              \* units of the arena that are committed
  ret,                    \* how the last call ended
  live                    \* history: the blocks the client holds

vars == <<created, m_segment_alloc_cursor, m_segment_counters, m_segment,
          committed, ret, live>>

LeastOf(S) == CHOOSE x \in S : \A y \in S : x <= y

AlignUp(x, a) == ((x + a - 1) \div a) * a

\* The first address after segment i.
EndOf(i) == (i + 1) * SegmentSize

\* Arithmetic of an i16.
AsI16(n) == ((n + CounterMax + 1) % (2 * (CounterMax + 1))) - (CounterMax + 1)

-----------------------------------------------------------------------------
(* The arena of ccore, as far as this allocator uses it.                   *)

\* narena::commit: at least that many units are committed.
Commit(size) == IF size > committed THEN size ELSE committed

-----------------------------------------------------------------------------

Init ==
  /\ created = FALSE
  /\ m_segment_alloc_cursor = 0
  /\ m_segment_counters = [i \in Segments |-> 0]
  /\ m_segment = 0
  /\ committed = 0
  /\ ret = "none"
  /\ live = {}

\* The arena comes with min_segments segments committed; those and no others
\* are marked as committed.
Create ==
  /\ ~created
  /\ created' = TRUE
  /\ m_segment_alloc_cursor' = 0
  /\ m_segment_counters' = [i \in Segments |-> IF i < MinSegments THEN 0 ELSE -1]
  /\ m_segment' = 0
  /\ committed' = PageSize + MinSegments * SegmentSize
  /\ UNCHANGED <<ret, live>>

Destroy ==
  /\ created
  /\ created' = FALSE
  /\ m_segment_alloc_cursor' = 0
  /\ m_segment_counters' = [i \in Segments |-> 0]
  /\ m_segment' = 0
  /\ committed' = 0
  /\ ret' = "none"
  /\ live' = {}

\* Mutant: the alignment gap is not counted.
FitsCurrent_NoGap(size, align) == m_segment_alloc_cursor + size <= EndOf(m_segment)

\* The current segment has room for the block after alignment.
FitsCurrent(size, align) ==
  AlignUp(m_segment_alloc_cursor, align) + size <= EndOf(m_segment)

AllocateInCurrent(size, align) ==
  LET aligned == AlignUp(m_segment_alloc_cursor, align)
  IN  /\ created
      /\ FitsCurrent(size, align)
      /\ m_segment_alloc_cursor' = aligned + size
      /\ m_segment_counters' = [m_segment_counters EXCEPT ![m_segment] = AsI16(@ + 1)]
      /\ live' = live \cup {[ptr |-> aligned, len |-> size]}
      /\ ret' = "ok"
      /\ UNCHANGED <<created, m_segment, committed>>

\* Mutant: the segment after the current one is taken without a look at its counter.
Reusable_Next == {i \in Segments : i = (m_segment + 1) % NumSegments}

\* The segments the linear search would stop at.
Reusable == {i \in Segments : m_segment_counters[i] <= 0}

\* Mutant: one segment too little is committed.
CommittedSize_Short(i) == PageSize + ((i * SegmentSize) % U32)

\* The end of segment i is computed in 32 bits.
CommittedSize(i) == PageSize + (EndOf(i) % U32)

\* The start of segment i; in segment 0 a page is left out.
StartOf(i) == IF i = 0 THEN PageSize ELSE i * SegmentSize

AllocateInNext(size, align) ==
  LET i       == LeastOf(Reusable)
      aligned == AlignUp(StartOf(i), align)
  IN  /\ created
      /\ ~FitsCurrent(size, align)
      /\ Reusable # {}
      /\ committed' = IF m_segment_counters[i] < 0 THEN Commit(CommittedSize(i)) ELSE committed
      /\ m_segment' = i
      /\ m_segment_alloc_cursor' = aligned + size
      /\ m_segment_counters' = [m_segment_counters EXCEPT ![i] = 1]
      /\ live' = live \cup {[ptr |-> aligned, len |-> size]}
      /\ ret' = "ok"
      /\ UNCHANGED created

AllocateFails(size, align) ==
  /\ created
  /\ ~FitsCurrent(size, align)
  /\ Reusable = {}
  /\ ret' = "oom"
  /\ UNCHANGED <<created, m_segment_alloc_cursor, m_segment_counters, m_segment,
                 committed, live>>

\* Mutant: the header page is counted as part of the first segment.
SegmentOf_NoPage(ptr) == (ptr + PageSize) \div SegmentSize

\* The segment deallocate takes a block for.
SegmentOf(ptr) == ptr \div SegmentSize

\* The counter is only counted down while it is positive.
Deallocate(r) ==
  LET i == SegmentOf(r.ptr)
  IN  /\ created
      /\ m_segment_counters' =
           IF i \in Segments /\ m_segment_counters[i] > 0
           THEN [m_segment_counters EXCEPT ![i] = @ - 1]
           ELSE m_segment_counters
      /\ live' = live \ {r}
      /\ ret' = "ok"
      /\ UNCHANGED <<created, m_segment_alloc_cursor, m_segment, committed>>

Next ==
  \/ Create
  \/ Destroy
  \/ \E size \in 1..MaxRequest, align \in Alignments : AllocateInCurrent(size, align)
  \/ \E size \in 1..MaxRequest, align \in Alignments : AllocateInNext(size, align)
  \/ \E size \in 1..MaxRequest, align \in Alignments : AllocateFails(size, align)
  \/ \E r \in live : Deallocate(r)

Spec == Init /\ [][Next]_vars

-----------------------------------------------------------------------------
(* Properties                                                              *)

\* Types: a counter is at least -1 and never overflows its i16.
TypeOK ==
  /\ created \in BOOLEAN
  /\ m_segment \in Segments
  /\ m_segment_alloc_cursor \in 0..NumSegments * SegmentSize
  /\ m_segment_counters \in [Segments -> -1..CounterMax]
  /\ committed \in Nat
  /\ ret \in {"none", "ok", "oom"}
  /\ live \subseteq [ptr : Nat, len : 1..MaxRequest]

LiveIn(i) == {r \in live : i * SegmentSize <= r.ptr /\ r.ptr < EndOf(i)}

\* A counter is the number of live blocks of its segment, so a segment that is
\* used again holds no live block.
CountersMatch ==
  created => \A i \in Segments :
               \/ m_segment_counters[i] = -1 /\ LiveIn(i) = {}
               \/ m_segment_counters[i] = Cardinality(LiveIn(i))

\* "aligned allocation must fit (should always be true)": the cursor stays in
\* the current segment, and no block reaches into the segment after its own,
\* whose counter does not count it.
FitsSegment ==
  /\ m_segment_alloc_cursor <= EndOf(m_segment)
  /\ \A r \in live : \E i \in Segments : i * SegmentSize <= r.ptr /\ r.ptr + r.len <= EndOf(i)

\* The memory of every live block is committed, and so is that of every segment
\* that is not marked as uncommitted.
LiveIsCommitted ==
  created =>
    /\ \A r \in live : PageSize + r.ptr + r.len <= committed
    /\ \A i \in Segments : m_segment_counters[i] >= 0 => PageSize + EndOf(i) <= committed

\* allocate returns nullptr only if every segment has a live block.
OOMIsHonest ==
  [][ret' = "oom" => \A i \in Segments : LiveIn(i) # {}]_vars

\* Seen by its client this is a region allocator over all segments.
Regions == INSTANCE RegionAllocator WITH Limit <- NumSegments * SegmentSize

ImplementsRegions == Regions!Spec

=============================================================================
