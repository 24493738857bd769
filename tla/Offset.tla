------------------------------- MODULE Offset -------------------------------
(***************************************************************************)
(* noffset::allocator_t of c_allocator_offset.cpp: hands out offsets into  *)
(* a range of Size units it never touches.  The range is tiled by nodes,   *)
(* each one a live allocation or free; a free node is in the list of its   *)
(* bin, and two bitmaps say which bins and which groups of bins have one.  *)
(*                                                                         *)
(* self is the allocator_t, its fields named as in the code.  A bitmap is  *)
(* the set of its bits; m_usedBins, an array of bitmaps, is the set of the *)
(* bins whose bit is set.  Bin lists and the freelist of spare nodes share *)
(* the links of the nodes.  What insertNodeIntoBin writes before anything  *)
(* reads it (the other fields of a spare node, and the bins of an allocator*)
(* without arrays) is forgotten: it has its first value again.             *)
(***************************************************************************)
EXTENDS BinFloat, FiniteSets, Iteration

LOCAL INSTANCE FiniteSetsExt

CONSTANTS
  Size,         \* m_size
  MaxAllocs,    \* m_maxAllocs: the number of nodes
  Requests,     \* the sizes the client asks for, 0 included if it likes
  MaxLive       \* bound: allocations the client holds at a time

ASSUME OffsetAssumption ==
  /\ Size \in 1..MaxSize
  /\ MaxAllocs \in Nat /\ MaxAllocs >= 2
  /\ Requests \subseteq 0..MaxSize
  /\ MaxLive \in Nat

Nodes    == 0..MaxAllocs-1
NIL      == -1
CLEARED  == -2          \* 0xCDCDCDCD
NO_SPACE == -3

\* Every bin a region of at most Size units can be filed under.
Bins == 0..U32ToF32RoundDown(Size)
TopOf(bin)  == Shr(bin, MantissaBits)
LeafOf(bin) == LowBits(bin, MantissaBits)
Tops == {TopOf(b) : b \in Bins}

VARIABLES
  self,     \* the allocator_t
  has_arrays,  \* whether it has its arrays: FALSE for a null m_nodes
  crashed,  \* whether a member function wrote outside the arrays
  live      \* history: the allocations the client holds

vars == <<self, has_arrays, crashed, live>>

LeastOf(S) == CHOOSE x \in S : \A y \in S : x <= y

NoNode == [dataOffset |-> 0, dataSize |-> 0, binListPrev |-> NIL, binListNext |-> NIL]
NoNeighbor == [prev |-> NIL, next |-> NIL]

\* What the constructor leaves, and teardown.
Constructed ==
  [ m_freeStorage  |-> 0,
    m_usedBinsTop  |-> {},
    m_usedBins     |-> {},
    m_binIndices   |-> [b \in Bins |-> NIL],
    m_nodes          |-> [n \in Nodes |-> NoNode],
    m_neighbors    |-> [n \in Nodes |-> NoNeighbor],
    m_nodeUsed     |-> {},
    m_freeIndex    |-> 0,
    m_freeListHead |-> NIL,
    m_freeOffset   |-> MaxAllocs - 1 ]

-----------------------------------------------------------------------------
(* The links.  "if (n != NIL) m_nodes[n].binListPrev = p" is SetPrev.      *)

\* Mutant: no link back.
SetPrev_Never(nodes, n, p) == nodes

SetPrev(nodes, n, p) ==
  IF n = NIL THEN nodes ELSE [nodes EXCEPT ![n].binListPrev = p]

\* Put a node on the freelist.
PushSpare(s, n) ==
  LET head == s.m_freeListHead
  IN  [s EXCEPT
        !.m_nodes = SetPrev([@ EXCEPT ![n] = [NoNode EXCEPT !.binListNext = head]], head, n),
        !.m_neighbors[n] = NoNeighbor,
        !.m_nodeUsed = @ \ {n},
        !.m_freeListHead = n]

\* The node insertNodeIntoBin takes: from the freelist, or one never used.
SpareNode(s) ==
  CASE s.m_freeListHead # NIL      -> s.m_freeListHead
    [] s.m_freeListHead = NIL /\ s.m_freeIndex < MaxAllocs -> s.m_freeIndex
    [] OTHER                       -> NIL

TakeSpare(s) ==
  IF s.m_freeListHead # NIL
  THEN LET next == s.m_nodes[s.m_freeListHead].binListNext
       IN  [s EXCEPT !.m_freeListHead = next, !.m_nodes = SetPrev(@, next, NIL)]
  ELSE [s EXCEPT !.m_freeIndex = @ + 1]

MarkBin(s, bin) ==
  [s EXCEPT !.m_usedBins = @ \cup {bin}, !.m_usedBinsTop = @ \cup {TopOf(bin)}]

\* The bin is empty: remove its bit, and that of its group with the last one.
UnmarkBin(s, bin) ==
  LET left == s.m_usedBins \ {bin}
  IN  [s EXCEPT
        !.m_usedBins = left,
        !.m_usedBinsTop = IF \E b \in left : TopOf(b) = TopOf(bin) THEN @ ELSE @ \ {TopOf(bin)}]

\* A free region gets a node on top of the list of its bin.  The bits of the
\* bin are set before it turns out that no node is left.
insertNodeIntoBin(s, size, offset) ==
  LET bin    == U32ToF32RoundDown(size)
      top    == s.m_binIndices[bin]
      node   == SpareNode(s)
      marked == IF top = NIL THEN MarkBin(s, bin) ELSE s
      filled == [dataOffset |-> offset, dataSize |-> size,
                 binListPrev |-> NIL, binListNext |-> top]
  IN  IF node = NIL THEN marked
      ELSE [TakeSpare(marked) EXCEPT
             !.m_nodes = SetPrev([@ EXCEPT ![node] = filled], top, node),
             !.m_neighbors[node] = NoNeighbor,
             !.m_nodeUsed = @ \ {node},
             !.m_binIndices[bin] = node,
             !.m_freeStorage = @ + size]

\* A free node leaves its bin for the freelist.
removeNodeFromBin(s, n) ==
  LET node     == s.m_nodes[n]
      bin      == U32ToF32RoundDown(node.dataSize)
      unlinked == [s EXCEPT !.m_nodes = SetPrev(@, node.binListNext, node.binListPrev)]
      inMiddle == [unlinked EXCEPT !.m_nodes[node.binListPrev].binListNext = node.binListNext]
      first    == [unlinked EXCEPT !.m_binIndices[bin] = node.binListNext]
      removed  == CASE node.binListPrev # NIL -> inMiddle
                    [] node.binListPrev = NIL /\ node.binListNext = NIL -> UnmarkBin(first, bin)
                    [] OTHER -> first
  IN  [PushSpare(removed, n) EXCEPT !.m_freeStorage = @ - node.dataSize]

-----------------------------------------------------------------------------
(* The search of allocate.                                                 *)

BinFor(size) == U32ToF32RoundUp(size)

\* The used bins of the group of a bin, from that bin on.
SameTop(s, bin) ==
  IF TopOf(bin) \in s.m_usedBinsTop
  THEN {b \in s.m_usedBins : TopOf(b) = TopOf(bin) /\ LeafOf(b) >= LeafOf(bin)}
  ELSE {}

HigherTops(s, bin) == {t \in s.m_usedBinsTop : t > TopOf(bin)}

\* Mutant: the bin a free region of this size is filed under is good enough.
FindBin_RoundsDown(s, size) ==
  LET bin    == U32ToF32RoundDown(size)
      higher == HigherTops(s, bin)
  IN  CASE SameTop(s, bin) # {} -> LeastOf(SameTop(s, bin))
        [] SameTop(s, bin) = {} /\ higher # {} ->
             LeastOf({b \in s.m_usedBins : TopOf(b) = LeastOf(higher)})
        [] OTHER -> NO_SPACE

FindBin(s, size) ==
  LET bin    == BinFor(size)
      higher == HigherTops(s, bin)
  IN  CASE SameTop(s, bin) # {} -> LeastOf(SameTop(s, bin))
        [] SameTop(s, bin) = {} /\ higher # {} ->
             LeastOf({b \in s.m_usedBins : TopOf(b) = LeastOf(higher)})
        [] OTHER -> NO_SPACE

-----------------------------------------------------------------------------

(* The queries.                                                            *)

allocationSize(x) == IF has_arrays THEN self.m_nodes[x.node].dataSize ELSE 0

\* Mutant: the bits are scanned from the wrong end.
GreatestOf_Lowest(S) == CHOOSE x \in S : \A y \in S : x <= y

GreatestOf(S) == CHOOSE x \in S : \A y \in S : x >= y

storageReport ==
  LET top     == GreatestOf(self.m_usedBinsTop)
      largest == GreatestOf({b \in self.m_usedBins : TopOf(b) = top})
  IN  IF self.m_freeOffset = 0 THEN [totalFreeSpace |-> 0, largestFreeRegion |-> 0]
      ELSE [totalFreeSpace |-> self.m_freeStorage,
            largestFreeRegion |-> IF self.m_usedBinsTop = {} THEN 0 ELSE F32ToU32(largest)]

\* The number of links to follow from a node to the end of its list.
LinksFrom[n \in Nodes \cup {NIL}] ==
  IF n = NIL THEN 0 ELSE 1 + LinksFrom[self.m_nodes[n].binListNext]

storageReportFull(bin) == LinksFrom[self.m_binIndices[bin]]

-----------------------------------------------------------------------------

Init ==
  /\ self = Constructed
  /\ has_arrays = FALSE
  /\ crashed = FALSE
  /\ live = {}

\* The whole range is one free node.
AfterReset == insertNodeIntoBin(Constructed, Size, 0)

setup ==
  /\ ~has_arrays /\ self.m_freeOffset = MaxAllocs - 1
  /\ has_arrays' = TRUE
  /\ self' = AfterReset
  /\ UNCHANGED <<crashed, live>>

reset ==
  /\ has_arrays /\ ~crashed
  /\ self' = AfterReset
  /\ live' = {}
  /\ UNCHANGED <<has_arrays, crashed>>

teardown ==
  /\ has_arrays /\ ~crashed
  /\ self' = Constructed
  /\ has_arrays' = FALSE
  /\ live' = {}
  /\ UNCHANGED crashed

\* The move constructor, seen from the object moved from: the allocations
\* belong to the new object.  m_freeStorage is not cleared.
MoveAway ==
  /\ has_arrays /\ ~crashed
  /\ self' = [Constructed EXCEPT !.m_freeStorage = self.m_freeStorage, !.m_freeOffset = 0]
  /\ has_arrays' = FALSE
  /\ live' = {}
  /\ UNCHANGED crashed

\* The destructor, and the constructor of the next allocator.
Destroy ==
  /\ ~crashed
  /\ self' = Constructed
  /\ has_arrays' = FALSE
  /\ live' = {}
  /\ UNCHANGED crashed

\* "Out of allocations?"
AllocateOutOfAllocations ==
  /\ ~crashed
  /\ self.m_freeOffset = 0
  /\ UNCHANGED vars

AllocateOutOfSpace(size) ==
  /\ ~crashed
  /\ self.m_freeOffset # 0
  /\ FindBin(self, size) = NO_SPACE
  /\ UNCHANGED vars

\* The first node of the bin is marked as used and leaves the bin.
PopNode(s, bin, size) ==
  LET n      == s.m_binIndices[bin]
      next   == s.m_nodes[n].binListNext
      popped == [s EXCEPT
                  !.m_nodes = SetPrev([@ EXCEPT ![n].dataSize = size, ![n].binListNext = CLEARED,
                                              ![n].binListPrev = CLEARED], next, NIL),
                  !.m_nodeUsed = @ \cup {n},
                  !.m_binIndices[bin] = next,
                  !.m_freeStorage = @ - s.m_nodes[n].dataSize]
  IN  IF next = NIL THEN UnmarkBin(popped, bin) ELSE popped

\* "if (n != NIL) m_neighbors[n].prev = p", and the same for next.
SetLeft(neighbors, n, p) == IF n = NIL THEN neighbors ELSE [neighbors EXCEPT ![n].prev = p]
SetRight(neighbors, n, p) == IF n = NIL THEN neighbors ELSE [neighbors EXCEPT ![n].next = p]

\* The rest of the region becomes a free node of its own, to the right of node
\* n.  Without a node left the code writes m_neighbors[NIL].
AllocateTakes(size) ==
  LET bin    == FindBin(self, size)
      n      == self.m_binIndices[bin]
      total  == self.m_nodes[n].dataSize
      offset == self.m_nodes[n].dataOffset
      popped == PopNode(self, bin, size)
      new    == SpareNode(popped)
      rest   == insertNodeIntoBin(popped, total - size, offset + size)
      right  == rest.m_neighbors[n].next
      linked == [SetLeft(rest.m_neighbors, right, new) EXCEPT
                  ![new] = [prev |-> n, next |-> right], ![n].next = new]
  IN  /\ has_arrays /\ ~crashed
      /\ self.m_freeOffset # 0
      /\ bin # NO_SPACE
      /\ Cardinality(live) < MaxLive
      /\ crashed' = (total > size /\ new = NIL)
      /\ self' = CASE total = size              -> popped
                   [] total > size /\ new = NIL -> rest
                   [] OTHER -> [rest EXCEPT !.m_neighbors = linked]
      /\ live' = IF crashed' THEN live
                 ELSE live \cup {[offset |-> offset, len |-> size, node |-> n]}
      /\ UNCHANGED has_arrays

\* A neighbour that exists and is not used is free.
IsFree(s, n) == n # NIL /\ n \notin s.m_nodeUsed

\* Mutant: only the free node to the right is merged.
MergeLeft_Never(s, n) == s

\* Mutant: the combined region starts where n did.
MergeLeft_KeepsOffset(s, n) ==
  LET left == s.m_neighbors[n].prev
  IN  IF ~IsFree(s, left) THEN s
      ELSE [removeNodeFromBin(s, left) EXCEPT
             !.m_nodes[n].dataSize = @ + s.m_nodes[left].dataSize,
             !.m_neighbors[n].prev = s.m_neighbors[left].prev]

\* The free node to the left of n, if there is one, is taken into n.
MergeLeft(s, n) ==
  LET left == s.m_neighbors[n].prev
  IN  IF ~IsFree(s, left) THEN s
      ELSE [removeNodeFromBin(s, left) EXCEPT
             !.m_nodes[n].dataOffset = s.m_nodes[left].dataOffset,
             !.m_nodes[n].dataSize = @ + s.m_nodes[left].dataSize,
             !.m_neighbors[n].prev = s.m_neighbors[left].prev]

\* And so is the one to the right.
MergeRight(s, n) ==
  LET right == s.m_neighbors[n].next
  IN  IF ~IsFree(s, right) THEN s
      ELSE [removeNodeFromBin(s, right) EXCEPT
             !.m_nodes[n].dataSize = @ + s.m_nodes[right].dataSize,
             !.m_neighbors[n].next = s.m_neighbors[right].next]

\* The offset and size of the combined region are kept in the node itself here,
\* in local variables in the code.  n goes to the freelist and comes back.
Free(x) ==
  LET n      == x.node
      merged == MergeRight(MergeLeft(self, n), n)
      left   == merged.m_neighbors[n].prev
      right  == merged.m_neighbors[n].next
      pushed == PushSpare(merged, n)
      c      == SpareNode(pushed)
      freed  == insertNodeIntoBin(pushed, merged.m_nodes[n].dataSize, merged.m_nodes[n].dataOffset)
      links  == SetRight(SetLeft(freed.m_neighbors, right, c), left, c)
  IN  /\ has_arrays /\ ~crashed
      /\ self' = [freed EXCEPT !.m_neighbors = [links EXCEPT ![c] = [prev |-> left, next |-> right]]]
      /\ live' = live \ {x}
      /\ UNCHANGED <<has_arrays, crashed>>

\* Without arrays free returns at once.
FreeIgnored ==
  /\ ~has_arrays
  /\ UNCHANGED vars

Next ==
  \/ setup \/ reset \/ teardown \/ MoveAway \/ Destroy
  \/ AllocateOutOfAllocations
  \/ \E size \in Requests : AllocateOutOfSpace(size)
  \/ \E size \in Requests : AllocateTakes(size)
  \/ \E x \in live : Free(x)
  \/ FreeIgnored

Spec == Init /\ [][Next]_vars

-----------------------------------------------------------------------------
(* The nodes by what they are for.                                         *)

\* The nodes of a list from its head on, after at most MaxAllocs links.
ListFrom(head) ==
  LET onward == [nodes \in SUBSET Nodes |->
                   nodes \cup ({self.m_nodes[n].binListNext : n \in nodes} \cap Nodes)]
  IN  IF head = NIL THEN {} ELSE StatesOf(onward, {head})[MaxAllocs]

SpareNodes == ListFrom(self.m_freeListHead) \cup self.m_freeIndex..MaxAllocs-1
FreeIn(bin) == ListFrom(self.m_binIndices[bin])
FreeNodes == UNION {FreeIn(b) : b \in Bins}
LiveNodes == {x.node : x \in live}

EndOf(n) == self.m_nodes[n].dataOffset + self.m_nodes[n].dataSize

\* The links back match the links forth in the list that starts at head.
ListCoherent(head) ==
  \A n \in ListFrom(head) :
    /\ (self.m_nodes[n].binListPrev = NIL) <=> (n = head)
    /\ \A m \in ListFrom(head) :
         self.m_nodes[m].binListPrev = n <=> self.m_nodes[n].binListNext = m

-----------------------------------------------------------------------------
(* Properties                                                              *)

\* Types: m_freeStorage never underflows, every link is to a node.
TypeOK ==
  /\ self.m_freeStorage \in Nat
  /\ self.m_usedBinsTop \subseteq Tops
  /\ self.m_usedBins \subseteq Bins
  /\ self.m_binIndices \in [Bins -> Nodes \cup {NIL}]
  /\ self.m_nodes \in [Nodes -> [dataOffset : 0..Size, dataSize : 0..Size,
                                 binListPrev : Nodes \cup {NIL, CLEARED},
                                 binListNext : Nodes \cup {NIL, CLEARED}]]
  /\ self.m_neighbors \in [Nodes -> [prev : Nodes \cup {NIL}, next : Nodes \cup {NIL}]]
  /\ self.m_nodeUsed \subseteq Nodes
  /\ self.m_freeIndex \in 0..MaxAllocs
  /\ self.m_freeListHead \in Nodes \cup {NIL}
  /\ self.m_freeOffset \in 0..MaxAllocs-1
  /\ has_arrays \in BOOLEAN /\ crashed \in BOOLEAN
  /\ live \subseteq [offset : 0..Size, len : 0..Size, node : Nodes]

Sound == has_arrays /\ ~crashed

\* Every node is spare, free in one bin, or that of one live allocation: none
\* leaks and none is handed out twice, over any sequence of allocate and free.
NodesPartitioned ==
  Sound =>
    LET spare == SpareNodes
        free  == FreeNodes
        used  == LiveNodes
    IN
    /\ spare \cup free \cup used = Nodes
    /\ spare \cap (free \cup used) = {}
    /\ free \cap used = {}
    /\ used = self.m_nodeUsed
    /\ \A a, b \in Bins : a # b => FreeIn(a) \cap FreeIn(b) = {}
    /\ \A x, y \in live : x.node = y.node => x = y

\* A free node is in the bin of its size, the lists are doubly linked, and the
\* two bitmaps name exactly the bins and groups with a free node.
BinsCoherent ==
  Sound =>
    /\ self.m_usedBins = {b \in Bins : FreeIn(b) # {}}
    /\ self.m_usedBinsTop = {TopOf(b) : b \in self.m_usedBins}
    /\ \A b \in Bins :
         /\ ListCoherent(self.m_binIndices[b])
         /\ \A n \in FreeIn(b) : U32ToF32RoundDown(self.m_nodes[n].dataSize) = b

\* The memory of the nodes is accounted for after every sequence of allocate and
\* free: every node is in exactly one place, the bins and both bitmaps agree with
\* the lists of nodes, and no number or link leaves its range.
NodesAccounted == TypeOK /\ NodesPartitioned /\ BinsCoherent

\* free merges: two free nodes are never neighbours, so with nothing live the
\* range is one free node again (test_allocator_offset.cpp:174, "Should be
\* 100% clean").
Coalesced ==
  Sound =>
    LET free == FreeNodes
    IN  /\ \A n \in free : self.m_neighbors[n].next \notin free
        /\ live = {} => \E n \in Nodes : free = {n} /\ self.m_nodes[n].dataSize = Size

NeighborsTile ==
  Sound =>
    LET tiles == FreeNodes \cup LiveNodes
    IN
    \A n \in tiles :
      LET prev == self.m_neighbors[n].prev
          next == self.m_neighbors[n].next
      IN  /\ IF next = NIL THEN EndOf(n) = Size
             ELSE /\ next \in tiles
                  /\ self.m_neighbors[next].prev = n
                  /\ self.m_nodes[next].dataOffset = EndOf(n)
          /\ prev = NIL => self.m_nodes[n].dataOffset = 0
          /\ \A m \in tiles : prev = NIL /\ self.m_neighbors[m].prev = NIL => m = n

\* From neighbour to neighbour the nodes tile the range: each one ends where the
\* next one starts, and only the last one, which ends the range, has no next.
\* What is free is one node as far as it reaches.
Tiling == NeighborsTile /\ Coalesced

\* The node of a live allocation keeps its offset and size until it is freed
\* (allocationSize answers for it), and m_freeStorage is what they all leave.
StorageAccounted ==
  Sound =>
    /\ \A x \in live : /\ self.m_nodes[x.node].dataOffset = x.offset
                       /\ allocationSize(x) = x.len
    /\ self.m_freeStorage = Size - MapThenSumSet(LAMBDA x : x.len, live)

\* The search finds a region that is large enough, or none is that is in a bin
\* that serves the size: a request fails by at most the rounding of its bin.
SearchIsGoodFit ==
  Sound =>
    \A size \in Requests :
      LET bin == FindBin(self, size)
      IN  IF bin = NO_SPACE
          THEN \A n \in FreeNodes : self.m_nodes[n].dataSize < F32ToU32(BinFor(size))
          ELSE /\ self.m_binIndices[bin] # NIL
               /\ \A n \in FreeIn(bin) : self.m_nodes[n].dataSize >= size
               /\ \A n \in FreeNodes :
                    self.m_nodes[n].dataSize >= F32ToU32(BinFor(size))
                      => U32ToF32RoundDown(self.m_nodes[n].dataSize) >= bin

\* The reports are true of the nodes after every sequence of calls: what is left is
\* counted, an allocation of the region storageReport calls the largest succeeds,
\* and storageReportFull counts every free region once.
ReportIsHonest ==
  /\ StorageAccounted
  /\ Sound =>
       /\ FreeNodes # {} => FindBin(self, storageReport.largestFreeRegion) # NO_SPACE
       /\ \A n \in FreeNodes : U32ToF32RoundDown(self.m_nodes[n].dataSize)
                                 <= U32ToF32RoundDown(storageReport.largestFreeRegion)
       /\ storageReport.largestFreeRegion <= storageReport.totalFreeSpace
       /\ MapThenSumSet(storageReportFull, Bins) = Cardinality(FreeNodes)

\* Seen by its client this is a region allocator over the range.
Regions == INSTANCE RegionAllocator
             WITH Limit <- Size, live <- {[ptr |-> x.offset, len |-> x.len] : x \in live}

ImplementsRegions == Regions!Spec

=============================================================================
