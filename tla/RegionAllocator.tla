--------------------------- MODULE RegionAllocator ---------------------------
(***************************************************************************)
(* What every allocator of callocator promises its client, whatever its    *)
(* free-space data structure: the addresses 0..Limit-1 are handed out in   *)
(* regions one at a time, and a new region shares no address with a region *)
(* that is still live.                                                     *)
(*                                                                         *)
(* The detailed modules implement this specification; each one says how    *)
(* its own state maps to live.                                             *)
(***************************************************************************)
EXTENDS Integers

CONSTANT Limit      \* the number of addresses the allocator manages

VARIABLE live       \* the regions handed out and not given back

\* A region is a first address and a length.
Region == [ptr : 0..Limit, len : 0..Limit]

InRange(r) == r.ptr + r.len <= Limit

\* The two regions share no address.
Apart(r, s) == r.ptr + r.len <= s.ptr \/ s.ptr + s.len <= r.ptr

Init == live = {}

\* A successful allocate: one new region.
Allocate ==
  \E r \in live' :
    /\ r \in Region /\ InRange(r)
    /\ \A s \in live : Apart(r, s)
    /\ live' = live \cup {r}

\* A deallocate, or an operation that gives back several regions at once,
\* such as the reset of a frame or of the whole allocator.
Release == live' \subseteq live

Next ==
  \/ Allocate
  \/ Release

Spec == Init /\ [][Next]_live

-----------------------------------------------------------------------------

TypeOK == live \subseteq Region

\* Two live regions of an allocator never share an address.
NoOverlap == \A r, s \in live : r # s => Apart(r, s)

\* Every live region lies inside the managed range.
Bounded == \A r \in live : InRange(r)

=============================================================================
