-------------------------- MODULE TemporalSequence --------------------------
(***************************************************************************)
(* g_process_sequence of c_allocator_ts.cpp: allocations whose lifetimes   *)
(* are known beforehand, [alloc_time, free_time), get addresses such that  *)
(* two that live at the same time do not overlap.  In the order of their   *)
(* free times they are put into buckets of allocations that follow each    *)
(* other in time; then each bucket gets an address.                        *)
(*                                                                         *)
(* The allocations of a bucket are a list: the bucket knows the last one,  *)
(* and each one its parent.                                                *)
(***************************************************************************)
EXTENDS Integers, FiniteSets, SequencesExt, Iteration

CONSTANTS
  MaxAllocations,   \* bound: the most allocations of a sequence
  LastTime,         \* time points are 0..LastTime: 0..65535 in the code
  Sizes             \* the sizes of allocations

NIL == 65535        \* 0xFFFF

ASSUME SequenceAssumption ==
  MaxAllocations \in Nat /\ MaxAllocations <= NIL /\ LastTime \in Nat /\ Sizes \subseteq Nat

VARIABLES
  pc,               \* the loop: "buckets", "addresses" or "done"
  allocations,      \* the sequence, from index 0 on
  buckets,          \* in the order of their max_endpoint
  i,                \* the allocation, then the number of the bucket, to process
  node,             \* where the walk along the list of a bucket is
  max_size,         \* the largest size it met
  address           \* the address of the bucket, at the end the memory used

vars == <<pc, allocations, buckets, i, node, max_size, address>>

num_allocations == Cardinality(DOMAIN allocations)
num_buckets == Len(buckets)

-----------------------------------------------------------------------------
(* nsort::sort is external: it leaves the allocations in some order that   *)
(* agrees with the comparison.                                             *)

InOrder(lhs, rhs) ==
  \/ lhs.free_time < rhs.free_time
  \/ lhs.free_time = rhs.free_time /\ lhs.alloc_size >= rhs.alloc_size

Allocation ==
  {a \in [alloc_time : 0..LastTime, free_time : 0..LastTime, alloc_size : Sizes,
          parent : {NIL}, address : {0}] : a.alloc_time < a.free_time}

Init ==
  /\ pc = "buckets"
  /\ \E n \in 0..MaxAllocations :
       /\ allocations \in [0..n - 1 -> Allocation]
       /\ \A k \in 1..n - 1 : InOrder(allocations[k - 1], allocations[k])
  /\ buckets = << >>
  /\ i = 0 /\ node = NIL /\ max_size = 0 /\ address = 0

\* A binary search of left..right-1: where the numbers in passing end.  The range
\* gets smaller with every turn, until it is empty.
Bisect(passing, left, right) ==
  LET turn == [range \in (left..right) \X (left..right) |->
                 LET l   == range[1]
                     r   == range[2]
                     mid == l + (r - l) \div 2
                 IN  IF l = r THEN range
                     ELSE IF mid \in passing THEN <<mid + 1, r>> ELSE <<l, mid>>]
  IN  StatesOf(turn, <<left, right>>)[right - left][1]

\* Mutant: an allocation does not follow one that is freed when it begins.
HasEnded_Strictly(bucket, interval) == interval.alloc_time > bucket.max_endpoint

\* Mutant: an allocation may begin before the last one of the bucket is freed.
HasEnded_Early(bucket, interval) == interval.alloc_time + 1 >= bucket.max_endpoint

HasEnded(bucket, interval) == interval.alloc_time >= bucket.max_endpoint

\* The last bucket the interval can follow, -1 for none.
FoundIndex(interval) ==
  Bisect({k \in 0..num_buckets - 1 : HasEnded(buckets[k + 1], interval)}, 0, num_buckets) - 1

\* The numbers of the buckets that end before a time.
EndBefore(endpoint) == {k \in 0..num_buckets - 1 : buckets[k + 1].max_endpoint < endpoint}

\* Mutant: an allocation is its own parent.
ParentIn_Itself(bucket) == i

ParentIn(bucket) == bucket.list

\* The interval goes to the end of the bucket found, which moves to the place of
\* its new endpoint.
AddToBucket ==
  LET interval == allocations[i]
      found    == FoundIndex(interval)
      bucket   == [list |-> i, max_endpoint |-> interval.free_time]
      place    == Bisect(EndBefore(interval.free_time), found + 1, num_buckets)
  IN  /\ pc = "buckets" /\ i < num_allocations
      /\ found >= 0
      /\ allocations' = [allocations EXCEPT ![i].parent = ParentIn(buckets[found + 1])]
      /\ buckets' = InsertAt(RemoveAt(buckets, found + 1), place, bucket)
      /\ i' = i + 1
      /\ UNCHANGED <<pc, node, max_size, address>>

\* There is no such bucket: a new one.  Behind all others, unless some end earlier.
StartBucket ==
  LET interval == allocations[i]
      bucket   == [list |-> i, max_endpoint |-> interval.free_time]
      earlier  == Bisect(EndBefore(interval.free_time), 0, num_buckets)
      place    == IF earlier = 0 THEN num_buckets ELSE earlier
  IN  /\ pc = "buckets" /\ i < num_allocations
      /\ FoundIndex(interval) < 0
      /\ allocations' = [allocations EXCEPT ![i].parent = NIL]
      /\ buckets' = InsertAt(buckets, place + 1, bucket)
      /\ i' = i + 1
      /\ UNCHANGED <<pc, node, max_size, address>>

\* Bucket k is next, or all have their address.
StartOn(k) ==
  /\ i' = k
  /\ pc' = IF k < num_buckets THEN "addresses" ELSE "done"
  /\ node' = IF k < num_buckets THEN buckets[k + 1].list ELSE NIL
  /\ max_size' = 0

AllInBuckets ==
  /\ pc = "buckets" /\ i = num_allocations
  /\ StartOn(0)
  /\ UNCHANGED <<allocations, buckets, address>>

Larger(size) == IF size > max_size THEN size ELSE max_size

\* One turn of the walk along the parents, and what follows the last one.
HandOut ==
  LET interval == allocations[node]
  IN  /\ pc = "addresses"
      /\ allocations' = [allocations EXCEPT ![node].address = address]
      /\ \/ /\ interval.parent # NIL
            /\ node' = interval.parent
            /\ max_size' = Larger(interval.alloc_size)
            /\ UNCHANGED <<pc, i, address>>
         \/ /\ interval.parent = NIL
            /\ address' = address + Larger(interval.alloc_size)
            /\ StartOn(i + 1)
      /\ UNCHANGED buckets

Next ==
  \/ AddToBucket
  \/ StartBucket
  \/ AllInBuckets
  \/ HandOut

\* The loops of a single call: nothing keeps it from going on.
Spec == Init /\ [][Next]_vars /\ WF_vars(Next)

-----------------------------------------------------------------------------
(* Properties                                                              *)

LiveAt(a, t) == a.alloc_time <= t /\ t < a.free_time

Overlap(a, b) == \E t \in 0..LastTime : LiveAt(a, t) /\ LiveAt(b, t)

EndOf(a) == a.address + a.alloc_size

\* "If intervals i and j overlap in time, then [..) and [..) must be disjoint"
\* (c_allocator_ts.h:26), and the memory reported is that up to the last of them.
OverlapApart ==
  pc = "done" =>
    /\ \A j, k \in DOMAIN allocations :
         j # k /\ Overlap(allocations[j], allocations[k])
           => \/ EndOf(allocations[j]) <= allocations[k].address
              \/ EndOf(allocations[k]) <= allocations[j].address
    /\ \A j \in DOMAIN allocations : EndOf(allocations[j]) <= address
    /\ address > 0 => \E j \in DOMAIN allocations : EndOf(allocations[j]) = address

\* The allocations that have a bucket.
Processed == IF pc = "buckets" THEN 0..i - 1 ELSE DOMAIN allocations

\* There are never more buckets than allocations that live at the same time: the
\* order of the buckets, which the binary searches rely on, stays that of their
\* endpoints, and the last bucket an interval can follow is always found.
FewestBuckets ==
  LET depth(t) == Cardinality({j \in Processed : LiveAt(allocations[j], t)})
  IN  /\ \A t \in 0..LastTime : depth(t) <= num_buckets
      /\ \E t \in 0..LastTime : depth(t) = num_buckets

\* Every list ends: the call returns.
Terminates == <>(pc = "done")

=============================================================================
