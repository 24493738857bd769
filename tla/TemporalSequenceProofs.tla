----------------------- MODULE TemporalSequenceProofs -----------------------
(***************************************************************************)
(* Proofs about TemporalSequence, for sequences of any length over any     *)
(* time points: what lives at the same time has addresses apart, and there *)
(* are never more buckets than allocations that live at the same time.     *)
(***************************************************************************)
EXTENDS TemporalSequence, Arithmetic, FiniteSetTheorems, TLAPS

-----------------------------------------------------------------------------
(* The binary search                                                       *)

\* It ends in the range, behind a number that passes unless it is the first, and
\* in front of one that does not pass unless that is the end.
LEMMA BisectEnds ==
  ASSUME NEW passing, NEW left \in Int, NEW right \in Int, left <= right
  PROVE  LET found == Bisect(passing, left, right)
         IN  /\ found \in left..right
             /\ found = left \/ found - 1 \in passing
             /\ found = right \/ found \notin passing
  <1> DEFINE turn == [range \in (left..right) \X (left..right) |->
                       LET l   == range[1]
                           r   == range[2]
                           mid == l + (r - l) \div 2
                       IN  IF l = r THEN range
                           ELSE IF mid \in passing THEN <<mid + 1, r>> ELSE <<l, mid>>]
             Ranges == {w \in (left..right) \X (left..right) : w[1] <= w[2]}
             at == StatesOf(turn, <<left, right>>)
  <1>1. ASSUME NEW l \in left..right, NEW r \in left..right, l < r
        PROVE  l + (r - l) \div 2 \in l..r-1
    BY <1>1, SMT
  <1>2. ASSUME NEW l \in left..right, NEW r \in left..right, l <= r
        PROVE  turn[<<l, r>>] = IF l = r THEN <<l, r>>
                                ELSE IF l + (r - l) \div 2 \in passing
                                     THEN <<l + (r - l) \div 2 + 1, r>>
                                     ELSE <<l, l + (r - l) \div 2>>
    OBVIOUS
  <1> HIDE DEF turn
  <1>3. ASSUME NEW w \in Ranges PROVE turn[w] \in Ranges
    <2>1. PICK l \in left..right, r \in left..right : w = <<l, r>> /\ l <= r
      OBVIOUS
    <2> DEFINE mid == l + (r - l) \div 2
    <2>2. l < r => mid \in l..r-1
      BY <1>1
    <2> HIDE DEF mid
    <2>3. turn[w] = IF l = r THEN <<l, r>>
                    ELSE IF mid \in passing THEN <<mid + 1, r>> ELSE <<l, mid>>
      BY <1>2, <2>1 DEF mid
    <2> QED BY <2>1, <2>2, <2>3
  <1>4. /\ at \in [Nat -> Ranges] /\ at[0] = <<left, right>>
        /\ \A n \in Nat : at[n + 1] = turn[at[n]]
    <2>1. <<left, right>> \in Ranges
      OBVIOUS
    <2> HIDE DEF Ranges
    <2> QED BY <1>3, <2>1, StatesOfLoop DEF Loops
  <1> HIDE DEF at
  <1> DEFINE Good == {n \in Nat : /\ at[n][1] = left \/ at[n][1] - 1 \in passing
                                  /\ at[n][2] = right \/ at[n][2] \notin passing
                                  /\ \/ at[n][1] = at[n][2]
                                     \/ at[n][2] - at[n][1] <= (right - left) - n}
  <1>5. Nat \subseteq Good
    <2>1. 0 \in Good
      BY <1>4
    <2>2. ASSUME NEW n \in Nat, n \in Good PROVE n + 1 \in Good
      <3>1. PICK l \in left..right, r \in left..right : at[n] = <<l, r>> /\ l <= r
        <4>1. at[n] \in Ranges
          BY <1>4
        <4> QED BY <4>1
      <3> DEFINE mid == l + (r - l) \div 2
      <3>2. l < r => mid \in l..r-1
        BY <1>1
      <3> HIDE DEF mid
      <3>3. at[n + 1] = IF l = r THEN <<l, r>>
                        ELSE IF mid \in passing THEN <<mid + 1, r>> ELSE <<l, mid>>
        BY <1>2, <1>4, <3>1 DEF mid
      <3>4. /\ l = left \/ l - 1 \in passing
            /\ r = right \/ r \notin passing
            /\ l = r \/ r - l <= (right - left) - n
        BY <2>2, <3>1
      <3>5. CASE l = r
        BY <3>3, <3>4, <3>5
      <3>6. CASE l # r /\ mid \in passing
        <4>1. at[n + 1][1] = mid + 1 /\ at[n + 1][2] = r
          BY <3>3, <3>6
        <4>2. (mid + 1) - 1 \in passing /\ r - (mid + 1) <= (right - left) - (n + 1)
          BY <3>1, <3>2, <3>4, <3>6
        <4> QED BY <4>1, <4>2, <3>4
      <3>7. CASE l # r /\ mid \notin passing
        <4>1. at[n + 1][1] = l /\ at[n + 1][2] = mid
          BY <3>3, <3>7
        <4>2. mid - l <= (right - left) - (n + 1)
          BY <3>1, <3>2, <3>4, <3>7
        <4> QED BY <4>1, <4>2, <3>4, <3>7
      <3> QED BY <3>5, <3>6, <3>7
    <2> HIDE DEF Good
    <2> QED BY <2>1, <2>2, NatSetInduction
  <1>6. right - left \in Nat
    OBVIOUS
  <1>7. at[right - left] \in Ranges /\ right - left \in Good
    BY <1>4, <1>5, <1>6
  <1>8. Bisect(passing, left, right) = at[right - left][1]
    BY DEF Bisect, at, turn
  <1> QED BY <1>6, <1>7, <1>8

-----------------------------------------------------------------------------
(* The buckets as a sequence                                               *)

\* Where the bucket at place k comes from when the one at f is replaced by another
\* that is put at place p.
CameFrom(k, f, p) == IF k < p THEN (IF k < f THEN k ELSE k + 1)
                     ELSE (IF k - 1 < f THEN k - 1 ELSE k)

LEMMA ConcatenationIs ==
  ASSUME NEW T, NEW u \in Seq(T), NEW v \in Seq(T)
  PROVE  u \o v \in Seq(T) /\ Len(u \o v) = Len(u) + Len(v)
  OBVIOUS

LEMMA RemoveAtIs ==
  ASSUME NEW T, NEW s \in Seq(T), NEW f \in 1..Len(s)
  PROVE  /\ RemoveAt(s, f) \in Seq(T)
         /\ Len(RemoveAt(s, f)) = Len(s) - 1
         /\ \A k \in 1..Len(s) - 1 :
              RemoveAt(s, f)[k] = IF k < f THEN s[k] ELSE s[k + 1]
  <1> DEFINE u == SubSeq(s, 1, f - 1)
             v == SubSeq(s, f + 1, Len(s))
  <1>1. Len(s) \in Nat /\ f \in Nat /\ f >= 1 /\ f <= Len(s)
    OBVIOUS
  <1>2. u \in Seq(T) /\ Len(u) = f - 1 /\ \A k \in 1..f - 1 : u[k] = s[k]
    BY <1>1, SMT
  <1>3. v \in Seq(T) /\ Len(v) = Len(s) - f /\ \A k \in 1..Len(s) - f : v[k] = s[k + f]
    BY <1>1, SMTT(30)
  <1>4. RemoveAt(s, f) = u \o v
    BY DEF RemoveAt
  <1> HIDE DEF u, v
  <1>5. u \o v \in Seq(T) /\ Len(u \o v) = Len(s) - 1
    <2>1. u \in Seq(T) /\ v \in Seq(T) /\ Len(u) = f - 1 /\ Len(v) = Len(s) - f
      BY ONLY <1>2, <1>3
    <2>2. u \o v \in Seq(T) /\ Len(u \o v) = Len(u) + Len(v)
      BY ONLY <2>1, ConcatenationIs
    <2> QED BY ONLY <1>1, <2>1, <2>2
  <1>6. ASSUME NEW k \in 1..Len(s) - 1
        PROVE  (u \o v)[k] = IF k < f THEN s[k] ELSE s[k + 1]
    <2>1. CASE k < f
      BY <1>1, <1>2, <1>3, <2>1
    <2>2. CASE ~(k < f)
      <3>1. k - (f - 1) \in 1..Len(s) - f /\ (k - (f - 1)) + f = k + 1
        BY <1>1, <2>2
      <3>2. (u \o v)[k] = v[k - (f - 1)]
        BY <1>1, <1>2, <1>3, <2>2
      <3> QED BY <1>3, <2>2, <3>1, <3>2
    <2> QED BY <2>1, <2>2
  <1> QED BY <1>4, <1>5, <1>6

LEMMA InsertAtIs ==
  ASSUME NEW T, NEW s \in Seq(T), NEW p \in 1..Len(s) + 1, NEW e \in T
  PROVE  /\ InsertAt(s, p, e) \in Seq(T)
         /\ Len(InsertAt(s, p, e)) = Len(s) + 1
         /\ \A k \in 1..Len(s) + 1 :
              InsertAt(s, p, e)[k] = IF k < p THEN s[k] ELSE IF k = p THEN e ELSE s[k - 1]
  BY SMTT(30) DEF InsertAt

InsertedAt(T, s, p, e, t) ==
  /\ t \in Seq(T) /\ Len(t) = Len(s) + 1
  /\ \A k \in 1..Len(s) + 1 :
       t[k] = IF k < p THEN s[k] ELSE IF k = p THEN e ELSE s[k - 1]

LEMMA InsertAtInserts ==
  ASSUME NEW T, NEW s \in Seq(T), NEW p \in 1..Len(s) + 1, NEW e \in T
  PROVE  InsertedAt(T, s, p, e, InsertAt(s, p, e))
  BY InsertAtIs DEF InsertedAt

\* The bucket at f goes, another one comes to place p.
Replaced(s, f, p, e) == InsertAt(RemoveAt(s, f), p, e)

ReplacedAt(s, f, p, e, t) ==
  /\ Len(t) = Len(s) /\ t[p] = e
  /\ \A k \in 1..Len(s) \ {p} : /\ CameFrom(k, f, p) \in 1..Len(s) \ {f}
                                /\ t[k] = s[CameFrom(k, f, p)]
  /\ \A a \in 1..Len(s) \ {f} : \E k \in 1..Len(s) \ {p} : t[k] = s[a]

LEMMA ReplacedIs ==
  ASSUME NEW T, NEW s \in Seq(T), NEW f \in 1..Len(s), NEW p \in 1..Len(s), NEW e \in T
  PROVE  /\ Replaced(s, f, p, e) \in Seq(T)
         /\ ReplacedAt(s, f, p, e, Replaced(s, f, p, e))
  <1> DEFINE r == RemoveAt(s, f)
             t == InsertAt(r, p, e)
  <1>1. /\ r \in Seq(T) /\ Len(r) = Len(s) - 1
        /\ \A k \in 1..Len(s) - 1 : r[k] = IF k < f THEN s[k] ELSE s[k + 1]
    BY RemoveAtIs
  <1> HIDE DEF r
  <1>2. /\ t \in Seq(T) /\ Len(t) = Len(s)
        /\ \A k \in 1..Len(s) : t[k] = IF k < p THEN r[k] ELSE IF k = p THEN e ELSE r[k - 1]
    BY <1>1, InsertAtIs
  <1> HIDE DEF t
  <1>3. ASSUME NEW k \in 1..Len(s) \ {p}
        PROVE  CameFrom(k, f, p) \in 1..Len(s) \ {f} /\ t[k] = s[CameFrom(k, f, p)]
    BY <1>1, <1>2 DEF CameFrom
  <1>4. ASSUME NEW a \in 1..Len(s) \ {f}
        PROVE  \E k \in 1..Len(s) \ {p} : t[k] = s[a]
    <2> DEFINE b == IF a < f THEN a ELSE a - 1
               k == IF b < p THEN b ELSE b + 1
    <2>1. b \in 1..Len(s) - 1 /\ r[b] = s[a]
      BY <1>1
    <2>2. k \in 1..Len(s) \ {p} /\ t[k] = r[b]
      BY <1>2, <2>1
    <2> QED BY <2>1, <2>2
  <1>5. Replaced(s, f, p, e) = t
    BY DEF t, r, Replaced
  <1>6. t[p] = e
    BY <1>2
  <1> QED BY <1>2, <1>3, <1>4, <1>5, <1>6 DEF ReplacedAt

-----------------------------------------------------------------------------
(* The inductive invariant                                                 *)

Index == 0..num_allocations - 1

Slot == [alloc_time : 0..LastTime, free_time : 0..LastTime, alloc_size : Sizes,
         parent : Nat, address : Nat]

Bucket == [list : Index, max_endpoint : 0..LastTime]

TypeOK ==
  /\ pc \in {"buckets", "addresses", "done"}
  /\ num_allocations \in 0..MaxAllocations
  /\ allocations \in [Index -> Slot]
  /\ \A j \in Index : allocations[j].alloc_time < allocations[j].free_time
  /\ buckets \in Seq(Bucket)
  /\ i \in Nat /\ node \in Nat /\ max_size \in Nat /\ address \in Nat

\* The bucket of an allocation is known by the first allocation it got, root[j]:
\* that stays the same when the bucket moves and gets further ones.
Follows(root, j, k) == root[j] = root[k] => allocations[j].free_time <= allocations[k].alloc_time

\* The parent of j is the last allocation before j in the same bucket.
ParentIsLast(root, j) ==
  LET p == allocations[j].parent
  IN  IF p = NIL THEN \A k \in 0..j - 1 : root[k] # root[j]
      ELSE /\ p \in 0..j - 1 /\ root[p] = root[j]
           /\ \A k \in p + 1..j - 1 : root[k] # root[j]

\* The list of a bucket starts at its last allocation.
HeadIsLast(root, bucket, n) ==
  /\ bucket.list \in 0..n - 1
  /\ bucket.max_endpoint = allocations[bucket.list].free_time
  /\ \A k \in bucket.list + 1..n - 1 : root[k] # root[bucket.list]

RootOf(root, b) == root[buckets[b].list]

\* The sequence is sorted by the ends.
Starts == [j \in Index |-> allocations[j].alloc_time]
Ends   == [j \in Index |-> allocations[j].free_time]
SortedByEnd == \A j, k \in Index : j <= k => Ends[j] <= Ends[k]

\* The buckets 1..N, with endpoints E and roots R, are in order, and just before the
\* endpoint of a bucket an allocation of each later one is alive.
Tight(N, E, R, root, starts, ends, n) ==
  /\ \A a, b \in 1..N : a <= b => E[a] <= E[b]
  /\ \A a, b \in 1..N : E[a] <= E[b] =>
       \E x \in 0..n - 1 : root[x] = R[b] /\ starts[x] < E[a] /\ E[a] <= ends[x]

EndPoints   == [b \in 1..num_buckets |-> buckets[b].max_endpoint]
Roots(root) == [b \in 1..num_buckets |-> RootOf(root, b)]

TightBuckets(root, n) == Tight(num_buckets, EndPoints, Roots(root), root, Starts, Ends, n)

\* The first n allocations are in buckets, and follow each other there.
InBuckets(root, n) ==
  /\ SortedByEnd /\ TightBuckets(root, n)
  /\ \A j \in 0..n - 1 : root[j] \in 0..j
  /\ \A k \in 0..n - 1 : \A j \in 0..k - 1 : Follows(root, j, k)
  /\ \A j \in 0..n - 1 : ParentIsLast(root, j)
  /\ \A b \in 1..num_buckets : HeadIsLast(root, buckets[b], n)
  /\ \A a, b \in 1..num_buckets : a # b => RootOf(root, a) # RootOf(root, b)
  /\ \A j \in 0..n - 1 : \E b \in 1..num_buckets : RootOf(root, b) = root[j]

\* The allocations that have their address: those of the first i buckets, and in
\* the next one those the walk has left behind.
Placed(root, j) == \E b \in 1..i : RootOf(root, b) = root[j]

Visited(root, j) == root[j] = RootOf(root, i + 1) /\ j > node

PlacedApart(root) ==
  /\ \A j \in Index : Placed(root, j) => EndOf(allocations[j]) <= address
  /\ \A j, k \in Index :
       Placed(root, j) /\ Placed(root, k) /\ root[j] # root[k]
         => \/ EndOf(allocations[j]) <= allocations[k].address
            \/ EndOf(allocations[k]) <= allocations[j].address
  /\ address > 0 => \E j \in Index : Placed(root, j) /\ EndOf(allocations[j]) = address

Walking(root) ==
  /\ i < num_buckets
  /\ node \in Index /\ root[node] = RootOf(root, i + 1)
  /\ \A j \in Index : Visited(root, j) => /\ allocations[j].address = address
                                          /\ allocations[j].alloc_size <= max_size
  /\ max_size > 0 => \E j \in Index : Visited(root, j) /\ allocations[j].alloc_size = max_size

BucketsInv(root) ==
  /\ InBuckets(root, IF pc = "buckets" THEN i ELSE num_allocations)
  /\ pc = "buckets" => i <= num_allocations /\ address = 0
  /\ pc # "buckets" => PlacedApart(root)
  /\ pc = "addresses" => Walking(root)
  /\ pc = "done" => i = num_buckets

IInv == TypeOK /\ \E root \in [Index -> Index] : BucketsInv(root)

LEMMA MaxAllocationsBound == MaxAllocations \in Nat /\ MaxAllocations <= NIL
  BY SequenceAssumption

LEMMA NumAllocations ==
  ASSUME TypeOK
  PROVE  num_allocations \in Nat /\ num_allocations <= NIL
  BY MaxAllocationsBound, SMT DEF TypeOK, NIL

LEMMA Times ==
  ASSUME TypeOK, NEW j \in Index
  PROVE  /\ allocations[j].alloc_time \in Nat /\ allocations[j].free_time \in Nat
         /\ allocations[j].alloc_time < allocations[j].free_time
  <1>1. LastTime \in Nat
    BY SequenceAssumption
  <1>2. allocations[j] \in Slot /\ allocations[j].alloc_time < allocations[j].free_time
    BY DEF TypeOK
  <1> QED BY ONLY <1>1, <1>2 DEF Slot

LEMMA Initially == Init => IInv
  <1> SUFFICES ASSUME Init PROVE IInv
    OBVIOUS
  <1>1. PICK n \in 0..MaxAllocations : allocations \in [0..n - 1 -> Allocation]
    BY DEF Init
  <1>2. num_allocations = n
    <2>1. n \in Nat /\ DOMAIN allocations = 0..n - 1
      BY <1>1, MaxAllocationsBound
    <2>2. Cardinality(0..n - 1) = n
      BY <2>1, FS_Interval
    <2> QED BY <2>1, <2>2 DEF num_allocations
  <1>3. num_buckets = 0 /\ i = 0 /\ buckets = << >> /\ pc = "buckets" /\ address = 0
    BY DEF Init, num_buckets
  <1>4. TypeOK
    <2>1. \A a \in Allocation : a \in Slot /\ a.alloc_time < a.free_time
      BY DEF Allocation, Slot, NIL
    <2>2. allocations \in [Index -> Slot]
      BY <1>1, <1>2, <2>1 DEF Index
    <2>3. \A j \in Index : allocations[j].alloc_time < allocations[j].free_time
      BY <1>1, <1>2, <2>1 DEF Index
    <2>4. buckets \in Seq(Bucket)
      BY <1>3
    <2> QED BY <1>2, <2>2, <2>3, <2>4 DEF TypeOK, Init, NIL
  <1> DEFINE root == [j \in Index |-> j]
  <1>6. SortedByEnd
    <2>1. /\ n \in Nat /\ \A k \in 1..n - 1 : InOrder(allocations[k - 1], allocations[k])
          /\ Index = 0..n - 1
      BY <1>1, <1>2, MaxAllocationsBound DEF Init, Index
    <2>2. \A j \in Index : Ends[j] = allocations[j].free_time /\ Ends[j] \in Nat
      BY <1>4, Times DEF Ends
    <2>3. \A k \in 1..n - 1 : Ends[k - 1] <= Ends[k]
      BY <2>1, <2>2 DEF InOrder
    <2> HIDE DEF Ends
    <2> DEFINE Below == {d \in Nat : \A j \in Index : j + d \in Index => Ends[j] <= Ends[j + d]}
    <2>4. 0 \in Below
      <3>1. \A j \in Index : j + 0 = j
        BY <2>1
      <3> QED BY <2>2, <3>1
    <2>5. ASSUME NEW d \in Nat, d \in Below PROVE d + 1 \in Below
      <3> SUFFICES ASSUME NEW j \in Index, j + (d + 1) \in Index PROVE Ends[j] <= Ends[j + (d + 1)]
        OBVIOUS
      <3>1. j + d \in Index /\ (j + d) + 1 \in 1..n - 1 /\ ((j + d) + 1) - 1 = j + d
        BY <2>1
      <3>2. Ends[j] <= Ends[j + d]
        BY <2>5, <3>1
      <3>3. Ends[j + d] <= Ends[(j + d) + 1]
        BY <2>3, <3>1
      <3>4. (j + d) + 1 = j + (d + 1)
        BY <2>1
      <3> QED BY <2>2, <3>1, <3>2, <3>3, <3>4
    <2>6. Nat \subseteq Below
      <3> HIDE DEF Below
      <3> QED BY <2>4, <2>5, NatSetInduction
    <2>7. ASSUME NEW j \in Index, NEW k \in Index, j <= k PROVE Ends[j] <= Ends[k]
      <3>1. k - j \in Nat /\ j + (k - j) = k
        BY <2>1, <2>7
      <3>2. k - j \in Below
        BY <2>6, <3>1
      <3> QED BY <3>1, <3>2
    <2> QED BY <2>7 DEF SortedByEnd
  <1>7. TightBuckets(root, 0)
    BY <1>3 DEF TightBuckets, Tight
  <1>5. BucketsInv(root)
    BY <1>2, <1>3, <1>6, <1>7, MaxAllocationsBound DEF BucketsInv, InBuckets
  <1> QED BY <1>4, <1>5 DEF IInv

-----------------------------------------------------------------------------
(* The first loop                                                          *)

\* A change of a parent or of an address.
LEMMA Changed ==
  ASSUME TypeOK, NEW j \in Index, NEW new \in Slot, allocations' = [allocations EXCEPT ![j] = new],
         new.alloc_time = allocations[j].alloc_time, new.free_time = allocations[j].free_time
  PROVE  /\ num_allocations' = num_allocations /\ Index' = Index
         /\ allocations' \in [Index -> Slot]
         /\ \A k \in Index : /\ allocations'[k].alloc_time = allocations[k].alloc_time
                             /\ allocations'[k].free_time = allocations[k].free_time
                             /\ allocations'[k].alloc_time < allocations'[k].free_time
                             /\ k # j => allocations'[k] = allocations[k]
         /\ allocations'[j] = new
  <1>1. DOMAIN allocations' = DOMAIN allocations
    BY DEF TypeOK
  <1>2. num_allocations' = num_allocations
    BY <1>1 DEF num_allocations
  <1> QED BY <1>2 DEF TypeOK, Index

\* Allocation m, the next one, gets a bucket: one of its own, or one whose last allocation it
\* follows.
LEMMA NextInBucket ==
  ASSUME TypeOK, NEW m \in Nat, NEW root \in [Index -> Index], InBuckets(root, m), m < num_allocations,
         NEW p \in Nat, NEW R \in Index,
         Index' = Index, allocations'[m].parent = p,
         \A k \in Index : /\ allocations'[k].alloc_time = allocations[k].alloc_time
                          /\ allocations'[k].free_time = allocations[k].free_time
                          /\ k # m => allocations'[k] = allocations[k],
         NEW next \in [Index -> Index], next[m] = R, \A j \in 0..m - 1 : next[j] = root[j],
         \/ p = NIL /\ R = m
         \/ /\ p \in 0..m - 1 /\ root[p] = R
            /\ \A k \in p + 1..m - 1 : root[k] # R
            /\ allocations[p].free_time <= allocations[m].alloc_time
  PROVE  /\ \A j \in 0..m : next[j] \in 0..j
         /\ \A k \in 0..m : \A j \in 0..k - 1 : Follows(next, j, k)'
         /\ \A j \in 0..m : ParentIsLast(next, j)'
  <1>0. \A k \in 0..m - 1 : \A j \in 0..k - 1 : Follows(root, j, k)
    BY DEF InBuckets
  <1>1. /\ m < NIL /\ m \in Index /\ \A j \in 0..m : j \in Index /\ j \in Nat
    BY NumAllocations, SMT DEF Index, NIL
  <1>2. /\ \A j \in 0..m - 1 : next[j] = root[j] /\ j # m
        /\ next[m] = R
    BY <1>1
  <1>4. /\ \A k \in Index : /\ allocations'[k].alloc_time = allocations[k].alloc_time
                            /\ allocations'[k].free_time = allocations[k].free_time
                            /\ k # m => allocations'[k] = allocations[k]
        /\ allocations'[m].parent = p
    OBVIOUS
  <1>5. ASSUME NEW j \in 0..m PROVE next[j] \in 0..j
    BY <1>1, <1>2 DEF InBuckets, Index
  <1>6. ASSUME NEW k \in 0..m, NEW j \in 0..k - 1 PROVE Follows(next, j, k)'
    <2>1. CASE k # m
      <3>1. k \in 0..m - 1 /\ next[j] = root[j] /\ next[k] = root[k]
        BY <1>1, <1>2, <2>1
      <3>2. Follows(root, j, k)
        BY ONLY <1>0, <3>1, <1>6
      <3> QED BY <1>1, <1>2, <1>4, <3>1, <3>2 DEF Follows
    <2>2. CASE k = m
      <3>1. j \in 0..m - 1 /\ next[j] = root[j]
        BY <1>1, <1>2, <2>2
      <3>2. SUFFICES ASSUME root[j] = R
                     PROVE  allocations[j].free_time <= allocations[m].alloc_time
        BY <1>1, <1>2, <1>4, <2>2, <3>1 DEF Follows
      <3>3. root[j] # m
        BY <3>1 DEF InBuckets
      <3>4. /\ p \in 0..m - 1 /\ root[p] = R /\ p \in Index /\ j \in Index
            /\ allocations[p].free_time <= allocations[m].alloc_time
            /\ ~(j \in p + 1..m - 1)
        BY <1>1, <1>2, <3>1, <3>2, <3>3
      <3>5. CASE j = p
        BY <3>4, <3>5
      <3>6. CASE j # p
        <4>1. j \in 0..p - 1
          BY <3>1, <3>4, <3>6
        <4>2. Follows(root, j, p)
          BY <3>4, <4>1 DEF InBuckets
        <4>3. allocations[j].free_time <= allocations[p].alloc_time
          BY <3>2, <3>4, <4>2 DEF Follows
        <4>4. /\ allocations[j].free_time \in Nat /\ allocations[p].free_time \in Nat
              /\ allocations[p].alloc_time \in Nat /\ allocations[m].alloc_time \in Nat
              /\ allocations[p].alloc_time < allocations[p].free_time
          BY <1>1, <3>4, Times
        <4> QED BY ONLY <3>4, <4>3, <4>4
      <3> QED BY <3>5, <3>6
    <2> QED BY <2>1, <2>2
  <1>7. ASSUME NEW j \in 0..m PROVE ParentIsLast(next, j)'
    <2>1. CASE j # m
      <3>1. ParentIsLast(root, j) /\ allocations'[j] = allocations[j] /\ next[j] = root[j]
        BY <1>1, <1>2, <1>4, <2>1, SMTT(60) DEF InBuckets
      <3>2. \A k \in 0..j : next[k] = root[k]
        BY <1>1, <1>2, <2>1
      <3> QED BY <1>1, <1>2, <3>1, <3>2 DEF ParentIsLast, NIL
    <2>2. CASE j = m
      <3>1. allocations'[j].parent = p /\ next[j] = R
        BY <1>1, <1>2, <1>4, <2>2
      <3>2. CASE p = NIL /\ R = m
        <4>1. \A k \in 0..m - 1 : next[k] # R
          BY <1>1, <1>2, <3>2 DEF InBuckets
        <4> QED BY <2>2, <3>1, <3>2, <4>1 DEF ParentIsLast
      <3>3. CASE p \in 0..m - 1 /\ root[p] = R /\ \A k \in p + 1..m - 1 : root[k] # R
        <4>1. p # NIL
          BY <1>1, <1>2, <3>3 DEF NIL
        <4>2. next[p] = R /\ \A k \in p + 1..m - 1 : next[k] # R
          BY <1>1, <1>2, <3>3
        <4> QED BY <2>2, <3>1, <3>3, <4>1, <4>2 DEF ParentIsLast
      <3> QED BY <3>2, <3>3
    <2> QED BY <2>1, <2>2
  <1>8. \A k \in 0..m : \A j \in 0..k - 1 : Follows(next, j, k)'
    BY <1>6
  <1>9. /\ \A j \in 0..m : next[j] \in 0..j
        /\ \A j \in 0..m : ParentIsLast(next, j)'
    BY <1>5, <1>7
  <1> QED BY <1>8, <1>9

\* A bucket that stays keeps its list, whatever the next allocation does.
LEMMA HeadStays ==
  ASSUME TypeOK, NEW m \in Nat, m = i, NEW root \in [Index -> Index], m < num_allocations,
         NEW R \in Index, NEW bucket \in Bucket, HeadIsLast(root, bucket, m),
         root[bucket.list] # R, Index' = Index,
         \A j \in Index : allocations'[j].free_time = allocations[j].free_time,
         NEW next \in [Index -> Index], next[m] = R, \A j \in 0..m - 1 : next[j] = root[j]
  PROVE  HeadIsLast(next, bucket, m + 1)' /\ next[bucket.list] = root[bucket.list]
  <1> DEFINE l == bucket.list
  <1>1. l \in 0..m - 1 /\ l \in Index /\ m \in Index /\ l # m
    BY NumAllocations DEF HeadIsLast, Index
  <1>2. next[l] = root[l] /\ next[m] = R
    BY <1>1
  <1>3. bucket.max_endpoint = allocations'[l].free_time
    BY <1>1 DEF HeadIsLast
  <1>4. ASSUME NEW k \in l + 1..m PROVE next[k] # next[l]
    <2>1. CASE k = m
      BY <1>2, <2>1
    <2>2. CASE k # m
      <3>1. k \in l + 1..m - 1 /\ k \in Index
        BY <1>1, <2>2, NumAllocations DEF Index
      <3> QED BY <1>2, <3>1, <2>2 DEF HeadIsLast
    <2> QED BY <2>1, <2>2
  <1> QED BY <1>1, <1>2, <1>3, <1>4 DEF HeadIsLast

LEMMA NewBucketIs ==
  ASSUME TypeOK, pc = "buckets", i < num_allocations
  PROVE  /\ i \in Index /\ num_buckets \in Nat
         /\ [list |-> i, max_endpoint |-> allocations[i].free_time] \in Bucket
  BY MaxAllocationsBound DEF TypeOK, Index, Bucket, Slot, num_buckets

\* The search for a bucket finds one that has ended when the allocation begins.
LEMMA FoundHasEnded ==
  ASSUME TypeOK, NEW interval
  PROVE  /\ FoundIndex(interval) \in -1..num_buckets - 1
         /\ FoundIndex(interval) >= 0 => HasEnded(buckets[FoundIndex(interval) + 1], interval)
  <1> DEFINE passing == {k \in 0..num_buckets - 1 : HasEnded(buckets[k + 1], interval)}
             found == Bisect(passing, 0, num_buckets)
  <1>1. num_buckets \in Nat
    BY DEF TypeOK, num_buckets
  <1>2. found \in 0..num_buckets /\ (found = 0 \/ found - 1 \in passing)
    <2> HIDE DEF passing
    <2>1. 0 \in Int /\ num_buckets \in Int /\ 0 <= num_buckets
      BY <1>1
    <2> QED BY <2>1, BisectEnds
  <1>3. FoundIndex(interval) = found - 1
    BY DEF FoundIndex
  <1> HIDE DEF found
  <1> QED BY <1>1, <1>2, <1>3

LEMMA PlaceIsInRange ==
  ASSUME TypeOK, NEW endpoint, NEW left \in 0..num_buckets
  PROVE  Bisect(EndBefore(endpoint), left, num_buckets) \in left..num_buckets
  <1>1. num_buckets \in Nat
    BY DEF TypeOK, num_buckets
  <1>2. left \in Int /\ num_buckets \in Int /\ left <= num_buckets
    BY <1>1
  <1> QED BY <1>2, BisectEnds

LEMMA EndsAreNat ==
  ASSUME TypeOK, NEW b \in 1..num_buckets
  PROVE  buckets[b].max_endpoint \in Nat
  <1>1. buckets[b] \in Bucket
    BY DEF TypeOK, num_buckets
  <1>2. LastTime \in Nat
    BY SequenceAssumption
  <1> QED BY <1>1, <1>2 DEF Bucket

\* Where the last bucket is that has ended when the interval begins.
LEMMA FoundIsLast ==
  ASSUME TypeOK, NEW interval, interval.alloc_time \in Nat,
         \A a, b \in 1..num_buckets : a <= b => buckets[a].max_endpoint <= buckets[b].max_endpoint,
         NEW a \in 1..num_buckets, interval.alloc_time >= buckets[a].max_endpoint
  PROVE  a <= FoundIndex(interval) + 1
  <1> DEFINE passing == {k \in 0..num_buckets - 1 : HasEnded(buckets[k + 1], interval)}
             found == Bisect(passing, 0, num_buckets)
  <1>1. num_buckets \in Nat
    BY DEF TypeOK, num_buckets
  <1>2. \A b \in 1..num_buckets : buckets[b].max_endpoint \in Nat
    BY EndsAreNat
  <1>3. found \in 0..num_buckets /\ (found = num_buckets \/ found \notin passing)
    <2> HIDE DEF passing
    <2>1. 0 \in Int /\ num_buckets \in Int /\ 0 <= num_buckets
      BY <1>1
    <2> QED BY <2>1, BisectEnds
  <1>4. FoundIndex(interval) = found - 1
    BY DEF FoundIndex
  <1> HIDE DEF found
  <1> SUFFICES ASSUME found < a PROVE FALSE
    BY <1>1, <1>3, <1>4
  <1>5. found \in 0..num_buckets - 1 /\ found + 1 \in 1..num_buckets /\ found + 1 <= a
    BY <1>1, <1>3
  <1>6. buckets[found + 1].max_endpoint <= buckets[a].max_endpoint
    BY <1>5
  <1>7. interval.alloc_time >= buckets[found + 1].max_endpoint
    BY <1>2, <1>5, <1>6
  <1>8. found \in passing
    BY <1>5, <1>7 DEF HasEnded
  <1> QED BY <1>1, <1>3, <1>5, <1>8

\* No bucket in front of which a new endpoint is put ends earlier.
LEMMA PlaceEnds ==
  ASSUME TypeOK, NEW endpoint \in Nat, NEW left \in 0..num_buckets,
         NEW place, place = Bisect(EndBefore(endpoint), left, num_buckets), place < num_buckets
  PROVE  buckets[place + 1].max_endpoint >= endpoint
  <1>1. num_buckets \in Nat
    BY DEF TypeOK, num_buckets
  <1>2. place \in left..num_buckets /\ (place = num_buckets \/ place \notin EndBefore(endpoint))
    <2>1. left \in Int /\ num_buckets \in Int /\ left <= num_buckets
      BY <1>1
    <2> QED BY <2>1, BisectEnds
  <1>3. place \in 0..num_buckets - 1 /\ place + 1 \in 1..num_buckets
    BY <1>1, <1>2
  <1>4. buckets[place + 1].max_endpoint \in Nat
    BY <1>3, EndsAreNat
  <1> QED BY <1>1, <1>2, <1>3, <1>4 DEF EndBefore

\* Allocation m is put last in the bucket that is then at place p; the others come
\* from where from says.  It starts a bucket only if it can follow in none, and
\* otherwise joins the last one it can follow.
LastFit(N, E, R, root, starts, ends, m, N2, E2, R2, root2, p, from) ==
  /\ N \in Nat /\ N2 \in Nat /\ m \in Nat /\ p \in 1..N2
  /\ \A a \in 1..N : E[a] \in Nat /\ E[a] <= ends[m]
  /\ starts[m] \in Nat /\ ends[m] \in Nat /\ starts[m] < ends[m]
  /\ E2[p] = ends[m] /\ root2[m] = R2[p]
  /\ \A x \in 0..m - 1 : root2[x] = root[x]
  /\ \A k \in 1..N2 \ {p} : from[k] \in 1..N /\ E2[k] = E[from[k]] /\ R2[k] = R[from[k]]
  /\ \A k, l \in 1..N2 \ {p} : k <= l => from[k] <= from[l]
  /\ \A l \in 1..N2 : l > p => E[from[l]] >= ends[m]
  /\ \A k \in 1..N2 \ {p} : \/ starts[m] < E[from[k]]
                            \/ \E f \in 1..N : R[f] = R2[p] /\ E[from[k]] <= E[f]

LEMMA LastFitIsTight ==
  ASSUME NEW N, NEW E, NEW R, NEW root, NEW starts, NEW ends, NEW m,
         NEW N2, NEW E2, NEW R2, NEW root2, NEW p, NEW from,
         Tight(N, E, R, root, starts, ends, m),
         LastFit(N, E, R, root, starts, ends, m, N2, E2, R2, root2, p, from)
  PROVE  Tight(N2, E2, R2, root2, starts, ends, m + 1)
  <1>1. /\ N \in Nat /\ N2 \in Nat /\ m \in Nat /\ p \in 1..N2
        /\ \A a \in 1..N : E[a] \in Nat /\ E[a] <= ends[m]
        /\ starts[m] \in Nat /\ ends[m] \in Nat /\ starts[m] < ends[m]
        /\ E2[p] = ends[m] /\ root2[m] = R2[p]
        /\ \A x \in 0..m - 1 : root2[x] = root[x]
    BY DEF LastFit
  <1>2. /\ \A k \in 1..N2 \ {p} : from[k] \in 1..N /\ E2[k] = E[from[k]] /\ R2[k] = R[from[k]]
        /\ \A k, l \in 1..N2 \ {p} : k <= l => from[k] <= from[l]
        /\ \A l \in 1..N2 : l > p => E[from[l]] >= ends[m]
        /\ \A k \in 1..N2 \ {p} : \/ starts[m] < E[from[k]]
                                  \/ \E f \in 1..N : R[f] = R2[p] /\ E[from[k]] <= E[f]
    BY DEF LastFit
  <1>3. \A a, b \in 1..N : a <= b => E[a] <= E[b]
    BY DEF Tight
  <1>4. \A a, b \in 1..N : E[a] <= E[b] =>
          \E x \in 0..m - 1 : root[x] = R[b] /\ starts[x] < E[a] /\ E[a] <= ends[x]
    BY DEF Tight
  <1>5. ASSUME NEW a \in 1..N2, NEW b \in 1..N2, a <= b PROVE E2[a] <= E2[b]
    <2>1. CASE a = p /\ b = p
      BY <1>1, <2>1
    <2>2. CASE a = p /\ b # p
      <3>1. b > p /\ from[b] \in 1..N /\ E2[b] = E[from[b]]
        BY <1>1, <1>2, <1>5, <2>2
      <3> QED BY <1>1, <1>2, <2>2, <3>1
    <2>3. CASE a # p /\ b = p
      BY <1>1, <1>2, <2>3
    <2>4. CASE a # p /\ b # p
      <3>1. from[a] \in 1..N /\ from[b] \in 1..N /\ from[a] <= from[b]
        BY <1>2, <1>5, <2>4
      <3> QED BY <1>2, <1>3, <2>4, <3>1
    <2> QED BY <2>1, <2>2, <2>3, <2>4
  <1>6. ASSUME NEW a \in 1..N2, NEW b \in 1..N2, E2[a] <= E2[b]
        PROVE  \E x \in 0..m : root2[x] = R2[b] /\ starts[x] < E2[a] /\ E2[a] <= ends[x]
    <2>1. ASSUME NEW c \in 1..N, NEW d \in 1..N, E[c] <= E[d], R2[b] = R[d], E2[a] = E[c]
          PROVE  \E x \in 0..m : root2[x] = R2[b] /\ starts[x] < E2[a] /\ E2[a] <= ends[x]
      <3>1. PICK x \in 0..m - 1 : root[x] = R[d] /\ starts[x] < E[c] /\ E[c] <= ends[x]
        BY <1>4, <2>1
      <3>2. x \in 0..m /\ root2[x] = root[x]
        BY <1>1
      <3> QED BY <2>1, <3>1, <3>2
    <2>2. CASE b = p /\ a = p
      BY <1>1, <2>2
    <2>3. CASE b = p /\ a # p
      <3>1. from[a] \in 1..N /\ E2[a] = E[from[a]]
        BY <1>2, <2>3
      <3>2. CASE starts[m] < E[from[a]]
        <4>1. E[from[a]] <= ends[m] /\ m \in 0..m
          BY <1>1, <3>1
        <4> QED BY <1>1, <2>3, <3>1, <3>2, <4>1
      <3>3. CASE \E f \in 1..N : R[f] = R2[p] /\ E[from[a]] <= E[f]
        BY <2>1, <2>3, <3>1, <3>3
      <3> QED BY <1>2, <2>3, <3>2, <3>3
    <2>4. CASE b # p /\ a = p
      <3>1. from[b] \in 1..N /\ E2[b] = E[from[b]] /\ R2[b] = R[from[b]]
        BY <1>2, <2>4
      <3>2. E2[a] = E[from[b]]
        BY <1>1, <1>6, <2>4, <3>1
      <3>3. E[from[b]] <= E[from[b]]
        BY <1>1, <3>1
      <3> QED BY <2>1, <3>1, <3>2, <3>3
    <2>5. CASE b # p /\ a # p
      <3>1. /\ from[a] \in 1..N /\ E2[a] = E[from[a]]
            /\ from[b] \in 1..N /\ E2[b] = E[from[b]] /\ R2[b] = R[from[b]]
        BY <1>2, <2>5
      <3> QED BY <1>6, <2>1, <3>1
    <2> QED BY <2>2, <2>3, <2>4, <2>5
  <1>7. 0..(m + 1) - 1 = 0..m
    BY <1>1
  <1>8. \A a, b \in 1..N2 : a <= b => E2[a] <= E2[b]
    BY ONLY <1>5
  <1>9. \A a, b \in 1..N2 : E2[a] <= E2[b] =>
          \E x \in 0..(m + 1) - 1 : root2[x] = R2[b] /\ starts[x] < E2[a] /\ E2[a] <= ends[x]
    BY ONLY <1>6, <1>7
  <1> QED BY ONLY <1>8, <1>9 DEF Tight

\* The buckets of the code, in these terms.
PutLast(root, next, m, p, from) ==
  /\ p \in 1..num_buckets' /\ next[m] = next[buckets'[p].list]
  /\ buckets'[p].max_endpoint = allocations[m].free_time
  /\ \A x \in 0..m - 1 : next[x] = root[x]
  /\ \A k \in 1..num_buckets' \ {p} :
       /\ from[k] \in 1..num_buckets
       /\ buckets'[k].max_endpoint = buckets[from[k]].max_endpoint
       /\ next[buckets'[k].list] = RootOf(root, from[k])
  /\ \A k, l \in 1..num_buckets' \ {p} : k <= l => from[k] <= from[l]
  /\ \A l \in 1..num_buckets' :
       l > p => buckets[from[l]].max_endpoint >= allocations[m].free_time
  /\ \A k \in 1..num_buckets' \ {p} :
       \/ allocations[m].alloc_time < buckets[from[k]].max_endpoint
       \/ \E f \in 1..num_buckets : /\ RootOf(root, f) = next[buckets'[p].list]
                                     /\ buckets[from[k]].max_endpoint <= buckets[f].max_endpoint

LEMMA BucketsSorted ==
  ASSUME NEW root, NEW n, TightBuckets(root, n)
  PROVE  \A a, b \in 1..num_buckets : a <= b => buckets[a].max_endpoint <= buckets[b].max_endpoint
  BY DEF TightBuckets, Tight, EndPoints

\* No bucket ends after the next allocation.
LEMMA BucketsEndBefore ==
  ASSUME TypeOK, NEW root, NEW m \in Index, InBuckets(root, m), NEW b \in 1..num_buckets
  PROVE  buckets[b].max_endpoint <= allocations[m].free_time
  <1>1. HeadIsLast(root, buckets[b], m) /\ SortedByEnd
    BY DEF InBuckets
  <1>2. PICK l \in 0..m - 1 : l = buckets[b].list /\ buckets[b].max_endpoint = allocations[l].free_time
    BY <1>1 DEF HeadIsLast
  <1>3. l \in Index /\ l <= m
    BY NumAllocations DEF Index
  <1>4. Ends[l] = allocations[l].free_time /\ Ends[m] = allocations[m].free_time
    BY <1>3 DEF Ends
  <1> QED BY <1>1, <1>2, <1>3, <1>4 DEF SortedByEnd

LEMMA TightStays ==
  ASSUME TypeOK, num_buckets' \in Nat, NEW m \in Index, NEW root, NEW next, NEW p, NEW from,
         InBuckets(root, m), Starts' = Starts, Ends' = Ends, PutLast(root, next, m, p, from)
  PROVE  TightBuckets(next, m + 1)'
  <1>1. PICK N, E, R, starts, ends : N = num_buckets /\ E = EndPoints /\ R = Roots(root)
                                     /\ starts = Starts /\ ends = Ends
    OBVIOUS
  <1>2. PICK N2, E2, R2 : N2 = num_buckets' /\ E2 = EndPoints' /\ R2 = Roots(next)'
    OBVIOUS
  <1>3. Tight(N, E, R, root, starts, ends, m)
    BY <1>1 DEF InBuckets, TightBuckets
  <1>4. /\ N \in Nat /\ N2 \in Nat /\ m \in Nat
        /\ starts[m] = allocations[m].alloc_time /\ ends[m] = allocations[m].free_time
        /\ starts[m] \in Nat /\ ends[m] \in Nat /\ starts[m] < ends[m]
    BY <1>1, <1>2, Times, NumAllocations DEF TypeOK, num_buckets, Starts, Ends, Index
  <1>5. \A a \in 1..N : /\ E[a] = buckets[a].max_endpoint /\ R[a] = RootOf(root, a)
                        /\ E[a] \in Nat /\ E[a] <= ends[m]
    BY <1>1, <1>4, EndsAreNat, BucketsEndBefore DEF EndPoints, Roots
  <1>6. \A a \in 1..N2 : /\ E2[a] = buckets'[a].max_endpoint /\ R2[a] = next[buckets'[a].list]
    BY <1>2 DEF EndPoints, Roots, RootOf
  <1>7. LastFit(N, E, R, root, starts, ends, m, N2, E2, R2, next, p, from)
    <2>1. /\ p \in 1..N2 /\ E2[p] = ends[m] /\ next[m] = R2[p]
          /\ \A x \in 0..m - 1 : next[x] = root[x]
      BY <1>2, <1>4, <1>6 DEF PutLast
    <2>2. /\ \A k \in 1..N2 \ {p} : from[k] \in 1..N /\ E2[k] = E[from[k]] /\ R2[k] = R[from[k]]
          /\ \A k, l \in 1..N2 \ {p} : k <= l => from[k] <= from[l]
      BY <1>1, <1>2, <1>5, <1>6 DEF PutLast
    <2>3. \A l \in 1..N2 : l > p => E[from[l]] >= ends[m]
      <3>1. \A l \in 1..N2 : l > p => l # p
        BY <2>1
      <3> QED BY <1>1, <1>2, <1>4, <1>5, <2>2, <3>1 DEF PutLast
    <2>4. \A k \in 1..N2 \ {p} : \/ starts[m] < E[from[k]]
                                 \/ \E f \in 1..N : R[f] = R2[p] /\ E[from[k]] <= E[f]
      BY <1>1, <1>2, <1>4, <1>5, <1>6, <2>1, <2>2 DEF PutLast
    <2> QED BY ONLY <1>4, <1>5, <2>1, <2>2, <2>3, <2>4 DEF LastFit
  <1>8. Tight(N2, E2, R2, next, starts, ends, m + 1)
    BY ONLY <1>3, <1>7, LastFitIsTight
  <1> QED BY <1>1, <1>2, <1>8 DEF TightBuckets

LEMMA BucketStarts ==
  ASSUME IInv, StartBucket
  PROVE  IInv'
  <1>1. PICK root \in [Index -> Index] : BucketsInv(root)
    BY DEF IInv
  <1>2. PICK m \in Nat : m = i
    BY DEF IInv, TypeOK
  <1>3. /\ TypeOK /\ pc = "buckets" /\ m < num_allocations /\ InBuckets(root, m)
        /\ m \in Index /\ num_buckets \in Nat
    BY <1>1, <1>2, NewBucketIs DEF IInv, BucketsInv, StartBucket
  <1>4. PICK bucket \in Bucket : bucket = [list |-> m, max_endpoint |-> allocations[m].free_time]
    BY <1>2, <1>3, NewBucketIs
  <1>5. PICK new \in Slot :
          /\ new = [allocations[m] EXCEPT !.parent = NIL] /\ new.parent = NIL /\ NIL \in Nat
          /\ new.alloc_time = allocations[m].alloc_time /\ new.free_time = allocations[m].free_time
    <2>1. allocations[m] \in Slot
      BY <1>3 DEF TypeOK
    <2>2. [allocations[m] EXCEPT !.parent = NIL] \in Slot
      BY <2>1 DEF Slot, NIL
    <2> QED BY <2>1, <2>2 DEF Slot, NIL
  <1>6. PICK place \in 1..num_buckets + 1 :
          /\ buckets' = InsertAt(buckets, place, bucket)
          /\ place <= num_buckets => buckets[place].max_endpoint >= allocations[m].free_time
    <2> DEFINE earlier == Bisect(EndBefore(allocations[m].free_time), 0, num_buckets)
    <2>1. 0 \in 0..num_buckets
      BY <1>3
    <2>2. earlier \in 0..num_buckets
      BY <1>3, <2>1, PlaceIsInRange
    <2>3. buckets' = InsertAt(buckets, (IF earlier = 0 THEN num_buckets ELSE earlier) + 1, bucket)
      BY <1>2, <1>4 DEF StartBucket
    <2>4. allocations[m].free_time \in Nat
      BY <1>3, Times
    <2>5. earlier < num_buckets => buckets[earlier + 1].max_endpoint >= allocations[m].free_time
      BY <1>3, <2>1, <2>4, PlaceEnds
    <2> HIDE DEF earlier
    <2> QED BY <1>3, <2>2, <2>3, <2>5
  <1>16. /\ allocations' = [allocations EXCEPT ![m] = new]
        /\ i' = m + 1 /\ UNCHANGED <<pc, node, max_size, address>>
    BY <1>2, <1>5 DEF StartBucket
  <1>17. PICK next \in [Index -> Index] : next = [root EXCEPT ![m] = m]
    BY <1>3
  <1>7. /\ Index' = Index /\ num_allocations' = num_allocations
        /\ allocations' \in [Index -> Slot]
        /\ \A j \in Index : /\ allocations'[j].alloc_time = allocations[j].alloc_time
                            /\ allocations'[j].free_time = allocations[j].free_time
                            /\ allocations'[j].alloc_time < allocations'[j].free_time
        /\ \A j \in 0..m : next[j] \in 0..j
        /\ \A k \in 0..m : \A j \in 0..k - 1 : Follows(next, j, k)'
        /\ \A j \in 0..m : ParentIsLast(next, j)'
    <2>1. /\ Index' = Index /\ num_allocations' = num_allocations
          /\ allocations' \in [Index -> Slot]
          /\ \A k \in Index : /\ allocations'[k].alloc_time = allocations[k].alloc_time
                              /\ allocations'[k].free_time = allocations[k].free_time
                              /\ allocations'[k].alloc_time < allocations'[k].free_time
                              /\ k # m => allocations'[k] = allocations[k]
          /\ allocations'[m] = new
      <3>1. TypeOK /\ m \in Index /\ new \in Slot
        BY <1>3
      <3> QED BY ONLY <1>5, <1>16, <3>1, Changed
    <2>2. /\ m \in Nat /\ root \in [Index -> Index] /\ m < num_allocations
          /\ NIL \in Nat /\ m \in Index /\ allocations'[m].parent = NIL
          /\ next \in [Index -> Index] /\ next[m] = m /\ \A j \in 0..m - 1 : next[j] = root[j]
      BY <1>2, <1>3, <1>5, <2>1, <1>17
    <2>3. TypeOK /\ InBuckets(root, m)
      BY <1>3
    <2>4. /\ \A j \in 0..m : next[j] \in 0..j
          /\ \A k \in 0..m : \A j \in 0..k - 1 : Follows(next, j, k)'
          /\ \A j \in 0..m : ParentIsLast(next, j)'
      BY ONLY <2>1, <2>2, <2>3, NextInBucket DEF Follows, ParentIsLast
    <2> QED BY <2>1, <2>4
  <1>8. /\ buckets' \in Seq(Bucket) /\ num_buckets' = num_buckets + 1
        /\ \A k \in 1..num_buckets + 1 :
             buckets'[k] = IF k < place THEN buckets[k]
                           ELSE IF k = place THEN bucket ELSE buckets[k - 1]
    <2>1. buckets \in Seq(Bucket) /\ num_buckets = Len(buckets)
      BY <1>3 DEF TypeOK, num_buckets
    <2>2. PICK old, after : old = buckets /\ after = InsertAt(old, place, bucket)
      OBVIOUS
    <2>3. old \in Seq(Bucket) /\ place \in 1..Len(old) + 1 /\ Len(old) = num_buckets /\ bucket \in Bucket
      BY <1>4, <1>6, <2>1, <2>2
    <2>4. InsertedAt(Bucket, old, place, bucket, after)
      <3>1. InsertedAt(Bucket, old, place, bucket, InsertAt(old, place, bucket))
        BY ONLY <2>3, InsertAtInserts
      <3> QED BY ONLY <2>2, <3>1
    <2>5. buckets' = after /\ num_buckets' = Len(after)
      BY <1>6, <2>2 DEF num_buckets
    <2> QED BY ONLY <2>2, <2>3, <2>4, <2>5 DEF InsertedAt
  <1>9. ASSUME NEW o \in Bucket, HeadIsLast(root, o, m)
        PROVE  /\ root[o.list] # m
               /\ HeadIsLast(next, o, m + 1)' /\ next[o.list] = root[o.list]
    <2>1. root[o.list] # m
      BY <1>3, <1>9 DEF InBuckets, HeadIsLast
    <2>2. /\ m \in Nat /\ m = i /\ root \in [Index -> Index] /\ m < num_allocations
          /\ m \in Index /\ o \in Bucket /\ Index' = Index
          /\ \A j \in Index : allocations'[j].free_time = allocations[j].free_time
          /\ next \in [Index -> Index] /\ next[m] = m /\ \A j \in 0..m - 1 : next[j] = root[j]
      <3>1. next \in [Index -> Index] /\ next[m] = m /\ \A j \in 0..m - 1 : next[j] = root[j]
        BY <1>3, <1>17
      <3>2. \A j \in Index : allocations'[j].free_time = allocations[j].free_time
        BY <1>7
      <3> QED BY <1>2, <1>3, <1>7, <3>1, <3>2
    <2>3. TypeOK /\ HeadIsLast(root, o, m)
      BY <1>3, <1>9
    <2> QED BY ONLY <2>1, <2>2, <2>3, HeadStays DEF HeadIsLast
  <1>10. HeadIsLast(next, bucket, m + 1)' /\ next[bucket.list] = m
    BY <1>3, <1>4, <1>7, <1>17 DEF HeadIsLast
  <1> DEFINE old(k) == IF k < place THEN k ELSE k - 1
  <1>11. ASSUME NEW k \in 1..num_buckets + 1
         PROVE  /\ HeadIsLast(next, buckets[k], m + 1)'
                /\ k = place => RootOf(next, k)' = m
                /\ k # place => /\ old(k) \in 1..num_buckets
                                /\ RootOf(next, k)' = RootOf(root, old(k))
                                /\ RootOf(next, k)' # m
    <2>1. CASE k = place
      <3>1. buckets'[k] = bucket
        BY <1>8, <2>1
      <3> QED BY <1>10, <2>1, <3>1 DEF RootOf, HeadIsLast
    <2>2. CASE k # place
      <3>1. old(k) \in 1..num_buckets /\ buckets'[k] = buckets[old(k)]
        BY <1>3, <1>8, <2>2
      <3>2. PICK o \in Bucket : o = buckets[old(k)]
        BY <1>3, <3>1 DEF TypeOK, num_buckets
      <3> HIDE DEF old
      <3>3. HeadIsLast(root, o, m)
        BY <1>3, <3>1, <3>2 DEF InBuckets
      <3>4. root[o.list] # m /\ HeadIsLast(next, o, m + 1)' /\ next[o.list] = root[o.list]
        BY <1>9, <3>3
      <3> QED BY <2>2, <3>1, <3>2, <3>4 DEF RootOf, HeadIsLast
    <2> QED BY <2>1, <2>2
  <1>12. ASSUME NEW a \in 1..num_buckets + 1, NEW b \in 1..num_buckets + 1, a # b
         PROVE  RootOf(next, a)' # RootOf(next, b)'
    <2>1. CASE a # place /\ b # place
      <3>1. old(a) # old(b)
        BY <1>12, <2>1
      <3> HIDE DEF old
      <3> QED BY <1>3, <1>11, <2>1, <3>1 DEF InBuckets
    <2> HIDE DEF old
    <2> QED BY <1>11, <1>12, <2>1
  <1>13. ASSUME NEW j \in 0..m
         PROVE  \E b \in 1..num_buckets + 1 : RootOf(next, b)' = next[j]
    <2>1. CASE j = m
      BY <1>3, <1>11, <1>17, <2>1
    <2>2. CASE j # m
      <3>1. j \in 0..m - 1 /\ next[j] = root[j]
        BY <1>3, <1>17, <2>2
      <3>2. PICK b \in 1..num_buckets : RootOf(root, b) = root[j]
        BY <1>3, <3>1 DEF InBuckets
      <3> DEFINE k == IF b < place THEN b ELSE b + 1
      <3>3. k \in 1..num_buckets + 1 /\ k # place /\ old(k) = b
        BY <1>3
      <3> HIDE DEF old, k
      <3> QED BY <1>11, <3>1, <3>2, <3>3
    <2> QED BY <2>1, <2>2
  <1> HIDE DEF old
  <1>21. SortedByEnd' /\ TightBuckets(next, m + 1)'
    <2>1. Starts' = Starts /\ Ends' = Ends
      BY <1>7 DEF Starts, Ends
    <2>2. SortedByEnd'
      <3>1. SortedByEnd
        BY <1>3 DEF InBuckets
      <3> QED BY <1>7, <2>1, <3>1 DEF SortedByEnd
    <2>3. \A a, b \in 1..num_buckets : a <= b => buckets[a].max_endpoint <= buckets[b].max_endpoint
      <3>1. TightBuckets(root, m)
        BY <1>3 DEF InBuckets
      <3> QED BY <3>1, BucketsSorted
    <2>4. /\ allocations[m].alloc_time \in Nat /\ allocations[m].free_time \in Nat
          /\ \A b \in 1..num_buckets : buckets[b].max_endpoint \in Nat
      BY <1>3, Times, EndsAreNat
    <2>5. ASSUME NEW a \in 1..num_buckets
          PROVE  allocations[m].alloc_time < buckets[a].max_endpoint
      <3>1. FoundIndex(allocations[m]) < 0 /\ FoundIndex(allocations[m]) \in Int
        BY <1>2, <1>3, FoundHasEnded DEF StartBucket
      <3>2. allocations[m].alloc_time >= buckets[a].max_endpoint
              => a <= FoundIndex(allocations[m]) + 1
        BY <1>3, <2>3, <2>4, FoundIsLast
      <3> QED BY <1>3, <2>4, <3>1, <3>2
    <2>6. PICK from : from = [k \in 1..num_buckets + 1 |-> old(k)]
      OBVIOUS
    <2>7. \A k \in (1..num_buckets + 1) \ {place} :
            /\ from[k] = old(k) /\ from[k] \in 1..num_buckets
            /\ buckets'[k] = buckets[from[k]] /\ next[buckets'[k].list] = RootOf(root, from[k])
      <3>1. ASSUME NEW k \in 1..num_buckets + 1, k # place
            PROVE  from[k] = old(k) /\ old(k) \in 1..num_buckets /\ buckets'[k] = buckets[old(k)]
        BY <1>3, <1>8, <2>6, <3>1 DEF old
      <3>2. ASSUME NEW k \in 1..num_buckets + 1, k # place
            PROVE  next[buckets'[k].list] = RootOf(root, old(k))
        BY <1>11, <3>2 DEF RootOf
      <3> QED BY <3>1, <3>2
    <2>8. \A k, l \in (1..num_buckets + 1) \ {place} : k <= l => from[k] <= from[l]
      <3>1. \A k, l \in (1..num_buckets + 1) \ {place} : k <= l => old(k) <= old(l)
        BY <1>3 DEF old
      <3> QED BY <2>7, <3>1
    <2>9. ASSUME NEW l \in 1..num_buckets + 1, l > place
          PROVE  buckets[from[l]].max_endpoint >= allocations[m].free_time
      <3>1. from[l] \in 1..num_buckets /\ from[l] >= place /\ place \in 1..num_buckets
        BY <1>3, <2>7, <2>9 DEF old
      <3>2. buckets[place].max_endpoint <= buckets[from[l]].max_endpoint
        BY <2>3, <3>1
      <3> QED BY <1>6, <2>4, <3>1, <3>2
    <2>10. PutLast(root, next, m, place, from)
      <3>1. /\ place \in 1..num_buckets' /\ num_buckets' = num_buckets + 1
            /\ buckets'[place] = bucket
        BY <1>8
      <3>2. next[m] = next[buckets'[place].list] /\ buckets'[place].max_endpoint = allocations[m].free_time
        BY <1>4, <3>1
      <3>3. \A x \in 0..m - 1 : next[x] = root[x]
        BY <1>3, <1>17
      <3> QED BY ONLY <2>5, <2>7, <2>8, <2>9, <3>1, <3>2, <3>3 DEF PutLast
    <2>11. TypeOK /\ num_buckets' \in Nat /\ m \in Index /\ InBuckets(root, m)
      BY <1>3, <1>8
    <2>12. TightBuckets(next, m + 1)'
      BY ONLY <2>1, <2>10, <2>11, TightStays
    <2> QED BY <2>2, <2>12
  <1>18. InBuckets(next, m + 1)'
    <2>1. /\ \A j \in 0..(m + 1) - 1 : next[j] \in 0..j
          /\ \A k \in 0..(m + 1) - 1 : \A j \in 0..k - 1 : Follows(next, j, k)'
          /\ \A j \in 0..(m + 1) - 1 : ParentIsLast(next, j)'
          /\ \A j \in 0..(m + 1) - 1 : \E b \in 1..num_buckets + 1 : RootOf(next, b)' = next[j]
      BY <1>7, <1>13
    <2>2. \A b \in 1..num_buckets' : HeadIsLast(next, buckets[b], m + 1)'
      BY <1>8, <1>11
    <2>3. \A a, b \in 1..num_buckets' : a # b => RootOf(next, a)' # RootOf(next, b)'
      BY <1>8, <1>12
    <2> QED BY ONLY <1>8, <1>21, <2>1, <2>2, <2>3 DEF InBuckets
  <1>19. TypeOK'
    BY <1>3, <1>16, <1>7, <1>8 DEF TypeOK, Bucket
  <1>20. BucketsInv(next)'
    <2>1. PICK n \in Nat : n = m + 1
      BY <1>2
    <2>2. InBuckets(next, n)' /\ n <= num_allocations' /\ pc' = "buckets" /\ n = i' /\ address' = 0
      BY <1>1, <1>3, <1>7, <1>16, <1>18, <2>1 DEF BucketsInv, TypeOK
    <2> QED BY <2>2 DEF BucketsInv
  <1> QED BY <1>7, <1>19, <1>20 DEF IInv

BucketsMove(f, place, bucket) ==
  /\ buckets' \in Seq(Bucket) /\ num_buckets' = num_buckets /\ buckets'[place] = bucket
  /\ \A k \in 1..num_buckets \ {place} :
       /\ CameFrom(k, f, place) \in 1..num_buckets \ {f}
       /\ buckets'[k] = buckets[CameFrom(k, f, place)]
  /\ \A a \in 1..num_buckets \ {f} :
       \E k \in 1..num_buckets \ {place} : buckets'[k] = buckets[a]

LEMMA BucketMoves ==
  ASSUME buckets \in Seq(Bucket), NEW bucket \in Bucket,
         NEW f \in 1..num_buckets, NEW place \in 1..num_buckets,
         buckets' = InsertAt(RemoveAt(buckets, f), place, bucket)
  PROVE  BucketsMove(f, place, bucket)
  <1>1. PICK s \in Seq(Bucket) : s = buckets
    OBVIOUS
  <1>2. f \in 1..Len(s) /\ place \in 1..Len(s)
    BY <1>1 DEF num_buckets
  <1> DEFINE t == Replaced(s, f, place, bucket)
  <1>3. /\ t \in Seq(Bucket) /\ Len(t) = Len(s) /\ t[place] = bucket
        /\ \A k \in 1..Len(s) \ {place} : /\ CameFrom(k, f, place) \in 1..Len(s) \ {f}
                                          /\ t[k] = s[CameFrom(k, f, place)]
        /\ \A a \in 1..Len(s) \ {f} : \E k \in 1..Len(s) \ {place} : t[k] = s[a]
    <2>1. t \in Seq(Bucket) /\ ReplacedAt(s, f, place, bucket, t)
      BY <1>2, ReplacedIs
    <2> QED BY <2>1 DEF ReplacedAt
  <1>4. buckets' = t /\ num_buckets' = Len(t) /\ num_buckets = Len(s)
    BY <1>1 DEF num_buckets, Replaced
  <1> HIDE DEF t
  <1> QED BY ONLY <1>1, <1>3, <1>4 DEF BucketsMove

LEMMA BucketJoins ==
  ASSUME IInv, AddToBucket
  PROVE  IInv'
  <1>1. PICK root \in [Index -> Index] : BucketsInv(root)
    BY DEF IInv
  <1>2. PICK m \in Nat : m = i
    BY DEF IInv, TypeOK
  <1>3. /\ TypeOK /\ pc = "buckets" /\ m < num_allocations /\ InBuckets(root, m)
        /\ m \in Index /\ num_buckets \in Nat
    BY <1>1, <1>2, NewBucketIs DEF IInv, BucketsInv, AddToBucket
  <1>4. PICK bucket \in Bucket : bucket = [list |-> m, max_endpoint |-> allocations[m].free_time]
    BY <1>2, <1>3, NewBucketIs
  <1>5. PICK f \in 1..num_buckets : /\ f = FoundIndex(allocations[m]) + 1
                                    /\ HasEnded(buckets[f], allocations[m])
    BY <1>2, <1>3, FoundHasEnded DEF AddToBucket
  <1>6. PICK head \in Bucket : head = buckets[f]
    BY <1>3 DEF TypeOK, num_buckets
  <1>7. PICK p \in 0..m - 1 : /\ p = head.list /\ p \in Nat /\ p \in Index
                              /\ \A k \in p + 1..m - 1 : root[k] # root[p]
                              /\ allocations[p].free_time <= allocations[m].alloc_time
                              /\ RootOf(root, f) = root[p]
    <2>1. HeadIsLast(root, head, m)
      BY <1>3, <1>6 DEF InBuckets
    <2>2. PICK l \in 0..m - 1 : /\ l = head.list /\ l \in Nat /\ l \in Index
                                /\ head.max_endpoint = allocations[l].free_time
                                /\ \A k \in l + 1..m - 1 : root[k] # root[l]
      BY <1>3, <2>1, NumAllocations DEF HeadIsLast, Index
    <2>3. RootOf(root, f) = root[l]
      BY <1>6, <2>2 DEF RootOf
    <2>4. allocations[m].alloc_time >= allocations[l].free_time
      BY <1>5, <1>6, <2>2 DEF HasEnded
    <2>5. allocations[l].free_time <= allocations[m].alloc_time
      BY <1>3, <2>2, <2>4, Times
    <2> QED BY <2>2, <2>3, <2>5
  <1>8. PICK R \in Index : R = root[p]
    BY <1>7
  <1>9. PICK new \in Slot :
          /\ new = [allocations[m] EXCEPT !.parent = p] /\ new.parent = p
          /\ new.alloc_time = allocations[m].alloc_time /\ new.free_time = allocations[m].free_time
    <2>1. allocations[m] \in Slot
      BY <1>3 DEF TypeOK
    <2>2. [allocations[m] EXCEPT !.parent = p] \in Slot
      BY <2>1 DEF Slot
    <2> QED BY <2>1, <2>2 DEF Slot
  <1>10. PICK place \in 1..num_buckets :
           /\ buckets' = InsertAt(RemoveAt(buckets, f), place, bucket) /\ f <= place
           /\ place < num_buckets => buckets[place + 1].max_endpoint >= allocations[m].free_time
    <2> DEFINE place == Bisect(EndBefore(allocations[m].free_time), f, num_buckets)
    <2>1. f \in 0..num_buckets
      BY <1>3
    <2>2. place \in f..num_buckets
      BY <1>3, <2>1, PlaceIsInRange
    <2>3. buckets' = InsertAt(RemoveAt(buckets, f), place, bucket)
      BY <1>2, <1>4, <1>5 DEF AddToBucket
    <2>4. allocations[m].free_time \in Nat
      BY <1>3, Times
    <2>5. place < num_buckets => buckets[place + 1].max_endpoint >= allocations[m].free_time
      BY <1>3, <2>1, <2>4, PlaceEnds
    <2> HIDE DEF place
    <2> QED BY <1>3, <2>2, <2>3, <2>5
  <1>11. /\ allocations' = [allocations EXCEPT ![m] = new]
         /\ i' = m + 1 /\ UNCHANGED <<pc, node, max_size, address>>
    BY <1>2, <1>5, <1>6, <1>7, <1>9 DEF AddToBucket, ParentIn
  <1>12. PICK next \in [Index -> Index] : next = [root EXCEPT ![m] = R]
    BY <1>3
  <1>13. /\ Index' = Index /\ num_allocations' = num_allocations
         /\ allocations' \in [Index -> Slot]
         /\ \A k \in Index : /\ allocations'[k].alloc_time = allocations[k].alloc_time
                             /\ allocations'[k].free_time = allocations[k].free_time
                             /\ allocations'[k].alloc_time < allocations'[k].free_time
                             /\ k # m => allocations'[k] = allocations[k]
         /\ allocations'[m] = new
    <2>1. TypeOK /\ m \in Index /\ new \in Slot
      BY <1>3
    <2> QED BY ONLY <1>9, <1>11, <2>1, Changed
  <1>14. /\ \A j \in 0..m : next[j] \in 0..j
         /\ \A k \in 0..m : \A j \in 0..k - 1 : Follows(next, j, k)'
         /\ \A j \in 0..m : ParentIsLast(next, j)'
    <2>1. /\ m \in Nat /\ root \in [Index -> Index] /\ m < num_allocations
          /\ p \in Nat /\ R \in Index /\ allocations'[m].parent = p
          /\ next \in [Index -> Index] /\ next[m] = R /\ \A j \in 0..m - 1 : next[j] = root[j]
          /\ \/ p = NIL /\ R = m
             \/ /\ p \in 0..m - 1 /\ root[p] = R
                /\ \A k \in p + 1..m - 1 : root[k] # R
                /\ allocations[p].free_time <= allocations[m].alloc_time
      BY <1>3, <1>7, <1>8, <1>9, <1>12, <1>13
    <2>2. TypeOK /\ InBuckets(root, m)
      BY <1>3
    <2> QED BY ONLY <1>13, <2>1, <2>2, NextInBucket, SMTT(60) DEF Follows, ParentIsLast
  <1>15. /\ buckets' \in Seq(Bucket) /\ num_buckets' = num_buckets /\ buckets'[place] = bucket
         /\ \A k \in 1..num_buckets \ {place} :
              /\ CameFrom(k, f, place) \in 1..num_buckets \ {f}
              /\ buckets'[k] = buckets[CameFrom(k, f, place)]
         /\ \A a \in 1..num_buckets \ {f} :
              \E k \in 1..num_buckets \ {place} : buckets'[k] = buckets[a]
    <2>1. buckets \in Seq(Bucket) /\ bucket \in Bucket
      BY <1>3 DEF TypeOK
    <2>2. BucketsMove(f, place, bucket)
      BY ONLY <1>10, <2>1, BucketMoves
    <2> QED BY ONLY <2>2 DEF BucketsMove
  <1>16. ASSUME NEW o \in Bucket, HeadIsLast(root, o, m), root[o.list] # R
         PROVE  HeadIsLast(next, o, m + 1)' /\ next[o.list] = root[o.list]
    <2>1. /\ m \in Nat /\ m = i /\ root \in [Index -> Index] /\ m < num_allocations
          /\ R \in Index /\ o \in Bucket /\ Index' = Index
          /\ \A j \in Index : allocations'[j].free_time = allocations[j].free_time
          /\ next \in [Index -> Index] /\ next[m] = R /\ \A j \in 0..m - 1 : next[j] = root[j]
      BY <1>2, <1>3, <1>12, <1>13
    <2>2. TypeOK /\ HeadIsLast(root, o, m)
      BY <1>3, <1>16
    <2> QED BY ONLY <1>16, <2>1, <2>2, HeadStays DEF HeadIsLast
  <1>17. HeadIsLast(next, bucket, m + 1)' /\ next[bucket.list] = R
    BY <1>3, <1>4, <1>12, <1>13 DEF HeadIsLast
  <1>18. ASSUME NEW k \in 1..num_buckets
         PROVE  /\ HeadIsLast(next, buckets[k], m + 1)'
                /\ k = place => RootOf(next, k)' = R
                /\ k # place => /\ CameFrom(k, f, place) \in 1..num_buckets \ {f}
                                /\ RootOf(next, k)' = RootOf(root, CameFrom(k, f, place))
                                /\ RootOf(next, k)' # R
    <2>1. CASE k = place
      <3>1. buckets'[k] = bucket
        BY <1>15, <2>1
      <3> QED BY <1>17, <2>1, <3>1 DEF RootOf, HeadIsLast
    <2>2. CASE k # place
      <3>1. PICK a \in 1..num_buckets \ {f} : a = CameFrom(k, f, place)
        BY <1>15, <2>2
      <3>2. buckets'[k] = buckets[a]
        BY <1>15, <2>2, <3>1
      <3>3. PICK o \in Bucket : o = buckets[a]
        BY <1>3 DEF TypeOK, num_buckets
      <3>4. HeadIsLast(root, o, m) /\ RootOf(root, a) # RootOf(root, f)
        BY <1>3, <1>5, <3>1, <3>3 DEF InBuckets
      <3>5. root[o.list] # R
        BY <1>7, <1>8, <3>3, <3>4 DEF RootOf
      <3>6. HeadIsLast(next, o, m + 1)' /\ next[o.list] = root[o.list]
        BY <1>16, <3>4, <3>5
      <3> QED BY <2>2, <3>1, <3>2, <3>3, <3>5, <3>6 DEF RootOf, HeadIsLast
    <2> QED BY <2>1, <2>2
  <1>19. ASSUME NEW a \in 1..num_buckets, NEW b \in 1..num_buckets, a # b
         PROVE  RootOf(next, a)' # RootOf(next, b)'
    <2>1. CASE a # place /\ b # place
      <3>1. CameFrom(a, f, place) # CameFrom(b, f, place)
        BY <1>3, <1>19, <2>1 DEF CameFrom
      <3> QED BY <1>3, <1>18, <2>1, <3>1 DEF InBuckets
    <2> QED BY <1>18, <1>19, <2>1
  <1>20. ASSUME NEW j \in 0..m
         PROVE  \E b \in 1..num_buckets : RootOf(next, b)' = next[j]
    <2>1. CASE j = m
      BY <1>3, <1>12, <1>18, <2>1
    <2>2. CASE j # m
      <3>1. j \in 0..m - 1 /\ next[j] = root[j]
        BY <1>3, <1>12, <2>2
      <3>2. PICK a \in 1..num_buckets : RootOf(root, a) = root[j]
        BY <1>3, <3>1 DEF InBuckets
      <3>3. CASE a = f
        BY <1>7, <1>8, <1>18, <3>1, <3>2, <3>3
      <3>4. CASE a # f
        <4>1. PICK k \in 1..num_buckets \ {place} : buckets'[k] = buckets[a]
          BY <1>15, <3>4
        <4>2. RootOf(next, k)' = RootOf(root, CameFrom(k, f, place))
          BY <1>18
        <4>3. buckets[CameFrom(k, f, place)] = buckets[a]
          BY <1>15, <4>1
        <4>4. RootOf(next, k)' = RootOf(root, a)
          BY <4>2, <4>3 DEF RootOf
        <4> QED BY <3>1, <3>2, <4>4
      <3> QED BY <3>3, <3>4
    <2> QED BY <2>1, <2>2
  <1>24. SortedByEnd' /\ TightBuckets(next, m + 1)'
    <2>1. Starts' = Starts /\ Ends' = Ends
      BY <1>13 DEF Starts, Ends
    <2>2. SortedByEnd'
      <3>1. SortedByEnd
        BY <1>3 DEF InBuckets
      <3> QED BY <1>13, <2>1, <3>1 DEF SortedByEnd
    <2>3. \A a, b \in 1..num_buckets : a <= b => buckets[a].max_endpoint <= buckets[b].max_endpoint
      <3>1. TightBuckets(root, m)
        BY <1>3 DEF InBuckets
      <3> QED BY <3>1, BucketsSorted
    <2>4. /\ allocations[m].alloc_time \in Nat /\ allocations[m].free_time \in Nat
          /\ \A b \in 1..num_buckets : buckets[b].max_endpoint \in Nat
      BY <1>3, Times, EndsAreNat
    <2>5. ASSUME NEW a \in 1..num_buckets
          PROVE  \/ allocations[m].alloc_time < buckets[a].max_endpoint
                 \/ buckets[a].max_endpoint <= buckets[f].max_endpoint
      <3>1. allocations[m].alloc_time >= buckets[a].max_endpoint => a <= f
        BY <1>3, <1>5, <2>3, <2>4, FoundIsLast
      <3> QED BY <1>3, <2>3, <2>4, <3>1
    <2>6. PICK from : from = [k \in 1..num_buckets |-> CameFrom(k, f, place)]
      OBVIOUS
    <2>7. \A k \in 1..num_buckets \ {place} :
            /\ from[k] = CameFrom(k, f, place) /\ from[k] \in 1..num_buckets
            /\ buckets'[k] = buckets[from[k]] /\ next[buckets'[k].list] = RootOf(root, from[k])
      <3>1. ASSUME NEW k \in 1..num_buckets, k # place
            PROVE  next[buckets'[k].list] = RootOf(root, CameFrom(k, f, place))
        BY <1>18, <3>1 DEF RootOf
      <3> QED BY <1>15, <2>6, <3>1
    <2>8. \A k, l \in 1..num_buckets \ {place} : k <= l => from[k] <= from[l]
      <3>1. \A k, l \in 1..num_buckets \ {place} :
              k <= l => CameFrom(k, f, place) <= CameFrom(l, f, place)
        BY <1>3 DEF CameFrom
      <3> QED BY <2>7, <3>1
    <2>9. ASSUME NEW l \in 1..num_buckets, l > place
          PROVE  buckets[from[l]].max_endpoint >= allocations[m].free_time
      <3>1. from[l] = l /\ place < num_buckets /\ place + 1 \in 1..num_buckets /\ place + 1 <= l
        BY <1>3, <1>10, <2>7, <2>9 DEF CameFrom
      <3>2. buckets[place + 1].max_endpoint <= buckets[l].max_endpoint
        BY <2>3, <3>1
      <3> QED BY <1>10, <2>4, <3>1, <3>2
    <2>10. PutLast(root, next, m, place, from)
      <3>1. place \in 1..num_buckets' /\ num_buckets' = num_buckets /\ buckets'[place] = bucket
        BY <1>15
      <3>2. /\ next[m] = next[buckets'[place].list]
            /\ buckets'[place].max_endpoint = allocations[m].free_time
            /\ RootOf(root, f) = next[buckets'[place].list]
        BY <1>4, <1>7, <1>8, <1>17, <3>1, <1>12, <1>3
      <3>3. \A x \in 0..m - 1 : next[x] = root[x]
        BY <1>3, <1>12
      <3>4. f \in 1..num_buckets
        OBVIOUS
      <3> QED BY ONLY <2>5, <2>7, <2>8, <2>9, <3>1, <3>2, <3>3, <3>4 DEF PutLast
    <2>11. TypeOK /\ num_buckets' \in Nat /\ m \in Index /\ InBuckets(root, m)
      BY <1>3, <1>15
    <2>12. TightBuckets(next, m + 1)'
      BY ONLY <2>1, <2>10, <2>11, TightStays
    <2> QED BY <2>2, <2>12
  <1>21. InBuckets(next, m + 1)'
    <2>1. /\ \A j \in 0..(m + 1) - 1 : next[j] \in 0..j
          /\ \A k \in 0..(m + 1) - 1 : \A j \in 0..k - 1 : Follows(next, j, k)'
          /\ \A j \in 0..(m + 1) - 1 : ParentIsLast(next, j)'
          /\ \A j \in 0..(m + 1) - 1 : \E b \in 1..num_buckets : RootOf(next, b)' = next[j]
      BY <1>14, <1>20
    <2>2. \A b \in 1..num_buckets' : HeadIsLast(next, buckets[b], m + 1)'
      BY <1>15, <1>18
    <2>3. \A a, b \in 1..num_buckets' : a # b => RootOf(next, a)' # RootOf(next, b)'
      BY <1>15, <1>19
    <2> QED BY ONLY <1>15, <1>24, <2>1, <2>2, <2>3 DEF InBuckets
  <1>22. TypeOK'
    BY <1>3, <1>11, <1>13, <1>15 DEF TypeOK, Bucket
  <1>23. BucketsInv(next)'
    <2>1. PICK n \in Nat : n = m + 1
      BY <1>2
    <2>2. InBuckets(next, n)' /\ n <= num_allocations' /\ pc' = "buckets" /\ n = i' /\ address' = 0
      BY <1>1, <1>3, <1>11, <1>13, <1>21, <2>1 DEF BucketsInv, TypeOK
    <2> QED BY <2>2 DEF BucketsInv
  <1> QED BY <1>13, <1>22, <1>23 DEF IInv

-----------------------------------------------------------------------------
(* The second loop                                                         *)

\* Addresses do not matter to the buckets.
LEMMA BucketsStay ==
  ASSUME TypeOK, NEW root, InBuckets(root, num_allocations),
         Index' = Index, num_allocations' = num_allocations, buckets' = buckets,
         \A j \in Index : /\ allocations'[j].alloc_time = allocations[j].alloc_time
                          /\ allocations'[j].free_time = allocations[j].free_time
                          /\ allocations'[j].parent = allocations[j].parent
  PROVE  InBuckets(root, num_allocations)'
  <1>1. PICK n \in Nat : n = num_allocations
    BY NumAllocations
  <1>2. \A k \in 0..n - 1 : k \in Index /\ \A j \in 0..k - 1 : j \in Index
    BY <1>1 DEF Index
  <1>3. \A k \in 0..n - 1 : \A j \in 0..k - 1 : Follows(root, j, k)'
    BY <1>1, <1>2 DEF InBuckets, Follows
  <1>4. \A j \in 0..n - 1 : ParentIsLast(root, j)'
    BY <1>1, <1>2 DEF InBuckets, ParentIsLast
  <1>5. \A b \in 1..num_buckets : HeadIsLast(root, buckets[b], n)'
    BY <1>1, <1>2 DEF InBuckets, HeadIsLast
  <1>6. /\ \A j \in 0..n - 1 : root[j] \in 0..j
        /\ \A a, b \in 1..num_buckets : a # b => RootOf(root, a)' # RootOf(root, b)'
        /\ \A j \in 0..n - 1 : \E b \in 1..num_buckets : RootOf(root, b)' = root[j]
    BY <1>1 DEF InBuckets, RootOf
  <1>7. num_buckets' = num_buckets /\ n = num_allocations'
    BY <1>1 DEF num_buckets
  <1>8. Starts' = Starts /\ Ends' = Ends
    BY DEF Starts, Ends
  <1>9. EndPoints' = EndPoints /\ Roots(root)' = Roots(root)
    BY <1>7 DEF EndPoints, Roots, RootOf
  <1>10. SortedByEnd' /\ TightBuckets(root, n)'
    <2>1. SortedByEnd /\ TightBuckets(root, n)
      BY <1>1 DEF InBuckets
    <2>2. SortedByEnd'
      BY <1>8, <2>1 DEF SortedByEnd
    <2>3. TightBuckets(root, n)'
      BY <1>7, <1>8, <1>9, <2>1 DEF TightBuckets
    <2> QED BY <2>2, <2>3
  <1> QED BY <1>3, <1>4, <1>5, <1>6, <1>7, <1>10 DEF InBuckets

\* The walk along the next bucket begins at its last allocation.
LEMMA WalkStarts ==
  ASSUME TypeOK, NEW root, InBuckets(root, num_allocations),
         Index' = Index, buckets' = buckets,
         NEW k \in 0..num_buckets, StartOn(k)
  PROVE  /\ i' = k /\ pc' \in {"addresses", "done"} /\ node' \in Nat /\ max_size' \in Nat
         /\ pc' = "addresses" => Walking(root)'
         /\ pc' = "done" => i' = num_buckets'
  <1>1. num_buckets \in Nat /\ num_buckets' = num_buckets
    BY DEF TypeOK, num_buckets
  <1>2. CASE k < num_buckets
    <2>1. PICK b \in 1..num_buckets : b = k + 1
      BY <1>1, <1>2
    <2>2. PICK head \in Bucket : head = buckets[b]
      BY DEF TypeOK, num_buckets
    <2>3. PICK l \in Index : /\ l = head.list /\ l \in Nat
                             /\ \A j \in l + 1..num_allocations - 1 : root[j] # root[l]
      <3>1. HeadIsLast(root, head, num_allocations)
        BY <2>2 DEF InBuckets
      <3> QED BY <3>1, NumAllocations DEF HeadIsLast, Index
    <2>4. /\ i' = k /\ pc' = "addresses" /\ node' = l /\ max_size' = 0
      BY <1>2, <2>1, <2>2, <2>3 DEF StartOn
    <2>5. RootOf(root, b)' = root[l]
      BY <2>2, <2>3 DEF RootOf
    <2>6. ASSUME NEW j \in Index, root[j] = root[l], j > l PROVE FALSE
      BY <2>3, <2>6, NumAllocations DEF Index
    <2>7. RootOf(root, i + 1)' = root[l]
      BY <2>1, <2>4, <2>5 DEF RootOf
    <2>8. Walking(root)'
      <3>1. \A j \in Index : ~Visited(root, j)'
        BY <2>4, <2>6, <2>7 DEF Visited
      <3>2. i' < num_buckets' /\ node' \in Index' /\ root[node'] = RootOf(root, i + 1)'
        BY <1>1, <1>2, <2>3, <2>4, <2>7
      <3> QED BY <2>4, <3>1, <3>2 DEF Walking
    <2> QED BY <2>3, <2>4, <2>8
  <1>3. CASE ~(k < num_buckets)
    BY <1>1, <1>3 DEF StartOn, NIL
  <1> QED BY <1>2, <1>3

LEMMA AllHaveBuckets ==
  ASSUME IInv, AllInBuckets
  PROVE  IInv'
  <1>1. PICK root \in [Index -> Index] : BucketsInv(root)
    BY DEF IInv
  <1>2. /\ TypeOK /\ pc = "buckets" /\ InBuckets(root, num_allocations) /\ address = 0
        /\ UNCHANGED <<allocations, buckets, address>> /\ StartOn(0)
    BY <1>1 DEF IInv, BucketsInv, AllInBuckets
  <1>3. Index' = Index /\ num_allocations' = num_allocations
    BY <1>2 DEF Index, num_allocations
  <1>4. InBuckets(root, num_allocations)'
    BY <1>2, <1>3, BucketsStay
  <1>5. /\ i' = 0 /\ pc' \in {"addresses", "done"} /\ node' \in Nat /\ max_size' \in Nat
        /\ pc' = "addresses" => Walking(root)'
        /\ pc' = "done" => i' = num_buckets'
    <2>1. 0 \in 0..num_buckets
      BY <1>2 DEF TypeOK, num_buckets
    <2> QED BY <1>2, <1>3, <2>1, WalkStarts
  <1>6. TypeOK'
    BY <1>2, <1>3, <1>5 DEF TypeOK, Bucket
  <1>7. PlacedApart(root)'
    <2>1. \A j \in Index : ~Placed(root, j)'
      BY <1>5 DEF Placed
    <2> QED BY <1>2, <1>3, <2>1 DEF PlacedApart
  <1>8. BucketsInv(root)'
    BY <1>4, <1>5, <1>7 DEF BucketsInv
  <1> QED BY <1>3, <1>6, <1>8 DEF IInv

\* The allocation the walk is at gets the address of its bucket.
LEMMA AddressGiven ==
  ASSUME TypeOK, NEW root, InBuckets(root, num_allocations), Walking(root), HandOut,
         NEW n, n = node
  PROVE  /\ n \in Index /\ Index' = Index /\ num_allocations' = num_allocations
         /\ allocations' \in [Index -> Slot] /\ buckets' = buckets
         /\ \A k \in Index : /\ allocations'[k].alloc_time < allocations'[k].free_time
                             /\ k # n => allocations'[k] = allocations[k]
         /\ allocations'[n].alloc_size = allocations[n].alloc_size
         /\ allocations'[n].address = address
         /\ InBuckets(root, num_allocations)'
  <1>1. n \in Index /\ buckets' = buckets
    BY DEF Walking, HandOut
  <1>2. PICK new \in Slot :
          /\ new = [allocations[n] EXCEPT !.address = address]
          /\ new.alloc_time = allocations[n].alloc_time /\ new.free_time = allocations[n].free_time
          /\ new.alloc_size = allocations[n].alloc_size /\ new.parent = allocations[n].parent
          /\ new.address = address
    <2>1. allocations[n] \in Slot /\ address \in Nat
      BY <1>1 DEF TypeOK
    <2>2. [allocations[n] EXCEPT !.address = address] \in Slot
      BY <2>1 DEF Slot
    <2> QED BY <2>1, <2>2 DEF Slot
  <1>3. allocations' = [allocations EXCEPT ![n] = new]
    BY <1>2 DEF HandOut
  <1>4. /\ num_allocations' = num_allocations /\ Index' = Index
        /\ allocations' \in [Index -> Slot]
        /\ \A k \in Index : /\ allocations'[k].alloc_time = allocations[k].alloc_time
                            /\ allocations'[k].free_time = allocations[k].free_time
                            /\ allocations'[k].alloc_time < allocations'[k].free_time
                            /\ k # n => allocations'[k] = allocations[k]
        /\ allocations'[n] = new
    <2>1. TypeOK
      OBVIOUS
    <2> QED BY ONLY <1>1, <1>2, <1>3, <2>1, Changed
  <1>5. InBuckets(root, num_allocations)'
    <2>1. \A j \in Index : /\ allocations'[j].alloc_time = allocations[j].alloc_time
                           /\ allocations'[j].free_time = allocations[j].free_time
                           /\ allocations'[j].parent = allocations[j].parent
      BY <1>2, <1>4
    <2> QED BY <1>1, <1>4, <2>1, BucketsStay
  <1> QED BY <1>1, <1>2, <1>4, <1>5

LEMMA LargerIs ==
  ASSUME TypeOK, NEW size \in Nat
  PROVE  /\ Larger(size) \in Nat /\ size <= Larger(size) /\ max_size <= Larger(size)
         /\ Larger(size) = size \/ Larger(size) = max_size
  BY DEF TypeOK, Larger

LEMMA SizesAreNat ==
  ASSUME NEW a \in Slot
  PROVE  a.alloc_size \in Nat /\ a.address \in Nat /\ a.parent \in Nat /\ EndOf(a) = a.address + a.alloc_size
  <1>1. Sizes \subseteq Nat
    BY SequenceAssumption
  <1> QED BY <1>1 DEF Slot, EndOf

\* The walk goes on with the parent.
LEMMA WalkGoesOn ==
  ASSUME IInv, HandOut, allocations[node].parent # NIL
  PROVE  IInv'
  <1>1. PICK root \in [Index -> Index] : BucketsInv(root)
    BY DEF IInv
  <1>2. PICK n \in Index : n = node
    BY <1>1 DEF BucketsInv, HandOut, Walking
  <1>3. /\ TypeOK /\ pc = "addresses" /\ InBuckets(root, num_allocations)
        /\ PlacedApart(root) /\ Walking(root)
    BY <1>1 DEF IInv, BucketsInv, HandOut
  <1>4. /\ n \in Index /\ Index' = Index /\ num_allocations' = num_allocations
        /\ allocations' \in [Index -> Slot] /\ buckets' = buckets
        /\ \A k \in Index : /\ allocations'[k].alloc_time < allocations'[k].free_time
                            /\ k # n => allocations'[k] = allocations[k]
        /\ allocations'[n].alloc_size = allocations[n].alloc_size
        /\ allocations'[n].address = address
        /\ InBuckets(root, num_allocations)'
    BY <1>2, <1>3, AddressGiven
  <1>5. PICK p \in 0..n - 1 : /\ p = allocations[n].parent /\ p \in Index /\ p \in Nat
                              /\ root[p] = root[n]
                              /\ \A k \in p + 1..n - 1 : root[k] # root[n]
    <2>1. ParentIsLast(root, n)
      BY <1>2, <1>3 DEF InBuckets, Index
    <2>2. PICK p : p = allocations[n].parent /\ p # NIL
      BY <1>2
    <2>3. p \in 0..n - 1 /\ root[p] = root[n] /\ \A k \in p + 1..n - 1 : root[k] # root[n]
      BY <2>1, <2>2 DEF ParentIsLast
    <2>4. p \in Index /\ p \in Nat
      BY <1>2, <1>3, <2>3, NumAllocations DEF Index
    <2> QED BY <2>2, <2>3, <2>4
  <1>6. PICK size \in Nat : size = allocations[n].alloc_size
    BY <1>3, SizesAreNat DEF TypeOK
  <1>7. /\ node' = p /\ max_size' = Larger(size)
        /\ UNCHANGED <<pc, i, address, buckets>>
    BY <1>2, <1>5, <1>6 DEF HandOut
  <1>8. /\ max_size' \in Nat /\ size <= max_size' /\ max_size <= max_size'
        /\ max_size' = size \/ max_size' = max_size
    BY <1>3, <1>7, LargerIs
  <1>9. TypeOK'
    BY <1>3, <1>4, <1>5, <1>7, <1>8 DEF TypeOK, Bucket
  <1>10. PICK R : R = RootOf(root, i + 1) /\ R = RootOf(root, i + 1)' /\ R = root[n]
    BY <1>2, <1>3, <1>7 DEF Walking, RootOf
  <1>11. \A j \in Index : Placed(root, j)' <=> Placed(root, j)
    BY <1>7 DEF Placed, RootOf
  <1>12. ~Placed(root, n)
    <2>1. i \in Nat /\ i < num_buckets /\ num_buckets \in Nat
      BY <1>3 DEF Walking, TypeOK, num_buckets
    <2>2. \A b \in 1..i : RootOf(root, b) # RootOf(root, i + 1)
      BY <1>3, <2>1 DEF InBuckets
    <2> QED BY <1>10, <2>2 DEF Placed
  <1>13. PlacedApart(root)'
    <2>1. \A j \in Index : Placed(root, j) => allocations'[j] = allocations[j]
      BY <1>4, <1>12
    <2>2. \A j \in Index : Placed(root, j) => EndOf(allocations[j])' = EndOf(allocations[j])
      BY <2>1 DEF EndOf
    <2> QED BY <1>3, <1>4, <1>7, <1>11, <2>1, <2>2 DEF PlacedApart
  <1>14. \A j \in Index : Visited(root, j)' <=> Visited(root, j) \/ j = n
    <2>1. ASSUME NEW j \in Index PROVE Visited(root, j)' <=> root[j] = R /\ j > p
      BY <1>7, <1>10 DEF Visited
    <2>2. ASSUME NEW j \in Index PROVE Visited(root, j) <=> root[j] = R /\ j > n
      BY <1>2, <1>10 DEF Visited
    <2>3. ASSUME NEW j \in Index PROVE root[j] = R /\ j > p <=> (root[j] = R /\ j > n) \/ j = n
      <3>1. j \in Nat /\ n \in Nat
        BY <1>3, NumAllocations DEF Index
      <3>2. j \in p + 1..n - 1 => root[j] # R
        BY <1>5, <1>10
      <3> QED BY <1>5, <1>10, <3>1, <3>2
    <2> QED BY <2>1, <2>2, <2>3
  <1>15. Walking(root)'
    <2>1. \A j \in Index : Visited(root, j)' => /\ allocations'[j].address = address'
                                                /\ allocations'[j].alloc_size <= max_size'
      <3>1. SUFFICES ASSUME NEW j \in Index, Visited(root, j)'
                     PROVE  /\ allocations'[j].address = address'
                            /\ allocations'[j].alloc_size <= max_size'
        OBVIOUS
      <3>2. CASE j = n
        BY <1>4, <1>6, <1>7, <1>8, <3>2
      <3>3. CASE j # n
        <4>1. Visited(root, j)
          BY <1>14, <3>1, <3>3
        <4>2. allocations[j].address = address /\ allocations[j].alloc_size <= max_size
          BY <1>3, <4>1 DEF Walking
        <4>3. allocations[j].alloc_size \in Nat /\ max_size \in Nat
          BY <1>3, SizesAreNat DEF TypeOK
        <4> QED BY <1>4, <1>7, <1>8, <3>3, <4>2, <4>3
      <3> QED BY <3>2, <3>3
    <2>2. max_size' > 0 => \E j \in Index : Visited(root, j)' /\ allocations'[j].alloc_size = max_size'
      <3>1. CASE max_size' = size
        BY <1>4, <1>6, <1>14, <3>1
      <3>2. CASE max_size' = max_size /\ max_size' > 0
        <4>1. PICK j \in Index : Visited(root, j) /\ allocations[j].alloc_size = max_size
          BY <1>3, <3>2 DEF Walking
        <4>2. j # n
          BY <1>2, <1>3, <4>1, NumAllocations DEF Visited, Index
        <4> QED BY <1>4, <1>14, <3>2, <4>1, <4>2
      <3> QED BY <1>8, <3>1, <3>2
    <2>3. i' < num_buckets' /\ node' \in Index' /\ root[node'] = RootOf(root, i + 1)'
      BY <1>3, <1>4, <1>5, <1>7, <1>10 DEF Walking, num_buckets
    <2> QED BY <1>4, <2>1, <2>2, <2>3 DEF Walking
  <1>16. BucketsInv(root)'
    BY <1>3, <1>4, <1>7, <1>13, <1>15 DEF BucketsInv
  <1> QED BY <1>4, <1>9, <1>16 DEF IInv

\* The walk was at the first allocation of the bucket: the next bucket is behind it.
LEMMA WalkEnds ==
  ASSUME IInv, HandOut, allocations[node].parent = NIL
  PROVE  IInv'
  <1>1. PICK root \in [Index -> Index] : BucketsInv(root)
    BY DEF IInv
  <1>2. PICK n \in Index : n = node
    BY <1>1 DEF BucketsInv, HandOut, Walking
  <1>3. /\ TypeOK /\ pc = "addresses" /\ InBuckets(root, num_allocations)
        /\ PlacedApart(root) /\ Walking(root)
    BY <1>1 DEF IInv, BucketsInv, HandOut
  <1>4. /\ n \in Index /\ Index' = Index /\ num_allocations' = num_allocations
        /\ allocations' \in [Index -> Slot] /\ buckets' = buckets
        /\ \A k \in Index : /\ allocations'[k].alloc_time < allocations'[k].free_time
                            /\ k # n => allocations'[k] = allocations[k]
        /\ allocations'[n].alloc_size = allocations[n].alloc_size
        /\ allocations'[n].address = address
        /\ InBuckets(root, num_allocations)'
    BY <1>2, <1>3, AddressGiven
  <1>5. \A k \in 0..n - 1 : root[k] # root[n]
    <2>1. ParentIsLast(root, n)
      BY <1>2, <1>3 DEF InBuckets, Index
    <2> QED BY <1>2, <2>1 DEF ParentIsLast
  <1>6. PICK size \in Nat : size = allocations[n].alloc_size
    BY <1>3, SizesAreNat DEF TypeOK
  <1>7. PICK at \in Nat, largest \in Nat, this \in 1..num_buckets :
          /\ at = address /\ this = i + 1 /\ address' = at + largest
          /\ size <= largest /\ max_size <= largest /\ (largest = size \/ largest = max_size)
    <2>1. /\ Larger(size) \in Nat /\ size <= Larger(size) /\ max_size <= Larger(size)
          /\ Larger(size) = size \/ Larger(size) = max_size
      BY <1>3, LargerIs
    <2>2. address \in Nat /\ i + 1 \in 1..num_buckets
      BY <1>3 DEF TypeOK, Walking, num_buckets
    <2>3. address' = address + Larger(size)
      BY <1>2, <1>6 DEF HandOut, NIL
    <2> QED BY <2>1, <2>2, <2>3
  <1>8. StartOn(this)
    BY <1>2, <1>7 DEF HandOut, NIL
  <1>9. /\ i' = this /\ pc' \in {"addresses", "done"} /\ node' \in Nat /\ max_size' \in Nat
        /\ pc' = "addresses" => Walking(root)'
        /\ pc' = "done" => i' = num_buckets'
    <2>1. this \in 0..num_buckets
      BY <1>3 DEF TypeOK, num_buckets
    <2> QED BY <1>3, <1>4, <1>8, <2>1, WalkStarts
  <1>10. TypeOK'
    <2>1. address' \in Nat /\ i' \in Nat
      BY <1>7, <1>9
    <2> QED BY <1>3, <1>4, <1>9, <2>1 DEF TypeOK, Bucket
  <1>11. PICK R : R = RootOf(root, this) /\ R = root[n]
    BY <1>2, <1>3, <1>7 DEF Walking
  <1>12. \A j \in Index : /\ Placed(root, j)' <=> Placed(root, j) \/ root[j] = R
                          /\ Placed(root, j) => root[j] # R
    <2>1. i \in Nat /\ this = i + 1 /\ this \in 1..num_buckets /\ num_buckets \in Nat
      BY <1>3, <1>7 DEF TypeOK, num_buckets
    <2>2. \A b \in 1..i : RootOf(root, b) # RootOf(root, this)
      BY <1>3, <2>1 DEF InBuckets
    <2>3. \A b \in 1..this : RootOf(root, b)' = RootOf(root, b)
      BY <1>4 DEF RootOf
    <2>4. \A j \in Index : Placed(root, j)' <=> \E b \in 1..this : RootOf(root, b) = root[j]
      BY <1>9, <2>3 DEF Placed
    <2>5. \A j \in Index : Placed(root, j) <=> \E b \in 1..i : RootOf(root, b) = root[j]
      BY DEF Placed
    <2>6. \A b \in 1..this : b = this \/ b \in 1..i
      BY <2>1
    <2>7. this \in 1..this /\ \A b \in 1..i : b \in 1..this
      BY <2>1
    <2> QED BY <1>11, <2>2, <2>4, <2>5, <2>6, <2>7
  <1>13. ASSUME NEW j \in Index
         PROVE  /\ allocations'[j].address \in Nat /\ allocations'[j].alloc_size \in Nat
                /\ EndOf(allocations'[j]) = allocations'[j].address + allocations'[j].alloc_size
    BY <1>4, SizesAreNat
  <1>14. ASSUME NEW j \in Index, root[j] = R
         PROVE  allocations'[j].address = at /\ EndOf(allocations'[j]) <= at + largest
    <2>1. CASE j = n
      BY <1>4, <1>6, <1>7, <1>13, <2>1
    <2>2. CASE j # n
      <3>1. j > n
        BY <1>5, <1>11, <1>14, <2>2, <1>3, NumAllocations DEF Index
      <3>2. Visited(root, j)
        BY <1>2, <1>7, <1>11, <1>14, <3>1 DEF Visited
      <3>3. allocations[j].address = address /\ allocations[j].alloc_size <= max_size
        BY <1>3, <3>2 DEF Walking
      <3>4. max_size \in Nat
        BY <1>3 DEF TypeOK
      <3> QED BY <1>4, <1>7, <1>13, <2>2, <3>3, <3>4
    <2> QED BY <2>1, <2>2
  <1>15. ASSUME NEW j \in Index, Placed(root, j)
         PROVE  allocations'[j] = allocations[j] /\ EndOf(allocations'[j]) <= at
    <2>1. j # n
      BY <1>11, <1>12, <1>15
    <2>2. allocations'[j] = allocations[j]
      BY <1>4, <2>1
    <2>3. EndOf(allocations[j]) <= address
      BY <1>3, <1>15 DEF PlacedApart
    <2> QED BY <1>7, <2>2, <2>3
  <1>16. ASSUME NEW j \in Index, Placed(root, j)'
         PROVE  EndOf(allocations'[j]) <= address'
    <2>1. CASE root[j] = R
      BY <1>7, <1>14, <2>1
    <2>2. CASE root[j] # R
      <3>1. EndOf(allocations'[j]) <= at
        BY <1>12, <1>15, <1>16, <2>2
      <3>2. EndOf(allocations'[j]) \in Nat
        BY <1>13
      <3> QED BY <1>7, <3>1, <3>2
    <2> QED BY <2>1, <2>2
  <1>17. ASSUME NEW j \in Index, NEW k \in Index, Placed(root, j)', Placed(root, k)', root[j] # root[k]
         PROVE  \/ EndOf(allocations'[j]) <= allocations'[k].address
                \/ EndOf(allocations'[k]) <= allocations'[j].address
    <2>1. CASE root[j] = R
      <3>1. Placed(root, k)
        BY <1>12, <1>17, <2>1
      <3> QED BY <1>14, <1>15, <2>1, <3>1
    <2>2. CASE root[k] = R
      <3>1. Placed(root, j)
        BY <1>12, <1>17, <2>2
      <3> QED BY <1>14, <1>15, <2>2, <3>1
    <2>3. CASE root[j] # R /\ root[k] # R
      <3>1. Placed(root, j) /\ Placed(root, k)
        BY <1>12, <1>17, <2>3
      <3>2. \/ EndOf(allocations[j]) <= allocations[k].address
            \/ EndOf(allocations[k]) <= allocations[j].address
        BY <1>3, <1>17, <3>1 DEF PlacedApart
      <3> QED BY <1>15, <3>1, <3>2
    <2> QED BY <2>1, <2>2, <2>3
  <1>18. address' > 0 => \E j \in Index : Placed(root, j)' /\ EndOf(allocations'[j]) = address'
    <2>1. CASE largest = size
      <3>1. Placed(root, n)' /\ EndOf(allocations'[n]) = at + size
        BY <1>4, <1>6, <1>7, <1>11, <1>12, <1>13
      <3> QED BY <1>4, <1>7, <2>1, <3>1
    <2>2. CASE largest = max_size /\ largest > 0
      <3>1. PICK j \in Index : Visited(root, j) /\ allocations[j].alloc_size = max_size
        BY <1>3, <2>2 DEF Walking
      <3>2. root[j] = R /\ j # n
        BY <1>2, <1>3, <1>7, <1>11, <3>1, NumAllocations DEF Visited, Index
      <3>3. allocations'[j].alloc_size = largest /\ allocations'[j].address = at
        BY <1>4, <1>14, <2>2, <3>1, <3>2
      <3>4. Placed(root, j)' /\ EndOf(allocations'[j]) = at + largest
        BY <1>12, <1>13, <3>2, <3>3
      <3> QED BY <1>7, <3>4
    <2>3. CASE largest = 0 /\ at > 0
      <3>1. PICK j \in Index : Placed(root, j) /\ EndOf(allocations[j]) = address
        BY <1>3, <1>7, <2>3 DEF PlacedApart
      <3>2. Placed(root, j)' /\ EndOf(allocations'[j]) = at
        BY <1>7, <1>12, <1>15, <3>1
      <3> QED BY <1>7, <2>3, <3>2
    <2>4. CASE largest = 0 /\ at = 0
      BY <1>7, <2>4
    <2> QED BY <1>7, <2>1, <2>2, <2>3, <2>4
  <1>19. PlacedApart(root)'
    <2>1. \A j \in Index : EndOf(allocations[j])' = EndOf(allocations'[j])
      BY DEF EndOf
    <2> QED BY <1>4, <1>16, <1>17, <1>18, <2>1 DEF PlacedApart
  <1>20. BucketsInv(root)'
    BY <1>4, <1>9, <1>19 DEF BucketsInv
  <1> QED BY <1>4, <1>10, <1>20 DEF IInv

LEMMA Stutters ==
  ASSUME IInv, UNCHANGED vars
  PROVE  IInv'
  <1> USE DEF vars
  <1>1. Index' = Index /\ num_allocations' = num_allocations /\ num_buckets' = num_buckets
    BY DEF Index, num_allocations, num_buckets
  <1>2. PICK root \in [Index -> Index] : BucketsInv(root)
    BY DEF IInv
  <1>3. TypeOK'
    BY <1>1 DEF IInv, TypeOK, Bucket
  <1>4. InBuckets(root, IF pc = "buckets" THEN i ELSE num_allocations)'
    <2>1. PICK n : n = IF pc = "buckets" THEN i ELSE num_allocations
      OBVIOUS
    <2>2. InBuckets(root, n)
      BY <1>2, <2>1 DEF BucketsInv
    <2>3. InBuckets(root, n)'
      <3>1. /\ Starts' = Starts /\ Ends' = Ends
            /\ EndPoints' = EndPoints /\ Roots(root)' = Roots(root)
        BY <1>1 DEF Starts, Ends, EndPoints, Roots, RootOf
      <3>2. SortedByEnd' = SortedByEnd /\ TightBuckets(root, n)' = TightBuckets(root, n)
        BY <1>1, <3>1 DEF SortedByEnd, TightBuckets
      <3>3. /\ \A j, k \in Nat : Follows(root, j, k)' = Follows(root, j, k)
            /\ \A j \in Nat : ParentIsLast(root, j)' = ParentIsLast(root, j)
            /\ \A b \in 1..num_buckets : HeadIsLast(root, buckets[b], n)' = HeadIsLast(root, buckets[b], n)
            /\ \A b \in 1..num_buckets : RootOf(root, b)' = RootOf(root, b)
        BY <1>1 DEF Follows, ParentIsLast, HeadIsLast, RootOf
      <3> QED BY <1>1, <2>2, <3>2, <3>3 DEF InBuckets
    <2> QED BY <1>1, <2>1, <2>3
  <1>5. pc # "buckets" => PlacedApart(root)'
    BY <1>1, <1>2 DEF BucketsInv, PlacedApart, Placed, RootOf, EndOf
  <1>6. pc = "addresses" => Walking(root)'
    BY <1>1, <1>2 DEF BucketsInv, Walking, Visited, RootOf
  <1>7. BucketsInv(root)'
    BY <1>1, <1>2, <1>4, <1>5, <1>6 DEF BucketsInv
  <1> QED BY <1>1, <1>3, <1>7 DEF IInv

LEMMA Stays == IInv /\ [Next]_vars => IInv'
  <1> SUFFICES ASSUME IInv, [Next]_vars PROVE IInv'
    OBVIOUS
  <1>1. CASE AddToBucket
    BY <1>1, BucketJoins
  <1>2. CASE StartBucket
    BY <1>2, BucketStarts
  <1>3. CASE AllInBuckets
    BY <1>3, AllHaveBuckets
  <1>4. CASE HandOut
    BY <1>4, WalkGoesOn, WalkEnds
  <1>5. CASE UNCHANGED vars
    BY <1>5, Stutters
  <1> QED BY <1>1, <1>2, <1>3, <1>4, <1>5 DEF Next

-----------------------------------------------------------------------------
(* What it is for                                                          *)

\* Of two allocations of a bucket the second begins when the first is freed.
LEMMA NoOverlapInBucket ==
  ASSUME TypeOK, NEW root, InBuckets(root, num_allocations),
         NEW j \in Index, NEW k \in Index, j # k, root[j] = root[k]
  PROVE  ~Overlap(allocations[j], allocations[k])
  <1>1. num_allocations \in Nat
    BY NumAllocations
  <1>2. ASSUME NEW a \in Index, NEW b \in Index, a < b, root[a] = root[b]
        PROVE  allocations[a].free_time <= allocations[b].alloc_time
    <2>1. b \in 0..num_allocations - 1 /\ a \in 0..b - 1
      BY <1>1, <1>2 DEF Index
    <2> QED BY <1>2, <2>1 DEF InBuckets, Follows
  <1>3. /\ allocations[j].free_time \in Nat /\ allocations[j].alloc_time \in Nat
        /\ allocations[k].free_time \in Nat /\ allocations[k].alloc_time \in Nat
    BY Times
  <1>4. \/ allocations[j].free_time <= allocations[k].alloc_time
        \/ allocations[k].free_time <= allocations[j].alloc_time
    <2>1. j < k \/ k < j
      BY <1>1 DEF Index
    <2> QED BY <1>2, <2>1
  <1>5. 0..LastTime \subseteq Int
    OBVIOUS
  <1> QED BY <1>3, <1>4, <1>5 DEF Overlap, LiveAt

LEMMA ApartWhenDone == IInv => OverlapApart
  <1> SUFFICES ASSUME IInv, pc = "done" PROVE OverlapApart
    BY DEF OverlapApart
  <1>1. PICK root \in [Index -> Index] : BucketsInv(root)
    BY DEF IInv
  <1>2. TypeOK /\ InBuckets(root, num_allocations) /\ PlacedApart(root) /\ i = num_buckets
    BY <1>1 DEF IInv, BucketsInv
  <1>3. DOMAIN allocations = Index
    BY <1>2 DEF TypeOK
  <1>4. \A j \in Index : Placed(root, j)
    BY <1>2 DEF InBuckets, Placed, Index
  <1>5. ASSUME NEW j \in Index, NEW k \in Index, j # k, Overlap(allocations[j], allocations[k])
        PROVE  \/ EndOf(allocations[j]) <= allocations[k].address
               \/ EndOf(allocations[k]) <= allocations[j].address
    <2>1. root[j] # root[k]
      BY <1>2, <1>5, NoOverlapInBucket
    <2> QED BY <1>2, <1>4, <2>1 DEF PlacedApart
  <1> QED BY <1>2, <1>3, <1>4, <1>5 DEF OverlapApart, PlacedApart

\* At the end allocations that live at the same time do not overlap in memory, and
\* the memory reported ends where the last of them does (g_process_sequence).
THEOREM SequenceOverlapApart == Spec => []OverlapApart
  <1>1. Init => IInv
    BY Initially
  <1>2. IInv /\ [Next]_vars => IInv'
    BY Stays
  <1>3. IInv => OverlapApart
    BY ApartWhenDone
  <1> QED BY <1>1, <1>2, <1>3, PTL DEF Spec

LEMMA InjectionBounds ==
  ASSUME NEW S, NEW T, IsFiniteSet(T), NEW f \in [S -> T],
         \A x, y \in S : f[x] = f[y] => x = y
  PROVE  Cardinality(S) <= Cardinality(T)
  <1>1. f \in Injection(S, T)
    BY DEF Injection, IsInjective
  <1> QED BY <1>1, FS_Injection

\* The allocations that have a bucket and are alive at a time.
AliveAt(t) == {j \in Processed : LiveAt(allocations[j], t)}

\* Of each bucket at most one allocation is alive.
LEMMA NoMoreThanBuckets ==
  ASSUME TypeOK, NEW n \in Nat, n <= num_allocations, Processed = 0..n - 1, NEW root,
         InBuckets(root, n), NEW t \in 0..LastTime
  PROVE  Cardinality(AliveAt(t)) <= num_buckets
  <1>1. num_buckets \in Nat /\ IsFiniteSet(1..num_buckets) /\ Cardinality(1..num_buckets) = num_buckets
    <2>1. PICK N \in Nat : N = num_buckets
      BY DEF TypeOK, num_buckets
    <2>2. IsFiniteSet(1..N) /\ Cardinality(1..N) = IF 1 > N THEN 0 ELSE N - 1 + 1
      <3>1. 1 \in Int /\ N \in Int
        OBVIOUS
      <3> QED BY ONLY <3>1, FS_Interval, Zenon
    <2> QED BY <2>1, <2>2
  <1>2. /\ \A j \in 0..n - 1 : \E b \in 1..num_buckets : RootOf(root, b) = root[j]
        /\ \A k \in 0..n - 1 : \A j \in 0..k - 1 : Follows(root, j, k)
    BY DEF InBuckets
  <1>3. \A j \in 0..n - 1 : j \in Index /\ j \in Nat
    BY NumAllocations DEF Index
  <1> DEFINE bucketOf == [j \in AliveAt(t) |-> CHOOSE b \in 1..num_buckets : RootOf(root, b) = root[j]]
  <1>4. \A j \in AliveAt(t) : j \in 0..n - 1 /\ LiveAt(allocations[j], t)
    BY DEF AliveAt
  <1>5. /\ bucketOf \in [AliveAt(t) -> 1..num_buckets]
        /\ \A j \in AliveAt(t) : RootOf(root, bucketOf[j]) = root[j]
    BY <1>2, <1>4
  <1> HIDE DEF bucketOf
  <1>6. ASSUME NEW j \in AliveAt(t), NEW k \in AliveAt(t), j < k, root[j] = root[k] PROVE FALSE
    <2>1. k \in 0..n - 1 /\ j \in 0..k - 1 /\ j \in Index /\ k \in Index
      BY <1>3, <1>4, <1>6
    <2>2. allocations[j].free_time <= allocations[k].alloc_time
      BY <1>2, <1>6, <2>1 DEF Follows
    <2>3. t < allocations[j].free_time /\ allocations[k].alloc_time <= t
      BY <1>4 DEF LiveAt
    <2>4. allocations[j].free_time \in Nat /\ allocations[k].alloc_time \in Nat /\ t \in Nat
      BY <2>1, Times
    <2> QED BY ONLY <2>2, <2>3, <2>4
  <1>7. \A j, k \in AliveAt(t) : bucketOf[j] = bucketOf[k] => j = k
    <2> SUFFICES ASSUME NEW j \in AliveAt(t), NEW k \in AliveAt(t), bucketOf[j] = bucketOf[k], j # k
                 PROVE  FALSE
      OBVIOUS
    <2>1. root[j] = root[k] /\ (j < k \/ k < j)
      BY <1>3, <1>4, <1>5
    <2> QED BY <1>6, <2>1
  <1> QED BY <1>1, <1>5, <1>7, InjectionBounds

\* Just before the first bucket ends, an allocation of each is alive.
LEMMA AllBucketsUsed ==
  ASSUME TypeOK, NEW n \in Nat, n <= num_allocations, Processed = 0..n - 1, NEW root,
         InBuckets(root, n)
  PROVE  \E t \in 0..LastTime : num_buckets <= Cardinality(AliveAt(t))
  <1>1. num_buckets \in Nat /\ LastTime \in Nat
    BY SequenceAssumption DEF TypeOK, num_buckets
  <1>2. \A j \in 0..n - 1 : j \in Index /\ j \in Nat
    BY NumAllocations DEF Index
  <1>3. IsFiniteSet(0..n - 1)
    <2>1. 0 \in Int /\ n - 1 \in Int
      OBVIOUS
    <2> QED BY ONLY <2>1, FS_Interval, Zenon
  <1>4. ASSUME NEW t \in 0..LastTime PROVE IsFiniteSet(AliveAt(t)) /\ Cardinality(AliveAt(t)) \in Nat
    <2>1. AliveAt(t) \in SUBSET (0..n - 1)
      BY DEF AliveAt
    <2>2. IsFiniteSet(AliveAt(t))
      BY <1>3, <2>1, FS_Subset
    <2> QED BY <2>2, FS_CardinalityType
  <1>5. CASE num_buckets = 0
    <2>1. 0 \in 0..LastTime
      BY <1>1
    <2> QED BY <1>4, <1>5, <2>1
  <1>6. CASE num_buckets # 0
    <2>1. PICK N, E, R, starts, ends : N = num_buckets /\ E = EndPoints /\ R = Roots(root)
                                       /\ starts = Starts /\ ends = Ends
      OBVIOUS
    <2>2. /\ \A a, b \in 1..N : a <= b => E[a] <= E[b]
          /\ \A a, b \in 1..N : E[a] <= E[b] =>
               \E x \in 0..n - 1 : root[x] = R[b] /\ starts[x] < E[a] /\ E[a] <= ends[x]
      BY <2>1 DEF InBuckets, TightBuckets, Tight
    <2>3. \A a, b \in 1..N : a # b => R[a] # R[b]
      BY <2>1 DEF InBuckets, Roots
    <2>4. 1 \in 1..N /\ \A b \in 1..N : E[1] <= E[b]
      BY <1>1, <1>6, <2>1, <2>2
    <2>5. E[1] \in 0..LastTime
      <3>1. buckets[1] \in Bucket /\ E[1] = buckets[1].max_endpoint
        BY <2>1, <2>4 DEF TypeOK, num_buckets, EndPoints
      <3> QED BY <3>1 DEF Bucket
    <2>6. \A x \in 0..n - 1 : /\ starts[x] = allocations[x].alloc_time /\ starts[x] \in Nat
                              /\ ends[x] = allocations[x].free_time /\ ends[x] \in Nat
      BY <1>2, <2>1, Times DEF Starts, Ends
    <2>7. E[1] > 0
      <3>1. PICK x \in 0..n - 1 : starts[x] < E[1]
        BY <2>2, <2>4
      <3> QED BY <2>5, <2>6, <3>1
    <2>8. PICK t \in 0..LastTime : t + 1 = E[1]
      <3>1. E[1] - 1 \in 0..LastTime /\ (E[1] - 1) + 1 = E[1]
        BY <1>1, <2>5, <2>7
      <3> QED BY <3>1
    <2> DEFINE one == [b \in 1..N |->
                         CHOOSE x \in 0..n - 1 : root[x] = R[b] /\ starts[x] < E[1] /\ E[1] <= ends[x]]
    <2>9. \A b \in 1..N : /\ one[b] \in 0..n - 1 /\ root[one[b]] = R[b]
                          /\ starts[one[b]] < E[1] /\ E[1] <= ends[one[b]]
      BY <2>2, <2>4
    <2> HIDE DEF one
    <2>10. \A b \in 1..N : one[b] \in AliveAt(t)
      <3> SUFFICES ASSUME NEW b \in 1..N PROVE one[b] \in AliveAt(t)
        OBVIOUS
      <3>1. PICK x \in 0..n - 1 : x = one[b]
        BY <2>9
      <3>2. starts[x] < E[1] /\ E[1] <= ends[x]
        BY <2>9, <3>1
      <3>3. starts[x] <= t /\ t < ends[x]
        BY <2>5, <2>6, <2>8, <3>2
      <3> QED BY <2>6, <3>1, <3>3 DEF AliveAt, LiveAt
    <2>11. one \in [1..N -> AliveAt(t)]
      <3>1. one = [b \in 1..N |-> one[b]]
        BY DEF one
      <3> QED BY <2>10, <3>1
    <2>12. \A a, b \in 1..N : one[a] = one[b] => a = b
      BY <2>3, <2>9
    <2>13. Cardinality(1..N) <= Cardinality(AliveAt(t))
      BY <1>4, <2>11, <2>12, InjectionBounds
    <2>14. Cardinality(1..N) = N
      BY <1>1, <2>1, <2>4, FS_Interval
    <2> QED BY <2>1, <2>13, <2>14
  <1> QED BY <1>5, <1>6

LEMMA NoBucketTooMany == IInv => FewestBuckets
  <1> SUFFICES ASSUME IInv PROVE FewestBuckets
    OBVIOUS
  <1>1. PICK root \in [Index -> Index] : BucketsInv(root)
    BY DEF IInv
  <1>2. PICK n \in Nat : /\ n <= num_allocations /\ n = IF pc = "buckets" THEN i ELSE num_allocations
    <2>1. num_allocations \in Nat /\ i \in Nat
      BY NumAllocations DEF IInv, TypeOK
    <2>2. pc = "buckets" => i <= num_allocations
      BY <1>1 DEF BucketsInv
    <2> QED BY <2>1, <2>2
  <1>3. TypeOK /\ InBuckets(root, n)
    BY <1>1, <1>2 DEF IInv, BucketsInv
  <1>4. Processed = 0..n - 1
    <2>1. DOMAIN allocations = Index
      BY <1>3 DEF TypeOK
    <2> QED BY <1>2, <2>1 DEF Processed, Index
  <1>5. \A t \in 0..LastTime : Cardinality(AliveAt(t)) <= num_buckets
    BY <1>2, <1>3, <1>4, NoMoreThanBuckets
  <1>6. PICK t \in 0..LastTime : num_buckets <= Cardinality(AliveAt(t))
    BY <1>2, <1>3, <1>4, AllBucketsUsed
  <1>7. Cardinality(AliveAt(t)) = num_buckets
    <2>1. IsFiniteSet(AliveAt(t))
      <3>1. AliveAt(t) \in SUBSET (0..n - 1)
        BY <1>4 DEF AliveAt
      <3>2. IsFiniteSet(0..n - 1)
        <4>1. 0 \in Int /\ n - 1 \in Int
          OBVIOUS
        <4> QED BY ONLY <4>1, FS_Interval, Zenon
      <3> QED BY <3>1, <3>2, FS_Subset
    <2>2. Cardinality(AliveAt(t)) \in Nat /\ num_buckets \in Nat
      BY <1>3, <2>1, FS_CardinalityType DEF TypeOK, num_buckets
    <2> QED BY <1>5, <1>6, <2>2
  <1> QED BY <1>5, <1>7 DEF FewestBuckets, AliveAt

\* At every moment there are as many buckets as allocations of them live at the same
\* time: no order of the allocations needs fewer (the first loop of g_process_sequence).
THEOREM SequenceFewestBuckets == Spec => []FewestBuckets
  <1>1. Init => IInv
    BY Initially
  <1>2. IInv /\ [Next]_vars => IInv'
    BY Stays
  <1>3. IInv => FewestBuckets
    BY NoBucketTooMany
  <1> QED BY <1>1, <1>2, <1>3, PTL DEF Spec

=============================================================================
