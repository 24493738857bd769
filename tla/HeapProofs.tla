----------------------------- MODULE HeapProofs -----------------------------
(***************************************************************************)
(* Proofs about HeapSizes and Heap: for every set of requests, every       *)
(* reserved size and every number of second level lists that 31 bits hold. *)
(***************************************************************************)
EXTENDS MCHeap, Arithmetic, FiniteSetTheorems, TLAPS

\* The sizes are below the range of log2floor; the code has SL_SHIFT 4.
HeapBounds == SL_SHIFT <= 30 /\ Requests \subseteq 0..2^30 /\ MaxSize <= 2^30

-----------------------------------------------------------------------------
(* Size classes                                                            *)

\* The sizes that log2floor is defined for, 0 aside.
Mapped == {x \in Nat : x < 2 * Power[30]}

LEMMA Shift ==
  ASSUME HeapBounds
  PROVE  /\ SL_SHIFT \in 0..30
         /\ SL_COUNT = Power[SL_SHIFT] /\ SL_COUNT \in Nat /\ SL_COUNT >= 4
         /\ BLOCK_SIZE_SMALL = SL_COUNT /\ BLOCK_SIZE_MIN = 3 /\ SizeOfBlock = 4
  <1>1. SL_SHIFT \in 0..30 /\ SL_SHIFT \in 0..31
    <2>1. SL_SHIFT \in Nat
      BY ShiftAssumption, Zenon
    <2>2. SL_SHIFT <= 30
      BY Zenon DEF HeapBounds
    <2> QED BY <2>1, <2>2
  <1>2. SL_COUNT = Power[SL_SHIFT]
    BY <1>1, PowerIs, Zenon DEF SL_COUNT
  <1>3. SL_COUNT \in Nat
    BY <1>1, <1>2, PowerDoubles
  <1>4. SL_COUNT > 3
    BY <1>3, ShiftAssumption DEF BLOCK_SIZE_MIN, BLOCK_SIZE_SMALL
  <1> QED BY <1>1, <1>2, <1>3, <1>4 DEF BLOCK_SIZE_SMALL, BLOCK_SIZE_MIN, SizeOfBlock

LEMMA Bounds ==
  ASSUME HeapBounds
  PROVE  /\ MaxSize \in Nat /\ MaxSize <= Power[30] /\ Power[30] \in Nat \ {0}
         /\ \A w \in Requests : w \in Nat /\ w <= Power[30]
         /\ 3 <= Power[30]
  <1>1. 2^30 = Power[30] /\ Power[30] \in Nat \ {0}
    <2>1. 30 \in 0..31
      OBVIOUS
    <2> QED BY <2>1, PowerIs, PowerDoubles
  <1>2. 3 <= Power[30]
    BY Powers
  <1>3. MaxSize <= Power[30] /\ Requests \subseteq 0..Power[30]
    BY <1>1 DEF HeapBounds
  <1> HIDE DEF HeapBounds
  <1> QED BY <1>1, <1>2, <1>3, HeapAssumption

LEMMA Log2FloorIs ==
  ASSUME NEW x \in Mapped, x # 0
  PROVE  /\ log2floor(x) \in 0..30
         /\ Power[log2floor(x)] <= x /\ x < 2 * Power[log2floor(x)]
  <1> DEFINE Is(k) == 2^k <= x /\ x \div 2^k = 1
  <1>1. ASSUME NEW k \in 0..30
        PROVE  Is(k) <=> Power[k] <= x /\ x \div Power[k] = 1
    <2>1. k \in 0..31
      OBVIOUS
    <2>2. 2^k = Power[k]
      BY <2>1, PowerIs
    <2> QED BY <2>2, Zenon
  <1>2. \E k \in 0..30 : Is(k)
    <2>1. \E k \in 0..30 : Power[k] <= x /\ x \div Power[k] = 1
      <3>1. x \in Nat \ {0} /\ x < 2 * Power[30]
        BY DEF Mapped
      <3> QED BY <3>1, LeadingPower
    <2> HIDE DEF Is
    <2> QED BY <1>1, <2>1
  <1>3. log2floor(x) \in 0..30 /\ Is(log2floor(x))
    BY <1>2, Zenon DEF log2floor
  <1> HIDE DEF Is
  <1>4. PICK h \in 0..30 : h = log2floor(x) /\ Power[h] <= x /\ x \div Power[h] = 1
    BY <1>1, <1>3
  <1>5. x < 2 * Power[h]
    <2>1. Power[h] \in Nat \ {0} /\ x \in Nat
      BY PowerDoubles DEF Mapped
    <2>2. x < Power[h] * (x \div Power[h]) + Power[h]
      BY <2>1, DivFacts
    <2> QED BY <1>4, <2>1, <2>2
  <1> QED BY <1>4, <1>5

\* A size that shares its class: m is its first SL_SHIFT + 1 bits, d the number
\* of the bits behind them.
HasLevel(x, d, m) ==
  /\ d \in 0..30 /\ m \in Nat /\ SL_COUNT <= m /\ m < 2 * SL_COUNT
  /\ Power[d] * m <= x /\ x < Power[d] * m + Power[d]
  /\ mapping(x) = <<d + 1, m - SL_COUNT>>
  /\ round_block_size(x) = IF Power[d] * m = x THEN x ELSE Power[d] * m + Power[d]

LEMMA LevelExists ==
  ASSUME HeapBounds, NEW x \in Mapped, SL_COUNT <= x
  PROVE  \E d, m \in Nat : HasLevel(x, d, m)
  <1> DEFINE V == SL_COUNT
  <1>0. HeapBounds
    OBVIOUS
  <1>1. V \in Nat /\ V >= 4 /\ x \in Nat /\ SL_SHIFT \in 0..30 /\ V = Power[SL_SHIFT] /\ V <= x
    BY Shift DEF Mapped
  <1>2. PICK h \in 0..30 : h = log2floor(x) /\ Power[h] <= x /\ x < 2 * Power[h]
    BY <1>1, Log2FloorIs
  <1>3. SL_SHIFT <= h
    <2>1. CASE h < SL_SHIFT
      <3>1. 2 * Power[h] <= V
        BY <1>1, <2>1, PowerOrder
      <3>2. Power[h] \in Nat
        BY PowerDoubles
      <3> QED BY <1>1, <1>2, <3>1, <3>2
    <2> QED BY <1>1, <2>1
  <1>4. PICK d \in 0..30 : d = h - SL_SHIFT /\ h = SL_SHIFT + d
    <2>1. h - SL_SHIFT \in 0..30 /\ h = SL_SHIFT + (h - SL_SHIFT)
      BY <1>1, <1>3
    <2> QED BY <2>1
  <1>5. PICK P \in Nat \ {0} : P = Power[d] /\ P = 2^d /\ Power[h] = V * P
    <2>1. d \in 0..31 /\ SL_SHIFT \in 0..31 /\ SL_SHIFT + d <= 31
      BY <1>1, <1>4
    <2>2. Power[d] \in Nat \ {0} /\ Power[h] = V * Power[d]
      BY <1>1, <1>4, <2>1, PowerProduct, PowerDoubles
    <2>3. Power[d] = 2^d
      BY <2>1, PowerIs
    <2> HIDE DEF V
    <2> QED BY <2>2, <2>3, Zenon
  <1>6. PICK m \in Nat : m = x \div P /\ P * m <= x /\ x < P * m + P
    BY <1>1, DivFacts
  <1> HIDE DEF V
  <1>7. V <= m /\ m < 2 * V
    <2>1. V * P <= x /\ x < 2 * (V * P)
      BY <1>2, <1>5
    <2>2. ASSUME m + 1 <= V PROVE FALSE
      <3>1. P * (m + 1) <= P * V /\ P * (m + 1) = P * m + P /\ P * V = V * P
        BY <1>1, <2>2
      <3> QED BY <1>1, <1>6, <2>1, <3>1
    <2>3. ASSUME 2 * V <= m PROVE FALSE
      <3>1. P * (2 * V) <= P * m /\ P * (2 * V) = 2 * (V * P)
        BY <1>1, <2>3
      <3> QED BY <1>1, <1>6, <2>1, <3>1
    <2> QED BY <1>1, <2>2, <2>3
  <1>8. mapping(x) = <<d + 1, m - V>>
    <2>1. ~(x < BLOCK_SIZE_SMALL)
      BY <1>0, <1>1, Shift DEF V
    <2>2. mapping(x) = <<log2floor(x) - SL_SHIFT + 1, x \div 2^(log2floor(x) - SL_SHIFT) - V>>
      BY <2>1 DEF mapping, V
    <2>3. mapping(x) = <<d + 1, x \div 2^d - V>>
      BY <1>2, <1>4, <2>2
    <2> QED BY <1>5, <1>6, <2>3
  <1>9. round_block_size(x) = ((x + P - 1) \div P) * P
    <2>1. x >= BLOCK_SIZE_SMALL
      BY <1>0, <1>1, Shift DEF V
    <2>2. 2^(log2floor(x) - SL_SHIFT) = P
      BY <1>2, <1>4, <1>5
    <2> QED BY <2>1, <2>2 DEF round_block_size
  <1>10. round_block_size(x) = IF P * m = x THEN x ELSE P * m + P
    <2>1. P * m \in Nat /\ m * P = P * m /\ (m + 1) * P = P * m + P
      BY <1>1
    <2>2. CASE P * m = x
      <3>1. x + P - 1 \in Nat /\ P * m <= x + P - 1 /\ x + P - 1 < P * m + P
        BY <1>1, <2>1, <2>2
      <3>2. (x + P - 1) \div P = m
        BY <3>1, DivUnique
      <3> QED BY <1>9, <2>1, <2>2, <3>2
    <2>3. CASE P * m # x
      <3>1. P * (m + 1) = P * m + P /\ m + 1 \in Nat
        BY <2>1
      <3>2. /\ x + P - 1 \in Nat
            /\ P * (m + 1) <= x + P - 1 /\ x + P - 1 < P * (m + 1) + P
        BY <1>1, <1>6, <2>1, <2>3, <3>1
      <3>3. (x + P - 1) \div P = m + 1
        BY <3>1, <3>2, DivUnique
      <3> QED BY <1>9, <2>1, <2>3, <3>3
    <2> QED BY <2>2, <2>3
  <1>11. HasLevel(x, d, m)
    BY <1>5, <1>6, <1>7, <1>8, <1>10 DEF HasLevel, V
  <1> QED BY <1>11

\* More bits behind the first ones means more size.
LEMMA LevelsOrdered ==
  ASSUME HeapBounds, NEW x \in Mapped, NEW y \in Mapped, NEW d \in Nat, NEW m \in Nat, NEW e \in Nat, NEW n \in Nat,
         HasLevel(x, d, m), HasLevel(y, e, n), d < e
  PROVE  Power[d] * m + Power[d] <= y /\ x < y
  <1> DEFINE V == SL_COUNT
  <1>1. V \in Nat /\ V >= 4 /\ x \in Nat /\ y \in Nat
    BY Shift DEF Mapped
  <1>2. PICK P \in Nat \ {0}, R \in Nat \ {0} : P = Power[d] /\ R = Power[e] /\ 2 * P <= R
    <2>1. d \in 0..31 /\ e \in 0..31
      BY DEF HasLevel
    <2> QED BY <2>1, PowerOrder, PowerDoubles
  <1>3. /\ P * m <= x /\ x < P * m + P /\ m < 2 * V
        /\ R * n <= y /\ V <= n
    BY <1>1, <1>2 DEF HasLevel
  <1> HIDE DEF V
  <1>4. P * (m + 1) <= P * (2 * V) /\ P * (m + 1) = P * m + P /\ P * (2 * V) = (2 * P) * V
    BY <1>1, <1>3
  <1>5. (2 * P) * V <= R * V /\ R * V <= R * n
    BY <1>1, <1>2, <1>3
  <1>6. P * m \in Nat /\ (2 * P) * V \in Nat /\ R * V \in Nat /\ R * n \in Nat
    BY <1>1
  <1> QED BY <1>1, <1>2, <1>3, <1>4, <1>5, <1>6

LEMMA SameLevel ==
  ASSUME HeapBounds, NEW x \in Mapped, NEW y \in Mapped, NEW d \in Nat, NEW m \in Nat, NEW n \in Nat,
         HasLevel(x, d, m), HasLevel(y, d, n), m < n
  PROVE  Power[d] * m + Power[d] <= y /\ x < y
  <1>1. PICK P \in Nat \ {0} : P = Power[d]
    BY PowerDoubles DEF HasLevel
  <1>2. x < P * m + P /\ P * n <= y /\ P * (m + 1) <= P * n /\ P * (m + 1) = P * m + P
    BY <1>1 DEF HasLevel
  <1>3. P * m \in Nat /\ P * n \in Nat /\ x \in Nat /\ y \in Nat
    BY DEF Mapped
  <1> QED BY <1>1, <1>2, <1>3

LEMMA MappingIs ==
  ASSUME HeapBounds, NEW x \in Mapped
  PROVE  mapping(x) \in Nat \X Nat
  <1>1. CASE x < SL_COUNT
    <2>1. mapping(x) = <<0, x>>
      BY <1>1, Shift DEF mapping
    <2> QED BY <2>1 DEF Mapped
  <1>2. CASE SL_COUNT <= x
    <2>1. PICK d \in Nat, m \in Nat : HasLevel(x, d, m)
      BY <1>2, LevelExists
    <2>2. mapping(x) = <<d + 1, m - SL_COUNT>> /\ d + 1 \in Nat /\ m - SL_COUNT \in Nat
      BY <2>1, Shift DEF HasLevel
    <2> QED BY <2>2
  <1> QED BY <1>1, <1>2, Shift DEF Mapped

\* A class is decided by comparing the two levels.
LEMMA BeforeIs ==
  ASSUME NEW a \in Nat, NEW b \in Nat, NEW f \in Nat, NEW g \in Nat
  PROVE  Before(<<a, b>>, <<f, g>>) <=> a < f \/ (a = f /\ b < g)
  BY DEF Before

\* A block that is not of a class before the one of the rounded size is large
\* enough: what g_malloc takes from a list serves the request.
LEMMA RoundedServes ==
  ASSUME HeapBounds, NEW x \in Mapped, round_block_size(x) \in Mapped, NEW y \in Mapped,
         y < round_block_size(x)
  PROVE  Before(mapping(y), mapping(round_block_size(x)))
  <1>0. HeapBounds
    OBVIOUS
  <1>1. SL_COUNT \in Nat /\ SL_COUNT >= 4 /\ x \in Nat /\ y \in Nat /\ BLOCK_SIZE_SMALL = SL_COUNT
    BY Shift DEF Mapped
  <1>2. CASE x < SL_COUNT
    <2>1. round_block_size(x) = x
      BY <1>1, <1>2 DEF round_block_size
    <2>2. mapping(x) = <<0, x>> /\ mapping(y) = <<0, y>>
      BY <1>1, <1>2, <2>1 DEF mapping
    <2> QED BY <1>1, <2>1, <2>2 DEF Before
  <1>3. CASE SL_COUNT <= x
    <2>1. PICK d \in Nat, m \in Nat : HasLevel(x, d, m)
      BY <1>3, LevelExists
    <2>2. PICK r \in Mapped : r = round_block_size(x)
      OBVIOUS
    <2>3. PICK P \in Nat \ {0} : P = Power[d]
      BY <2>1, PowerDoubles DEF HasLevel
    <2>4. /\ r = IF P * m = x THEN x ELSE P * m + P
          /\ P * m <= x /\ x < P * m + P /\ P * m \in Nat /\ r \in Nat
      BY <2>1, <2>2, <2>3 DEF HasLevel, Mapped
    <2>5. x <= r /\ SL_COUNT <= r /\ P * m <= r /\ r <= P * m + P
      BY <1>1, <1>3, <2>3, <2>4
    <2>6. PICK e \in Nat, n \in Nat : HasLevel(r, e, n)
      BY <1>0, <2>5, LevelExists
    <2>7. mapping(r) = <<e + 1, n - SL_COUNT>> /\ n - SL_COUNT \in Nat
      BY <1>1, <2>6 DEF HasLevel
    <2>8. CASE y < SL_COUNT
      <3>1. mapping(y) = <<0, y>>
        BY <1>1, <2>8 DEF mapping
      <3> QED BY <1>1, <2>2, <2>7, <3>1 DEF Before
    <2>9. CASE SL_COUNT <= y
      <3>1. PICK f \in Nat, k \in Nat : HasLevel(y, f, k)
        BY <1>0, <2>9, LevelExists
      <3>2. mapping(y) = <<f + 1, k - SL_COUNT>> /\ k - SL_COUNT \in Nat
        BY <1>1, <3>1 DEF HasLevel
      <3>3. ~(e < f)
        <4>1. ASSUME e < f PROVE FALSE
          <5>1. r < y
            BY <1>0, <2>6, <3>1, <4>1, LevelsOrdered
          <5> QED BY <1>1, <2>2, <2>4, <5>1
        <4> QED BY <4>1
      <3>4. ASSUME e = f PROVE k < n
        <4>1. ~(n < k)
          <5>1. ASSUME n < k PROVE FALSE
            <6>1. HasLevel(y, e, k)
              BY <3>1, <3>4
            <6>2. r < y
              BY <1>0, <2>6, <5>1, <6>1, SameLevel
            <6> QED BY <1>1, <2>2, <2>4, <6>2
          <5> QED BY <5>1
        <4>2. n # k
          \* All sizes of a class have the same beginning, and the rounded one is the least.
          <5>1. ASSUME n = k PROVE FALSE
            <6>1. PICK R \in Nat \ {0} : R = Power[e]
              BY <2>6, PowerDoubles DEF HasLevel
            <6>2. R * n <= y /\ R * n <= r /\ r < R * n + R /\ R * n \in Nat
              BY <2>6, <3>1, <3>4, <5>1, <6>1 DEF HasLevel
            <6>3. r = R * n
              <7>1. ~(e < d)
                <8>1. ASSUME e < d PROVE FALSE
                  <9>1. r < x
                    BY <1>0, <2>1, <2>6, <8>1, LevelsOrdered
                  <9> QED BY <1>1, <2>4, <2>5, <9>1
                <8> QED BY <8>1
              <7>2. CASE e = d
                <8>1. R = P
                  BY <2>3, <6>1, <7>2
                <8>2. CASE P * m = x
                  <9>1. r = x /\ P * m <= r /\ r < P * m + P
                    BY <2>4, <8>2
                  <9>2. ~(m < n) /\ ~(n < m)
                    <10>1. m < n => P * (m + 1) <= P * n /\ P * (m + 1) = P * m + P
                      BY <2>3
                    <10>2. n < m => P * (n + 1) <= P * m /\ P * (n + 1) = P * n + P
                      BY <2>3
                    <10>3. P * n \in Nat
                      BY <2>3
                    <10> QED BY <2>3, <2>4, <6>2, <8>1, <9>1, <10>1, <10>2, <10>3
                  <9> QED BY <8>1, <8>2, <9>1, <9>2
                <8>3. CASE P * m # x
                  <9>1. r = P * m + P /\ P * (m + 1) = P * m + P
                    <10>1. P * (m + 1) = P * m + P
                      <11>1. P \in Nat /\ m \in Nat
                        BY <2>1, <2>3
                      <11> QED BY ONLY <11>1, SMT
                    <10>2. r = P * m + P
                      BY <2>4, <8>3
                    <10> QED BY <10>1, <10>2
                  <9>2. n = m + 1
                    <10>1. m + 1 < n => P * (m + 2) <= P * n /\ P * (m + 2) = P * m + P + P
                      BY <2>3
                    <10>2. n <= m => P * n <= P * m
                      BY <2>3
                    <10>3. P * n \in Nat
                      BY <2>3
                    <10> QED BY <2>3, <2>4, <6>2, <8>1, <9>1, <10>1, <10>2, <10>3
                  <9> QED BY <8>1, <9>1, <9>2
                <8> QED BY <8>2, <8>3
              <7>3. CASE d < e
                <8>1. P * m + P <= r
                  BY <1>0, <2>1, <2>2, <2>3, <2>6, <7>3, LevelsOrdered
                <8>2. r = P * m + P
                  BY <2>3, <2>4, <2>5, <8>1
                <8>3. m < 2 * SL_COUNT /\ SL_COUNT <= n /\ 2 * P <= R
                  <9>1. d \in 0..31 /\ e \in 0..31
                    BY <2>1, <2>6 DEF HasLevel
                  <9>2. 2 * Power[d] <= Power[e]
                    BY <7>3, <9>1, PowerOrder
                  <9> QED BY <2>1, <2>3, <2>6, <6>1, <9>2 DEF HasLevel
                <8>4. /\ P * (m + 1) <= P * (2 * SL_COUNT) /\ P * (m + 1) = P * m + P
                      /\ P * (2 * SL_COUNT) = (2 * P) * SL_COUNT
                  BY <1>1, <2>3, <8>3
                <8>5. (2 * P) * SL_COUNT <= R * SL_COUNT /\ R * SL_COUNT <= R * n
                  BY <1>1, <2>3, <6>1, <8>3
                <8>6. (2 * P) * SL_COUNT \in Nat /\ R * SL_COUNT \in Nat
                  BY <1>1, <2>3, <6>1
                <8>7. r <= R * SL_COUNT
                  BY <2>3, <2>4, <8>2, <8>4, <8>5, <8>6
                <8> QED BY <2>4, <6>2, <8>5, <8>6, <8>7
              <7> QED BY <7>1, <7>2, <7>3
            <6> QED BY <1>1, <2>2, <6>2, <6>3
          <5> QED BY <5>1
        <4> QED BY <4>1, <4>2
      <3>5. f < e \/ (f = e /\ k - SL_COUNT < n - SL_COUNT)
        BY <1>1, <3>3, <3>4
      <3> QED BY <1>1, <2>2, <2>7, <3>2, <3>5, BeforeIs
    <2> QED BY <1>1, <2>8, <2>9
  <1> QED BY <1>1, <1>2, <1>3

\* The classes are in the order of the sizes.
LEMMA MappingMonotone ==
  ASSUME HeapBounds, NEW x \in Mapped, NEW y \in Mapped, x <= y
  PROVE  ~Before(mapping(y), mapping(x))
  <1>0. HeapBounds
    OBVIOUS
  <1>1. SL_COUNT \in Nat /\ SL_COUNT >= 4 /\ x \in Nat /\ y \in Nat /\ BLOCK_SIZE_SMALL = SL_COUNT
    BY Shift DEF Mapped
  <1>2. CASE x < SL_COUNT
    <2>1. mapping(x) = <<0, x>>
      BY <1>1, <1>2 DEF mapping
    <2>2. CASE y < SL_COUNT
      <3>1. mapping(y) = <<0, y>>
        BY <1>1, <2>2 DEF mapping
      <3> QED BY <1>1, <2>1, <3>1 DEF Before
    <2>3. CASE SL_COUNT <= y
      <3>1. PICK f \in Nat, k \in Nat : HasLevel(y, f, k)
        BY <1>0, <2>3, LevelExists
      <3>2. mapping(y) = <<f + 1, k - SL_COUNT>>
        BY <3>1 DEF HasLevel
      <3> QED BY <1>1, <2>1, <3>2 DEF Before
    <2> QED BY <1>1, <2>2, <2>3
  <1>3. CASE SL_COUNT <= x
    <2>1. PICK d \in Nat, m \in Nat : HasLevel(x, d, m)
      BY <1>3, LevelExists
    <2>2. PICK f \in Nat, k \in Nat : HasLevel(y, f, k)
      BY <1>1, <1>3, LevelExists
    <2>3. /\ mapping(x) = <<d + 1, m - SL_COUNT>> /\ mapping(y) = <<f + 1, k - SL_COUNT>>
          /\ m - SL_COUNT \in Nat /\ k - SL_COUNT \in Nat
      BY <1>1, <2>1, <2>2 DEF HasLevel
    <2>4. ~(f < d)
      <3>1. ASSUME f < d PROVE FALSE
        <4>1. y < x
          BY <1>0, <2>1, <2>2, <3>1, LevelsOrdered
        <4> QED BY <1>1, <4>1
      <3> QED BY <3>1
    <2>5. ASSUME f = d PROVE ~(k < m)
      <3>1. ASSUME k < m PROVE FALSE
        <4>1. HasLevel(y, d, k)
          BY <2>2, <2>5
        <4>2. y < x
          BY <1>0, <2>1, <3>1, <4>1, SameLevel
        <4> QED BY <1>1, <4>2
      <3> QED BY <3>1
    <2>6. ~(f + 1 < d + 1 \/ (f + 1 = d + 1 /\ k - SL_COUNT < m - SL_COUNT))
      BY <1>1, <2>4, <2>5
    <2> QED BY <2>3, <2>6, BeforeIs
  <1> QED BY <1>1, <1>2, <1>3

LEMMA RoundIs ==
  ASSUME HeapBounds, NEW x \in Nat, x <= Power[30]
  PROVE  x \in Mapped /\ round_block_size(x) \in Mapped /\ x <= round_block_size(x)
  <1>1. SL_COUNT \in Nat /\ SL_COUNT >= 4 /\ BLOCK_SIZE_SMALL = SL_COUNT /\ Power[30] \in Nat \ {0}
    BY Shift, Bounds
  <1>2. x \in Mapped
    BY <1>1 DEF Mapped
  <1>3. CASE x < SL_COUNT
    <2>1. round_block_size(x) = x
      BY <1>1, <1>3 DEF round_block_size
    <2> QED BY <1>2, <2>1
  <1>4. CASE SL_COUNT <= x
    <2>1. PICK d \in Nat, m \in Nat : HasLevel(x, d, m)
      BY <1>2, <1>4, LevelExists
    <2>2. PICK P \in Nat \ {0} : P = Power[d]
      BY <2>1, PowerDoubles DEF HasLevel
    <2>3. /\ round_block_size(x) = IF P * m = x THEN x ELSE P * m + P
          /\ P * m <= x /\ x < P * m + P /\ P * m \in Nat /\ SL_COUNT <= m
      BY <2>1, <2>2 DEF HasLevel
    <2>4. P * 4 <= P * m
      BY <1>1, <2>2, <2>3
    <2>5. round_block_size(x) \in Nat /\ x <= round_block_size(x) /\ round_block_size(x) < 2 * x
      BY <2>2, <2>3, <2>4
    <2> QED BY <1>1, <1>2, <2>5 DEF Mapped
  <1> QED BY <1>1, <1>3, <1>4

-----------------------------------------------------------------------------
(* Contexts                                                                *)

Headers == [size : Nat, free : BOOLEAN, prev_is_free : BOOLEAN,
            prev : Int, next_free : Int, prev_free : Int]

\* Headers by address.
Ats == UNION {[D -> Headers] : D \in SUBSET Nat}

Contexts == [block : [Classes -> Int], sl : SUBSET Classes, fl : SUBSET Nat, size : Nat, at : Ats]

\* What a step leaves alone: the lists, the row of blocks, what a header says of
\* free blocks.
SameLinks(t, u) ==
  /\ u.block = t.block /\ u.sl = t.sl /\ u.fl = t.fl
  /\ \A a \in DOMAIN t.at \cap DOMAIN u.at : /\ u.at[a].next_free = t.at[a].next_free
                                             /\ u.at[a].prev_free = t.at[a].prev_free

SameSizes(t, u) ==
  /\ DOMAIN u.at = DOMAIN t.at /\ u.size = t.size
  /\ \A a \in DOMAIN t.at : u.at[a].size = t.at[a].size

SameFlags(t, u) ==
  \A a \in DOMAIN t.at \cap DOMAIN u.at : /\ u.at[a].free = t.at[a].free
                                          /\ u.at[a].prev_is_free = t.at[a].prev_is_free

SamePrevs(t, u) == \A a \in DOMAIN t.at \cap DOMAIN u.at : u.at[a].prev = t.at[a].prev

SameRow(t, u) == SameSizes(t, u) /\ SameFlags(t, u) /\ SamePrevs(t, u)

LEMMA HeaderIs ==
  /\ Header \in Headers /\ Header.size = 0
  /\ ~Header.free /\ ~Header.prev_is_free
  BY DEF Header, Headers, DATA

LEMMA AtsIs ==
  ASSUME NEW at \in Ats
  PROVE  DOMAIN at \in SUBSET Nat /\ at \in [DOMAIN at -> Headers]
  BY DEF Ats

LEMMA InAts ==
  ASSUME NEW D \in SUBSET Nat, NEW at \in [D -> Headers]
  PROVE  at \in Ats /\ DOMAIN at = D
  BY DEF Ats

LEMMA ContextIs ==
  ASSUME NEW t \in Contexts
  PROVE  /\ t.block \in [Classes -> Int] /\ t.sl \in SUBSET Classes /\ t.fl \in SUBSET Nat
         /\ t.size \in Nat /\ DOMAIN t.at \in SUBSET Nat
         /\ t.at \in [DOMAIN t.at -> Headers]
         /\ \A a \in DOMAIN t.at : /\ t.at[a].size \in Nat
                                    /\ t.at[a].free \in BOOLEAN /\ t.at[a].prev_is_free \in BOOLEAN
                                    /\ t.at[a].prev \in Int /\ t.at[a].next_free \in Int
                                    /\ t.at[a].prev_free \in Int
  <1>1. /\ t.block \in [Classes -> Int] /\ t.sl \in SUBSET Classes /\ t.fl \in SUBSET Nat
        /\ t.size \in Nat /\ t.at \in Ats
    BY DEF Contexts
  <1>2. DOMAIN t.at \in SUBSET Nat /\ t.at \in [DOMAIN t.at -> Headers]
    BY ONLY <1>1, AtsIs
  <1>3. \A a \in DOMAIN t.at : t.at[a] \in Headers
    BY ONLY <1>2
  <1> QED BY ONLY <1>1, <1>2, <1>3 DEF Headers

\* The context with other headers.
HeadersOf(t, at) == [t EXCEPT !.at = at]

LEMMA HeadersOfIs ==
  ASSUME NEW t \in Contexts, NEW D \in SUBSET Nat, NEW at \in [D -> Headers]
  PROVE  /\ HeadersOf(t, at) \in Contexts /\ HeadersOf(t, at).at = at
         /\ HeadersOf(t, at).block = t.block /\ HeadersOf(t, at).sl = t.sl
         /\ HeadersOf(t, at).fl = t.fl /\ HeadersOf(t, at).size = t.size
  <1>1. at \in Ats
    BY InAts
  <1> QED BY ONLY <1>1, t \in Contexts DEF HeadersOf, Contexts

\* The next block is told where its predecessor is, and nothing else.
LinkedNext(t, h, u) ==
  /\ SameLinks(t, u) /\ SameSizes(t, u) /\ SameFlags(t, u)
  /\ u.at[block_next(t, h)].prev = h
  /\ \A a \in DOMAIN t.at \ {block_next(t, h)} : u.at[a].prev = t.at[a].prev

LEMMA LinkNextIs ==
  ASSUME NEW t \in Contexts, NEW h \in DOMAIN t.at, block_next(t, h) \in DOMAIN t.at
  PROVE  block_link_next(t, h) \in Contexts /\ LinkedNext(t, h, block_link_next(t, h))
  <1>1. PICK n \in DOMAIN t.at : n = block_next(t, h)
    OBVIOUS
  <1> DEFINE D == DOMAIN t.at
             at == [t.at EXCEPT ![n] = [t.at[n] EXCEPT !.prev = h]]
  <1>2. block_link_next(t, h) = HeadersOf(t, at)
    BY <1>1 DEF block_link_next, HeadersOf
  <1>3. D \in SUBSET Nat /\ t.at \in [D -> Headers] /\ n \in D /\ h \in Nat
    BY <1>1, ContextIs
  <1>4. /\ at \in [D -> Headers] /\ at[n].prev = h
        /\ \A a \in D : /\ at[a].size = t.at[a].size /\ at[a].free = t.at[a].free
                        /\ at[a].prev_is_free = t.at[a].prev_is_free
                        /\ at[a].next_free = t.at[a].next_free /\ at[a].prev_free = t.at[a].prev_free
                        /\ a # n => at[a].prev = t.at[a].prev
    BY ONLY <1>3 DEF Headers
  <1> HIDE DEF at
  <1> DEFINE u == HeadersOf(t, at)
  <1>5. /\ u \in Contexts /\ u.at = at /\ u.block = t.block /\ u.sl = t.sl /\ u.fl = t.fl
        /\ u.size = t.size
    BY ONLY t \in Contexts, <1>3, <1>4, HeadersOfIs
  <1> HIDE DEF u
  <1>6. LinkedNext(t, h, u)
    BY ONLY <1>1, <1>3, <1>4, <1>5 DEF LinkedNext, SameLinks, SameSizes, SameFlags
  <1> QED BY ONLY <1>2, <1>5, <1>6 DEF u

\* The flag of a block and what the next header says of it.
FreeSet(t, h, free, u) ==
  /\ SameLinks(t, u) /\ SameSizes(t, u)
  /\ u.at[h].free = free
  /\ u.at[block_next(t, h)].prev_is_free = free /\ u.at[block_next(t, h)].prev = h
  /\ \A a \in DOMAIN t.at \ {h} : u.at[a].free = t.at[a].free
  /\ \A a \in DOMAIN t.at \ {block_next(t, h)} : /\ u.at[a].prev_is_free = t.at[a].prev_is_free
                                                 /\ u.at[a].prev = t.at[a].prev

LEMMA SetFreeIs ==
  ASSUME NEW t \in Contexts, NEW h \in DOMAIN t.at, block_next(t, h) \in DOMAIN t.at, NEW free \in BOOLEAN
  PROVE  block_set_free(t, h, free) \in Contexts /\ FreeSet(t, h, free, block_set_free(t, h, free))
  <1>1. PICK n \in DOMAIN t.at : n = block_next(t, h)
    OBVIOUS
  <1> DEFINE v == block_link_next(t, h)
  <1>2. v \in Contexts /\ LinkedNext(t, h, v)
    BY LinkNextIs
  <1> DEFINE at == [[v.at EXCEPT ![h] = [v.at[h] EXCEPT !.free = free]]
                      EXCEPT ![n] = [@ EXCEPT !.prev_is_free = free]]
  <1>3. block_set_free(t, h, free) = HeadersOf(v, at)
    BY ONLY <1>1, Zenon DEF block_set_free, HeadersOf
  <1> HIDE DEF v
  <1>4. PICK D \in SUBSET Nat : /\ D = DOMAIN v.at /\ D = DOMAIN t.at /\ v.at \in [D -> Headers]
                               /\ n \in D /\ h \in D
    <2>1. DOMAIN v.at = DOMAIN t.at
      BY ONLY <1>2 DEF LinkedNext, SameSizes
    <2>2. DOMAIN v.at \in SUBSET Nat /\ v.at \in [DOMAIN v.at -> Headers]
      BY ONLY <1>2, ContextIs
    <2> QED BY <1>1, <2>1, <2>2
  <1>5. /\ at \in [D -> Headers]
        /\ \A a \in D : /\ at[a].size = v.at[a].size /\ at[a].prev = v.at[a].prev
                        /\ at[a].free = IF a = h THEN free ELSE v.at[a].free
                        /\ at[a].prev_is_free = IF a = n THEN free ELSE v.at[a].prev_is_free
                        /\ at[a].next_free = v.at[a].next_free /\ at[a].prev_free = v.at[a].prev_free
    BY ONLY <1>4, free \in BOOLEAN DEF Headers
  <1> HIDE DEF at
  <1> DEFINE u == HeadersOf(v, at)
  <1>6. /\ u \in Contexts /\ u.at = at /\ u.block = v.block /\ u.sl = v.sl /\ u.fl = v.fl
        /\ u.size = v.size
    BY ONLY <1>2, <1>4, <1>5, HeadersOfIs
  <1>7. DOMAIN at = D
    BY ONLY <1>5
  <1> HIDE DEF u
  <1>8. SameLinks(t, u) /\ SameSizes(t, u)
    BY ONLY <1>2, <1>4, <1>5, <1>6, <1>7 DEF LinkedNext, SameLinks, SameSizes
  <1>9. FreeSet(t, h, free, u)
    BY ONLY <1>1, <1>2, <1>4, <1>5, <1>6, <1>7, <1>8 DEF FreeSet, LinkedNext, SameFlags
  <1> QED BY ONLY <1>3, <1>6, <1>9 DEF u

\* The block h is unlinked from the list c.
Unlinked(t, h, c, u) ==
  /\ SameRow(t, u)
  /\ \A a \in DOMAIN t.at :
       /\ u.at[a].prev_free = IF a = t.at[h].next_free THEN t.at[h].prev_free ELSE t.at[a].prev_free
       /\ u.at[a].next_free = IF a = t.at[h].prev_free THEN t.at[h].next_free ELSE t.at[a].next_free
  /\ u.block[c] = IF t.block[c] = h THEN t.at[h].next_free ELSE t.block[c]
  /\ \A d \in Classes \ {c} : u.block[d] = t.block[d]
  /\ u.sl = IF t.block[c] = h /\ t.at[h].next_free = NULL THEN t.sl \ {c} ELSE t.sl
  /\ u.fl = IF t.block[c] = h /\ t.at[h].next_free = NULL /\ \A d \in u.sl : d[1] # c[1]
            THEN t.fl \ {c[1]} ELSE t.fl

LEMMA UnlinkIs ==
  ASSUME NEW t \in Contexts, NEW h \in DOMAIN t.at, NEW c \in Classes
  PROVE  remove_free_block(t, h, c) \in Contexts /\ Unlinked(t, h, c, remove_free_block(t, h, c))
  <1>1. PICK prev \in Int, next \in Int : prev = t.at[h].prev_free /\ next = t.at[h].next_free
    BY ContextIs
  <1> DEFINE D == DOMAIN t.at
             at == [a \in D |-> [t.at[a] EXCEPT !.prev_free = IF a = next THEN prev ELSE @,
                                                !.next_free = IF a = prev THEN next ELSE @]]
             first == t.block[c] = h
             last == first /\ next = NULL
             sl == IF last THEN t.sl \ {c} ELSE t.sl
             fl == IF last /\ \A d \in sl : d[1] # c[1] THEN t.fl \ {c[1]} ELSE t.fl
             block == [t.block EXCEPT ![c] = IF first THEN next ELSE @]
             u == [t EXCEPT !.at = at, !.block = block, !.sl = sl, !.fl = fl]
  <1>2. remove_free_block(t, h, c) = u
    BY ONLY <1>1 DEF remove_free_block
  <1>3. /\ D \in SUBSET Nat /\ t.at \in [D -> Headers] /\ t.block \in [Classes -> Int]
        /\ t.sl \in SUBSET Classes /\ t.fl \in SUBSET Nat
    BY ContextIs
  <1>4. /\ at \in [D -> Headers]
        /\ \A a \in D : /\ at[a].size = t.at[a].size /\ at[a].prev = t.at[a].prev
                        /\ at[a].free = t.at[a].free
                        /\ at[a].prev_is_free = t.at[a].prev_is_free
                        /\ at[a].next_free = IF a = prev THEN next ELSE t.at[a].next_free
                        /\ at[a].prev_free = IF a = next THEN prev ELSE t.at[a].prev_free
    BY ONLY <1>1, <1>3 DEF Headers
  <1>5. /\ block \in [Classes -> Int]
        /\ block[c] = IF t.block[c] = h THEN next ELSE t.block[c]
        /\ \A d \in Classes \ {c} : block[d] = t.block[d]
    BY ONLY <1>1, <1>3, c \in Classes
  <1>6. sl \in SUBSET Classes /\ fl \in SUBSET Nat
    BY ONLY <1>3
  <1>7. at \in Ats /\ DOMAIN at = D
    BY ONLY <1>3, <1>4, InAts
  <1> HIDE DEF at, block
  <1>8. u.at = at /\ u.block = block /\ u.sl = sl /\ u.fl = fl /\ u.size = t.size /\ u \in Contexts
    <2> HIDE DEF sl, fl
    <2> QED BY ONLY <1>5, <1>6, <1>7, t \in Contexts DEF Contexts
  <1> HIDE DEF u
  <1>9. SameRow(t, u)
    BY ONLY <1>3, <1>4, <1>7, <1>8 DEF SameRow, SameSizes, SameFlags, SamePrevs
  <1>10. /\ u.sl = IF t.block[c] = h /\ next = NULL THEN t.sl \ {c} ELSE t.sl
         /\ u.fl = IF t.block[c] = h /\ next = NULL /\ \A d \in u.sl : d[1] # c[1]
                   THEN t.fl \ {c[1]} ELSE t.fl
    BY ONLY <1>8
  <1>11. Unlinked(t, h, c, u)
    BY ONLY <1>1, <1>4, <1>5, <1>7, <1>8, <1>9, <1>10 DEF Unlinked
  <1> QED BY ONLY <1>2, <1>8, <1>11

\* The block h is put in front of the list c.
Pushed(t, h, c, u) ==
  /\ SameRow(t, u)
  /\ u.at[h].next_free = t.block[c] /\ u.at[h].prev_free = NULL
  /\ \A a \in DOMAIN t.at \ {h} :
       /\ u.at[a].prev_free = IF a = t.block[c] THEN h ELSE t.at[a].prev_free
       /\ u.at[a].next_free = t.at[a].next_free
  /\ u.block[c] = h
  /\ \A d \in Classes \ {c} : u.block[d] = t.block[d]
  /\ u.sl = t.sl \cup {c} /\ u.fl = t.fl \cup {c[1]}

LEMMA PushIs ==
  ASSUME NEW t \in Contexts, NEW h \in DOMAIN t.at, NEW c \in Classes, c[1] \in Nat, t.block[c] # h,
         t.block[c] = NULL \/ t.block[c] \in DOMAIN t.at
  PROVE  insert_free_block(t, h, c) \in Contexts /\ Pushed(t, h, c, insert_free_block(t, h, c))
  <1>1. PICK current \in Int : current = t.block[c] /\ current # h
    BY ContextIs
  <1> DEFINE D == DOMAIN t.at
             own == [[t.at EXCEPT ![h] = [t.at[h] EXCEPT !.next_free = current]]
                       EXCEPT ![h] = [@ EXCEPT !.prev_free = NULL]]
             at == IF current = NULL THEN own
                   ELSE [own EXCEPT ![current] = [own[current] EXCEPT !.prev_free = h]]
             block == [t.block EXCEPT ![c] = h]
  <1>2. /\ D \in SUBSET Nat /\ t.at \in [D -> Headers] /\ t.block \in [Classes -> Int]
        /\ t.sl \in SUBSET Classes /\ t.fl \in SUBSET Nat /\ h \in D /\ h \in Int /\ NULL \in Int
        /\ current = NULL \/ current \in D
    BY <1>1, ContextIs DEF NULL
  <1>3. insert_free_block(t, h, c)
          = [HeadersOf(t, at) EXCEPT !.block[c] = h, !.sl = @ \cup {c}, !.fl = @ \cup {c[1]}]
    <2> DEFINE linked == [t EXCEPT !.at[h].next_free = current, !.at[h].prev_free = NULL]
               pushed == IF current = NULL THEN linked
                         ELSE [linked EXCEPT !.at[current].prev_free = h]
    <2>1. linked = HeadersOf(t, own)
      BY ONLY t \in Contexts DEF HeadersOf, Contexts
    <2>2. HeadersOf(t, own).at = own
      BY ONLY t \in Contexts DEF HeadersOf, Contexts
    <2>3. pushed = HeadersOf(t, at)
      <3>1. CASE current = NULL
        BY ONLY <2>1, <3>1
      <3>2. CASE current # NULL
        <4>1. at = [own EXCEPT ![current] = [own[current] EXCEPT !.prev_free = h]]
          BY ONLY <3>2
        <4> HIDE DEF own, linked, at
        <4>2. pushed = [HeadersOf(t, own) EXCEPT !.at[current].prev_free = h]
          BY ONLY <2>1, <3>2
        <4>3. pushed = HeadersOf(t, [own EXCEPT ![current] = [own[current] EXCEPT !.prev_free = h]])
          BY ONLY <2>2, <4>2, t \in Contexts DEF HeadersOf, Contexts
        <4> QED BY ONLY <4>1, <4>3
      <3> QED BY ONLY <3>1, <3>2
    <2>4. insert_free_block(t, h, c) = [pushed EXCEPT !.block[c] = h, !.sl = @ \cup {c}, !.fl = @ \cup {c[1]}]
      BY ONLY <1>1 DEF insert_free_block
    <2> HIDE DEF pushed, at
    <2> QED BY ONLY <2>3, <2>4
  <1>4. /\ own \in [D -> Headers]
        /\ \A a \in D : /\ own[a].size = t.at[a].size /\ own[a].prev = t.at[a].prev
                        /\ own[a].free = t.at[a].free
                        /\ own[a].prev_is_free = t.at[a].prev_is_free
                        /\ own[a].next_free = IF a = h THEN current ELSE t.at[a].next_free
                        /\ own[a].prev_free = IF a = h THEN NULL ELSE t.at[a].prev_free
    BY ONLY <1>1, <1>2 DEF Headers
  <1>5. /\ at \in [D -> Headers]
        /\ \A a \in D : /\ at[a].size = own[a].size /\ at[a].prev = own[a].prev
                        /\ at[a].free = own[a].free
                        /\ at[a].prev_is_free = own[a].prev_is_free
                        /\ at[a].next_free = own[a].next_free
                        /\ at[a].prev_free = IF a = current THEN h ELSE own[a].prev_free
    <2> HIDE DEF own
    <2>1. CASE current = NULL
      <3>1. NULL \notin D
        BY ONLY <1>2 DEF NULL
      <3> QED BY ONLY <1>4, <2>1, <3>1
    <2>2. CASE current # NULL
      BY ONLY <1>2, <1>4, <2>2 DEF Headers
    <2> QED BY ONLY <2>1, <2>2
  <1> HIDE DEF own, at
  <1> DEFINE v == HeadersOf(t, at)
             u == [v EXCEPT !.block[c] = h, !.sl = @ \cup {c}, !.fl = @ \cup {c[1]}]
  <1>6. /\ v \in Contexts /\ v.at = at /\ v.block = t.block /\ v.sl = t.sl /\ v.fl = t.fl
        /\ v.size = t.size
    BY ONLY t \in Contexts, <1>2, <1>5, HeadersOfIs
  <1>7. DOMAIN at = D
    BY ONLY <1>5
  <1>8. /\ block \in [Classes -> Int] /\ block[c] = h
        /\ \A d \in Classes \ {c} : block[d] = t.block[d]
    BY ONLY <1>2, c \in Classes
  <1>9. t.sl \cup {c} \in SUBSET Classes /\ t.fl \cup {c[1]} \in SUBSET Nat
    BY ONLY <1>2, c \in Classes, c[1] \in Nat
  <1> HIDE DEF v
  <1>10. u = [v EXCEPT !.block = block, !.sl = t.sl \cup {c}, !.fl = t.fl \cup {c[1]}]
    BY ONLY <1>6
  <1> HIDE DEF u, block
  <1>11. /\ u.at = at /\ u.block = block /\ u.sl = t.sl \cup {c} /\ u.fl = t.fl \cup {c[1]}
         /\ u.size = t.size /\ u \in Contexts
    BY ONLY <1>6, <1>8, <1>9, <1>10 DEF Contexts
  <1>12. SameRow(t, u)
    BY ONLY <1>2, <1>4, <1>5, <1>7, <1>11 DEF SameRow, SameSizes, SameFlags, SamePrevs
  <1>13. Pushed(t, h, c, u)
    BY ONLY <1>1, <1>2, <1>4, <1>5, <1>7, <1>8, <1>11, <1>12 DEF Pushed
  <1> QED BY ONLY <1>3, <1>11, <1>13 DEF u, v

\* The block p is joined with the one behind it, h.
Absorbed(t, p, h, u) ==
  /\ SameLinks(t, u) /\ SameFlags(t, u)
  /\ DOMAIN u.at = DOMAIN t.at \ {h} /\ u.size = t.size
  /\ u.at[p].size = t.at[p].size + t.at[h].size + 1
  /\ \A a \in DOMAIN t.at \ {p, h} : u.at[a].size = t.at[a].size
  /\ u.at[block_next(t, h)].prev = p
  /\ \A a \in DOMAIN t.at \ {h, block_next(t, h)} : u.at[a].prev = t.at[a].prev

LEMMA AbsorbIs ==
  ASSUME NEW t \in Contexts, NEW p \in DOMAIN t.at, NEW h \in DOMAIN t.at, p # h,
         block_next(t, p) = h, block_next(t, h) \in DOMAIN t.at \ {h}
  PROVE  block_absorb(t, p, h) \in Contexts /\ Absorbed(t, p, h, block_absorb(t, p, h))
  <1>1. PICK n \in DOMAIN t.at : n = block_next(t, h) /\ n # h
    OBVIOUS
  <1>2. PICK D \in SUBSET Nat : /\ D = DOMAIN t.at /\ t.at \in [D -> Headers] /\ p \in D /\ h \in D
    BY ContextIs
  <1>3. PICK size \in Nat : size = t.at[p].size + t.at[h].size + 1
    BY ContextIs
  <1> DEFINE big == [t.at EXCEPT ![p] = [t.at[p] EXCEPT !.size = size]]
             at == Restrict(big, D \ {h})
             v == HeadersOf(t, at)
  <1>4. /\ big \in [D -> Headers]
        /\ \A a \in D : /\ big[a].size = IF a = p THEN size ELSE t.at[a].size
                        /\ big[a].prev = t.at[a].prev
                        /\ big[a].free = t.at[a].free
                        /\ big[a].prev_is_free = t.at[a].prev_is_free
                        /\ big[a].next_free = t.at[a].next_free
                        /\ big[a].prev_free = t.at[a].prev_free
    BY ONLY <1>2, <1>3 DEF Headers
  <1>5. block_absorb(t, p, h) = block_link_next(v, p)
    <2>1. [t EXCEPT !.at[p].size = @ + t.at[h].size + 1] = HeadersOf(t, big)
      BY ONLY <1>3 DEF HeadersOf
    <2>2. HeadersOf(t, big).at = big /\ DOMAIN big = D
      BY ONLY <1>4, t \in Contexts DEF HeadersOf, Contexts
    <2> HIDE DEF big
    <2>3. Without(HeadersOf(t, big), h) = HeadersOf(t, at)
      BY ONLY <2>2, t \in Contexts DEF Without, HeadersOf, Contexts
    <2> HIDE DEF at
    <2> QED BY ONLY <2>1, <2>3, Zenon DEF block_absorb
  <1> HIDE DEF big
  <1>6. at \in [D \ {h} -> Headers] /\ \A a \in D \ {h} : at[a] = big[a]
    BY ONLY <1>2, <1>4 DEF Restrict
  <1>7. DOMAIN at = D \ {h} /\ D \ {h} \in SUBSET Nat
    BY ONLY <1>2, <1>6
  <1> HIDE DEF at
  <1>8. /\ v \in Contexts /\ v.at = at /\ v.block = t.block /\ v.sl = t.sl /\ v.fl = t.fl
        /\ v.size = t.size
    BY ONLY t \in Contexts, <1>6, <1>7, HeadersOfIs
  <1>9. block_next(v, p) = n /\ p \in DOMAIN v.at /\ n \in DOMAIN v.at
    <2>1. p \in D \ {h} /\ n \in D \ {h}
      BY ONLY <1>1, <1>2, p # h
    <2>2. v.at[p].size = size
      BY ONLY <1>4, <1>6, <1>8, <2>1
    <2>3. h = p + 1 + t.at[p].size /\ n = h + 1 + t.at[h].size
      BY <1>1 DEF block_next
    <2>4. t.at[p].size \in Nat /\ t.at[h].size \in Nat /\ p \in Nat
      BY <1>2, ContextIs
    <2>5. n = p + 1 + size
      BY ONLY <1>3, <2>3, <2>4
    <2> QED BY ONLY <1>7, <1>8, <2>1, <2>2, <2>5 DEF block_next
  <1> HIDE DEF v
  <1> DEFINE u == block_link_next(v, p)
  <1>10. u \in Contexts /\ LinkedNext(v, p, u)
    BY ONLY <1>8, <1>9, LinkNextIs
  <1> HIDE DEF u
  <1>11. /\ \A a \in D \ {h} : /\ v.at[a].size = IF a = p THEN size ELSE t.at[a].size
                             /\ v.at[a].prev = t.at[a].prev
                             /\ v.at[a].free = t.at[a].free
                             /\ v.at[a].prev_is_free = t.at[a].prev_is_free
                             /\ v.at[a].next_free = t.at[a].next_free
                             /\ v.at[a].prev_free = t.at[a].prev_free
    BY ONLY <1>4, <1>6, <1>8
  <1>12. SameLinks(t, u) /\ SameFlags(t, u)
    BY ONLY <1>2, <1>7, <1>8, <1>10, <1>11 DEF LinkedNext, SameLinks, SameFlags, SameSizes
  <1>13. Absorbed(t, p, h, u)
    BY ONLY <1>1, <1>2, <1>3, <1>7, <1>8, <1>9, <1>10, <1>11, <1>12, p # h
       DEF LinkedNext, SameSizes, Absorbed
  <1> QED BY ONLY <1>5, <1>10, <1>13 DEF u

\* The block h is cut behind its first size words, and the rest is a free block.
SplitOf(t, h, size) ==
  LET rest == h + 1 + size
  IN  [t EXCEPT !.at = With([@ EXCEPT ![h].size = size, ![block_next(t, h)].prev = rest], rest,
                            [Header EXCEPT !.size = t.at[h].size - size - 1, !.free = TRUE,
                                           !.prev_is_free = TRUE, !.prev = h])]

Split(t, h, size, u) ==
  LET rest == h + 1 + size
      n    == block_next(t, h)
  IN  /\ SameLinks(t, u) /\ SameFlags(t, u)
      /\ DOMAIN u.at = DOMAIN t.at \cup {rest} /\ u.size = t.size
      /\ u.at[h].size = size
      /\ u.at[rest].size = t.at[h].size - size - 1
      /\ u.at[rest].free /\ u.at[rest].prev_is_free /\ u.at[rest].prev = h
      /\ \A a \in DOMAIN t.at \ {h} : u.at[a].size = t.at[a].size
      /\ u.at[n].prev = rest
      /\ \A a \in DOMAIN t.at \ {n} : u.at[a].prev = t.at[a].prev

LEMMA SplitIs ==
  ASSUME NEW t \in Contexts, NEW h \in DOMAIN t.at, NEW size \in Nat, size < t.at[h].size,
         block_next(t, h) \in DOMAIN t.at, h + 1 + size \notin DOMAIN t.at
  PROVE  SplitOf(t, h, size) \in Contexts /\ Split(t, h, size, SplitOf(t, h, size))
  <1>1. PICK D \in SUBSET Nat : /\ D = DOMAIN t.at /\ t.at \in [D -> Headers] /\ h \in D
    BY ContextIs
  <1>2. PICK n \in D : n = block_next(t, h)
    BY <1>1
  <1>3. PICK rest \in Nat : rest = h + 1 + size /\ rest \notin D
    BY <1>1
  <1>4. PICK left \in Nat : left = t.at[h].size - size - 1
    BY ContextIs
  <1>5. n # h
    BY <1>1, <1>2, ContextIs DEF block_next
  <1> DEFINE new == [Header EXCEPT !.size = left, !.free = TRUE, !.prev_is_free = TRUE, !.prev = h]
             old == [[t.at EXCEPT ![h] = [t.at[h] EXCEPT !.size = size]]
                       EXCEPT ![n] = [@ EXCEPT !.prev = rest]]
             at == With(old, rest, new)
             u == HeadersOf(t, at)
  <1>6. SplitOf(t, h, size) = u
    BY ONLY <1>2, <1>3, <1>4 DEF SplitOf, HeadersOf
  <1>7. new \in Headers /\ new.size = left /\ new.free /\ new.prev_is_free /\ new.prev = h
    <2>1. left \in Nat /\ h \in Int
      BY ONLY <1>1, <1>4
    <2> DEFINE sized == [Header EXCEPT !.size = left, !.free = TRUE]
    <2>2. sized \in Headers /\ sized.size = left /\ sized.free
      BY ONLY <2>1, HeaderIs DEF Headers
    <2>3. new = [sized EXCEPT !.prev_is_free = TRUE, !.prev = h]
      OBVIOUS
    <2> HIDE DEF sized, new
    <2> QED BY ONLY <2>1, <2>2, <2>3 DEF Headers
  <1>8. /\ old \in [D -> Headers]
        /\ \A a \in D : /\ old[a].size = IF a = h THEN size ELSE t.at[a].size
                        /\ old[a].prev = IF a = n THEN rest ELSE t.at[a].prev
                        /\ old[a].free = t.at[a].free
                        /\ old[a].prev_is_free = t.at[a].prev_is_free
                        /\ old[a].next_free = t.at[a].next_free
                        /\ old[a].prev_free = t.at[a].prev_free
    BY ONLY <1>1, <1>2, <1>3, size \in Nat DEF Headers
  <1> HIDE DEF new, old
  <1>9. /\ at \in [D \cup {rest} -> Headers] /\ at[rest] = new
        /\ \A a \in D : at[a] = old[a]
    BY ONLY <1>3, <1>7, <1>8 DEF With
  <1>10. DOMAIN at = D \cup {rest} /\ D \cup {rest} \in SUBSET Nat
    BY ONLY <1>1, <1>3, <1>9
  <1> HIDE DEF at
  <1>11. /\ u \in Contexts /\ u.at = at /\ u.block = t.block /\ u.sl = t.sl /\ u.fl = t.fl
         /\ u.size = t.size
    BY ONLY t \in Contexts, <1>9, <1>10, HeadersOfIs
  <1> HIDE DEF u
  <1>12. SameLinks(t, u) /\ SameFlags(t, u)
    BY ONLY <1>1, <1>8, <1>9, <1>10, <1>11 DEF SameLinks, SameFlags
  <1>13. Split(t, h, size, u)
    BY ONLY <1>1, <1>2, <1>3, <1>4, <1>5, <1>7, <1>8, <1>9, <1>10, <1>11, <1>12 DEF Split
  <1> QED BY ONLY <1>6, <1>11, <1>13

\* The links of the block h and prev of the next one are the client's.
Scribbled(t, h, u) ==
  /\ SameSizes(t, u) /\ SameFlags(t, u)
  /\ u.block = t.block /\ u.sl = t.sl /\ u.fl = t.fl
  /\ \A a \in DOMAIN t.at \ {h} : /\ u.at[a].next_free = t.at[a].next_free
                                  /\ u.at[a].prev_free = t.at[a].prev_free
  /\ \A a \in DOMAIN t.at \ {block_next(t, h)} : u.at[a].prev = t.at[a].prev

LEMMA OverwrittenIs ==
  ASSUME NEW t \in Contexts, NEW h \in DOMAIN t.at, block_next(t, h) \in DOMAIN t.at
  PROVE  Overwritten(t, h) \in Contexts /\ Scribbled(t, h, Overwritten(t, h))
  <1>1. PICK D \in SUBSET Nat : /\ D = DOMAIN t.at /\ t.at \in [D -> Headers] /\ h \in D
    BY ContextIs
  <1>2. PICK n \in D : n = block_next(t, h)
    BY <1>1
  <1> DEFINE cut == [[t.at EXCEPT ![h] = [t.at[h] EXCEPT !.next_free = DATA]]
                       EXCEPT ![h] = [@ EXCEPT !.prev_free = DATA]]
             at == [cut EXCEPT ![n] = [@ EXCEPT !.prev = DATA]]
             u == HeadersOf(t, at)
  <1>3. Overwritten(t, h) = u
    <2>1. [t EXCEPT !.at[h].next_free = DATA, !.at[h].prev_free = DATA] = HeadersOf(t, cut)
      BY ONLY t \in Contexts DEF HeadersOf, Contexts
    <2>2. HeadersOf(t, cut).at = cut
      BY ONLY t \in Contexts DEF HeadersOf, Contexts
    <2>3. Overwritten(t, h)
            = [[t EXCEPT !.at[h].next_free = DATA, !.at[h].prev_free = DATA] EXCEPT !.at[n].prev = DATA]
      BY ONLY <1>2, Zenon DEF Overwritten
    <2> HIDE DEF cut
    <2>4. [HeadersOf(t, cut) EXCEPT !.at[n].prev = DATA] = HeadersOf(t, at)
      BY ONLY <2>2, t \in Contexts DEF HeadersOf, Contexts
    <2> QED BY ONLY <2>1, <2>3, <2>4
  <1>4. /\ at \in [D -> Headers]
        /\ \A a \in D : /\ at[a].size = t.at[a].size
                        /\ a # n => at[a].prev = t.at[a].prev
                        /\ at[a].free = t.at[a].free
                        /\ at[a].prev_is_free = t.at[a].prev_is_free
                        /\ a # h => at[a].next_free = t.at[a].next_free
                        /\ a # h => at[a].prev_free = t.at[a].prev_free
    <2>1. /\ cut \in [D -> Headers]
          /\ \A a \in D : /\ cut[a].size = t.at[a].size /\ cut[a].prev = t.at[a].prev
                          /\ cut[a].free = t.at[a].free
                          /\ cut[a].prev_is_free = t.at[a].prev_is_free
                          /\ a # h => cut[a].next_free = t.at[a].next_free
                          /\ a # h => cut[a].prev_free = t.at[a].prev_free
      BY ONLY <1>1 DEF Headers, DATA
    <2> HIDE DEF cut
    <2>2. /\ at \in [D -> Headers]
          /\ \A a \in D : /\ at[a].size = cut[a].size
                          /\ a # n => at[a].prev = cut[a].prev
                          /\ at[a].free = cut[a].free
                          /\ at[a].prev_is_free = cut[a].prev_is_free
                          /\ at[a].next_free = cut[a].next_free
                          /\ at[a].prev_free = cut[a].prev_free
      BY ONLY <1>2, <2>1 DEF Headers, DATA
    <2> QED BY ONLY <2>1, <2>2
  <1>5. DOMAIN at = D
    BY ONLY <1>4
  <1> HIDE DEF at
  <1>6. /\ u \in Contexts /\ u.at = at /\ u.block = t.block /\ u.sl = t.sl /\ u.fl = t.fl
        /\ u.size = t.size
    BY ONLY t \in Contexts, <1>1, <1>4, HeadersOfIs
  <1> HIDE DEF u
  <1>7. Scribbled(t, h, u)
    BY ONLY <1>1, <1>2, <1>4, <1>5, <1>6 DEF Scribbled, SameSizes, SameFlags
  <1> QED BY ONLY <1>3, <1>6, <1>7

\* The memory of the headers at with the block h of size words and a sentinel.
ExtendedWith(t, at, h, size, sentinel) ==
  [t EXCEPT !.at = With([at EXCEPT ![h].size = size, ![h].free = TRUE], sentinel,
                        [Header EXCEPT !.prev_is_free = TRUE]),
            !.size = sentinel + 1]

Extended(t, at, h, size, sentinel, u) ==
  /\ u.block = t.block /\ u.sl = t.sl /\ u.fl = t.fl
  /\ DOMAIN u.at = DOMAIN at \cup {sentinel} /\ u.size = sentinel + 1
  /\ u.at[h].size = size /\ u.at[h].free
  /\ u.at[sentinel].size = 0 /\ ~u.at[sentinel].free /\ u.at[sentinel].prev_is_free
  /\ \A a \in DOMAIN at \ {h} : u.at[a].size = at[a].size /\ u.at[a].free = at[a].free
  /\ \A a \in DOMAIN at : /\ u.at[a].prev_is_free = at[a].prev_is_free
                          /\ u.at[a].prev = at[a].prev
                          /\ u.at[a].next_free = at[a].next_free
                          /\ u.at[a].prev_free = at[a].prev_free

LEMMA ExtendIs ==
  ASSUME NEW t \in Contexts, NEW D \in SUBSET Nat, NEW at \in [D -> Headers], NEW h \in D,
         NEW size \in Nat, NEW sentinel \in Nat \ D
  PROVE  LET u == ExtendedWith(t, at, h, size, sentinel)
         IN  u \in Contexts /\ Extended(t, at, h, size, sentinel, u)
  <1> DEFINE big == [[at EXCEPT ![h] = [at[h] EXCEPT !.size = size]]
                       EXCEPT ![h] = [@ EXCEPT !.free = TRUE]]
             end == [Header EXCEPT !.prev_is_free = TRUE]
             all == With(big, sentinel, end)
             u == [HeadersOf(t, all) EXCEPT !.size = sentinel + 1]
  <1>1. ExtendedWith(t, at, h, size, sentinel) = u
    BY ONLY t \in Contexts DEF ExtendedWith, HeadersOf, Contexts
  <1>2. end \in Headers /\ end.size = 0 /\ ~end.free /\ end.prev_is_free
    BY ONLY HeaderIs DEF Headers
  <1>3. /\ big \in [D -> Headers]
        /\ \A a \in D : /\ big[a].size = IF a = h THEN size ELSE at[a].size
                        /\ big[a].prev = at[a].prev
                        /\ big[a].free = IF a = h THEN TRUE ELSE at[a].free
                        /\ big[a].prev_is_free = at[a].prev_is_free
                        /\ big[a].next_free = at[a].next_free
                        /\ big[a].prev_free = at[a].prev_free
    BY ONLY at \in [D -> Headers], h \in D, size \in Nat DEF Headers
  <1> HIDE DEF big, end
  <1>4. /\ all \in [D \cup {sentinel} -> Headers] /\ all[sentinel] = end
        /\ \A a \in D : all[a] = big[a]
    BY ONLY <1>2, <1>3, sentinel \in Nat \ D DEF With
  <1>5. DOMAIN all = D \cup {sentinel} /\ D \cup {sentinel} \in SUBSET Nat /\ DOMAIN at = D
    BY ONLY <1>4, D \in SUBSET Nat, sentinel \in Nat \ D, at \in [D -> Headers]
  <1> HIDE DEF all
  <1>6. /\ HeadersOf(t, all) \in Contexts /\ HeadersOf(t, all).at = all
        /\ HeadersOf(t, all).block = t.block /\ HeadersOf(t, all).sl = t.sl
        /\ HeadersOf(t, all).fl = t.fl
    BY ONLY t \in Contexts, <1>4, <1>5, HeadersOfIs
  <1>7. sentinel + 1 \in Nat
    BY ONLY sentinel \in Nat \ D
  <1>8. /\ u \in Contexts /\ u.at = all /\ u.block = t.block /\ u.sl = t.sl /\ u.fl = t.fl
        /\ u.size = sentinel + 1
    BY ONLY <1>6, <1>7 DEF Contexts
  <1> HIDE DEF u
  <1>9. Extended(t, at, h, size, sentinel, u)
    <2>1. u.at[h] = big[h] /\ u.at[sentinel] = end /\ \A a \in D : u.at[a] = big[a]
      BY ONLY <1>4, <1>8, h \in D
    <2>2. /\ u.at[sentinel].size = 0 /\ ~u.at[sentinel].free /\ u.at[sentinel].prev_is_free
      BY ONLY <1>2, <2>1
    <2>3. /\ u.at[h].size = size /\ u.at[h].free
          /\ \A a \in D \ {h} : u.at[a].size = at[a].size /\ u.at[a].free = at[a].free
          /\ \A a \in D : /\ u.at[a].prev_is_free = at[a].prev_is_free
                          /\ u.at[a].prev = at[a].prev
                          /\ u.at[a].next_free = at[a].next_free
                          /\ u.at[a].prev_free = at[a].prev_free
      <3>1. u.at[h].size = size /\ u.at[h].free
        BY ONLY <1>3, <2>1, h \in D
      <3>2. ASSUME NEW a \in D
            PROVE  /\ a # h => u.at[a].size = at[a].size /\ u.at[a].free = at[a].free
                   /\ u.at[a].prev_is_free = at[a].prev_is_free /\ u.at[a].prev = at[a].prev
                   /\ u.at[a].next_free = at[a].next_free /\ u.at[a].prev_free = at[a].prev_free
        BY ONLY <1>3, <2>1, <3>2
      <3> QED BY ONLY <3>1, <3>2
    <2> QED BY ONLY <1>5, <1>8, <2>2, <2>3 DEF Extended
  <1> QED BY ONLY <1>1, <1>8, <1>9

\* The block h is the new sentinel.
Shrunk(t, h, u) ==
  /\ u.block = t.block /\ u.sl = t.sl /\ u.fl = t.fl
  /\ DOMAIN u.at = DOMAIN t.at \ {block_next(t, h)}
  /\ u.size = t.size - t.at[h].size - 1
  /\ u.at[h].size = 0 /\ ~u.at[h].free /\ ~u.at[h].prev_is_free
  /\ \A a \in DOMAIN u.at \ {h} : u.at[a] = t.at[a]

LEMMA ShrinkIs ==
  ASSUME NEW t \in Contexts, NEW h \in DOMAIN t.at, t.size - t.at[h].size - 1 \in Nat
  PROVE  LET u == arena_shrink(t, h)
         IN  /\ u \in Contexts
             /\ IF t.size - t.at[h].size - 1 \in {0, 1}
                 THEN /\ u.block = t.block /\ u.sl = t.sl /\ u.fl = t.fl
                      /\ DOMAIN u.at = {} /\ u.size = 0
                 ELSE Shrunk(t, h, u)
  <1>1. PICK D \in SUBSET Nat : /\ D = DOMAIN t.at /\ t.at \in [D -> Headers] /\ h \in D
    BY ContextIs
  <1>2. PICK size \in Nat : size = t.size - t.at[h].size - 1
    OBVIOUS
  <1> DEFINE u == arena_shrink(t, h)
  <1>3. CASE size \in {0, 1}
    <2>1. ShrunkSize(t, h) = 0
      BY ONLY <1>2, <1>3 DEF ShrunkSize
    <2>2. u = [t EXCEPT !.size = 0, !.at = << >>]
      BY ONLY <2>1 DEF arena_shrink
    <2>3. << >> \in Ats /\ DOMAIN << >> = {}
      <3>1. DOMAIN << >> = {} /\ << >> \in [{} -> Headers]
        OBVIOUS
      <3> QED BY ONLY <3>1, InAts
    <2>4. /\ u \in Contexts /\ u.block = t.block /\ u.sl = t.sl /\ u.fl = t.fl
          /\ u.at = << >> /\ u.size = 0
      <3>1. PICK none \in Ats : none = << >>
        BY ONLY <2>3
      <3>2. u = [t EXCEPT !.size = 0, !.at = none]
        BY ONLY <2>2, <3>1
      <3> HIDE DEF u
      <3>3. /\ u \in Contexts /\ u.block = t.block /\ u.sl = t.sl /\ u.fl = t.fl
            /\ u.at = none /\ u.size = 0
        BY ONLY <3>1, <3>2, t \in Contexts DEF Contexts
      <3> QED BY ONLY <3>1, <3>3
    <2> QED BY ONLY <1>2, <1>3, <2>3, <2>4
  <1>4. CASE size \notin {0, 1}
    <2>1. ShrunkSize(t, h) = size /\ size # 0
      BY ONLY <1>2, <1>4 DEF ShrunkSize
    <2>2. PICK n \in Nat : n = block_next(t, h) /\ n # h
      BY <1>1, ContextIs DEF block_next
    <2> DEFINE rest == Restrict(t.at, D \ {n})
               end == [Header EXCEPT !.prev = t.at[h].prev]
               at == [rest EXCEPT ![h] = end]
               v == [HeadersOf(t, at) EXCEPT !.size = size]
    <2>3. u = v
      <3>1. Without(t, n) = HeadersOf(t, rest)
        BY ONLY <1>1 DEF Without, HeadersOf
      <3>2. u = [Without(t, n) EXCEPT !.size = size, !.at[h] = end]
        BY ONLY <2>1, <2>2 DEF arena_shrink
      <3>3. HeadersOf(t, rest).at = rest
        BY ONLY t \in Contexts DEF HeadersOf, Contexts
      <3> HIDE DEF rest, end
      <3>4. [HeadersOf(t, rest) EXCEPT !.size = size, !.at[h] = end] = v
        BY ONLY <3>3, t \in Contexts DEF HeadersOf, Contexts
      <3> QED BY ONLY <3>1, <3>2, <3>4
    <2>4. t.at[h].prev \in Int
      BY ContextIs
    <2>5. end \in Headers /\ end.size = 0 /\ ~end.free /\ ~end.prev_is_free
      BY ONLY <2>4, HeaderIs DEF Headers
    <2> HIDE DEF end
    <2>6. /\ rest \in [D \ {n} -> Headers]
          /\ \A a \in D \ {n} : rest[a] = t.at[a]
      BY ONLY <1>1 DEF Restrict
    <2> HIDE DEF rest
    <2>7. /\ at \in [D \ {n} -> Headers] /\ at[h] = end
          /\ \A a \in D \ {n, h} : at[a] = t.at[a]
      BY ONLY <1>1, <2>2, <2>5, <2>6
    <2>8. DOMAIN at = D \ {n} /\ D \ {n} \in SUBSET Nat
      BY ONLY <1>1, <2>7
    <2> HIDE DEF at
    <2>9. /\ HeadersOf(t, at) \in Contexts /\ HeadersOf(t, at).at = at
          /\ HeadersOf(t, at).block = t.block /\ HeadersOf(t, at).sl = t.sl
          /\ HeadersOf(t, at).fl = t.fl
      BY ONLY t \in Contexts, <2>7, <2>8, HeadersOfIs
    <2>10. /\ v \in Contexts /\ v.at = at /\ v.block = t.block /\ v.sl = t.sl /\ v.fl = t.fl
           /\ v.size = size
      BY ONLY <1>2, <2>9 DEF Contexts
    <2> HIDE DEF v
    <2>11. Shrunk(t, h, v)
      BY ONLY <1>1, <1>2, <2>2, <2>5, <2>7, <2>8, <2>10 DEF Shrunk
    <2> QED BY ONLY <1>2, <1>4, <2>3, <2>10, <2>11 DEF u
  <1> QED BY <1>3, <1>4

-----------------------------------------------------------------------------
(* Free lists                                                              *)

NodeLinked(F, next, prev, head, class, rank, n) ==
  /\ next[n] # NULL => /\ next[n] \in F /\ class[next[n]] = class[n]
                       /\ prev[next[n]] = n /\ rank[next[n]] < rank[n]
  /\ prev[n] # NULL => /\ prev[n] \in F /\ class[prev[n]] = class[n]
                       /\ next[prev[n]] = n
  /\ prev[n] = NULL => head[class[n]] = n

\* Every block of F is in the list of its class: from its head on, and down in rank.
Linked(F, next, prev, head, class, rank) ==
  /\ \A c \in Classes : head[c] # NULL => /\ head[c] \in F /\ class[head[c]] = c
                                          /\ prev[head[c]] = NULL
  /\ \A n \in F : class[n] \in Classes /\ NodeLinked(F, next, prev, head, class, rank, n)

Linkable(F, next, prev, head, class) ==
  \E rank \in [Nat -> Int] : Linked(F, next, prev, head, class, rank)

\* A block that is put in front of a list.
LEMMA PushLinks ==
  ASSUME NEW F \in SUBSET Nat, NEW next, NEW prev, NEW head, NEW class, Linkable(F, next, prev, head, class),
         NEW next2, NEW prev2, NEW head2, NEW class2,
         NEW n \in Nat \ F, NEW c \in Classes,
         next2[n] = head[c], prev2[n] = NULL, head2[c] = n, class2[n] = c,
         \A m \in F : /\ next2[m] = next[m] /\ class2[m] = class[m]
                      /\ prev2[m] = IF m = head[c] THEN n ELSE prev[m],
         \A k \in Classes \ {c} : head2[k] = head[k]
  PROVE  Linkable(F \cup {n}, next2, prev2, head2, class2)
  <1> DEFINE G == F \cup {n}
  <1>0. PICK rank \in [Nat -> Int] : Linked(F, next, prev, head, class, rank)
    BY DEF Linkable
  <1> DEFINE rank2 == [m \in Nat |-> IF m # n THEN rank[m]
                                     ELSE IF head[c] # NULL THEN rank[head[c]] + 1 ELSE 0]
  <1>1. head[c] # NULL => /\ head[c] \in F /\ class[head[c]] = c /\ prev[head[c]] = NULL
                          /\ head[c] # n
    BY <1>0 DEF Linked
  <1>2. rank2 \in [Nat -> Int]
    <2>1. head[c] # NULL => head[c] \in Nat /\ rank[head[c]] \in Int
      BY <1>1
    <2>2. \A m \in Nat : rank[m] \in Int
      OBVIOUS
    <2> QED BY <2>1, <2>2
  <1>3. /\ rank2[n] = IF head[c] # NULL THEN rank[head[c]] + 1 ELSE 0
        /\ \A m \in F : rank2[m] = rank[m] /\ rank[m] \in Int
        /\ \A m \in F : m # n /\ m # NULL
        /\ n # NULL
    BY DEF NULL
  <1> HIDE DEF rank2
  <1>4. ASSUME NEW k \in Classes, head2[k] # NULL
        PROVE  head2[k] \in G /\ class2[head2[k]] = k /\ prev2[head2[k]] = NULL
    <2>1. CASE k = c
      BY <2>1
    <2>2. CASE k # c
      <3>1. /\ head2[k] = head[k] /\ head[k] \in F /\ class[head[k]] = k
            /\ prev[head[k]] = NULL
        BY <1>0, <1>4, <2>2 DEF Linked
      <3>2. head[k] # head[c]
        BY <1>1, <1>3, <2>2, <3>1
      <3> QED BY <3>1, <3>2
    <2> QED BY <2>1, <2>2
  <1>5. NodeLinked(G, next2, prev2, head2, class2, rank2, n)
    <2>1. head[c] # NULL => rank[head[c]] < rank2[n] /\ rank2[head[c]] = rank[head[c]]
      <3>1. CASE head[c] # NULL
        <4>1. rank2[head[c]] = rank[head[c]] /\ rank[head[c]] \in Int
          BY <1>1, <1>3, <3>1
        <4>2. rank2[n] = rank[head[c]] + 1
          BY <1>3, <3>1
        <4> QED BY <4>1, <4>2
      <3> QED BY <3>1
    <2> QED BY <1>1, <1>3, <2>1 DEF NodeLinked
  <1>6. ASSUME NEW m \in F
        PROVE  NodeLinked(G, next2, prev2, head2, class2, rank2, m)
    <2>1. NodeLinked(F, next, prev, head, class, rank, m) /\ class[m] \in Classes
      BY <1>0 DEF Linked
    <2>2. next2[m] = next[m] /\ class2[m] = class[m] /\ rank2[m] = rank[m]
      BY <1>3
    <2>3. next[m] # NULL => /\ next[m] \in G
                            /\ prev2[next[m]] = m /\ class2[next[m]] = class[m]
                            /\ rank2[next[m]] = rank[next[m]] /\ rank[next[m]] < rank[m]
      <3>1. next[m] # NULL => /\ next[m] \in F /\ class[next[m]] = class[m]
                              /\ prev[next[m]] = m /\ prev[next[m]] # NULL
                              /\ rank[next[m]] < rank[m]
        BY <1>3, <2>1 DEF NodeLinked
      <3>2. next[m] # NULL => next[m] # head[c]
        BY <1>1, <1>3, <3>1
      <3> QED BY <1>3, <3>1, <3>2
    <2>4. CASE m = head[c]
      <3>1. prev2[m] = n /\ next2[n] = m /\ class2[n] = class[m] /\ n \in G
        BY <1>1, <1>3, <2>4
      <3> QED BY <1>3, <2>1, <2>2, <2>3, <3>1 DEF NodeLinked
    <2>5. CASE m # head[c]
      <3>1. prev2[m] = prev[m]
        BY <2>5
      <3>2. prev[m] # NULL => prev[m] \in G /\ next2[prev[m]] = m /\ class2[prev[m]] = class[m]
        BY <1>3, <2>1 DEF NodeLinked
      <3>3. prev[m] = NULL => class[m] # c /\ head2[class[m]] = m
        BY <2>1, <2>5 DEF NodeLinked
      <3> QED BY <2>1, <2>2, <2>3, <3>1, <3>2, <3>3 DEF NodeLinked
    <2> QED BY <2>4, <2>5
  <1>7. \A m \in G : class2[m] \in Classes
    BY <1>0 DEF Linked
  <1>8. Linked(G, next2, prev2, head2, class2, rank2)
    BY <1>4, <1>5, <1>6, <1>7 DEF Linked
  <1> QED BY <1>2, <1>8 DEF Linkable

\* A block that leaves its list.
LEMMA RemoveLinks ==
  ASSUME NEW F \in SUBSET Nat, NEW next, NEW prev, NEW head, NEW class, Linkable(F, next, prev, head, class),
         NEW next2, NEW prev2, NEW head2, NEW class2,
         NEW n \in F, NEW c \in Classes, class[n] = c,
         \A m \in F \ {n} :
           /\ class2[m] = class[m]
           /\ next2[m] = IF m = prev[n] THEN next[n] ELSE next[m]
           /\ prev2[m] = IF m = next[n] THEN prev[n] ELSE prev[m],
         head2[c] = IF prev[n] = NULL THEN next[n] ELSE head[c],
         \A k \in Classes \ {c} : head2[k] = head[k]
  PROVE  Linkable(F \ {n}, next2, prev2, head2, class2)
  <1> DEFINE G == F \ {n}
  <1>0. PICK rank \in [Nat -> Int] : Linked(F, next, prev, head, class, rank)
    BY DEF Linkable
  <1>1. NodeLinked(F, next, prev, head, class, rank, n)
    BY <1>0 DEF Linked
  <1>2. /\ next[n] # NULL => next[n] \in G /\ class[next[n]] = c
        /\ prev[n] # NULL => prev[n] \in G /\ class[prev[n]] = c
        /\ \A m \in F : m # NULL /\ rank[m] \in Int
    <2>1. next[n] # NULL => rank[next[n]] < rank[n] /\ next[n] # n
      BY <1>1 DEF NodeLinked
    <2>2. prev[n] # NULL => prev[n] # n
      <3>1. ASSUME prev[n] = n, prev[n] # NULL PROVE FALSE
        BY <1>1, <2>1, <3>1 DEF NodeLinked
      <3> QED BY <3>1
    <2>3. \A m \in F : m # NULL /\ rank[m] \in Int
      BY DEF NULL
    <2> QED BY <1>1, <2>1, <2>2, <2>3 DEF NodeLinked
  <1>3. ASSUME NEW k \in Classes, head2[k] # NULL
        PROVE  head2[k] \in G /\ class2[head2[k]] = k /\ prev2[head2[k]] = NULL
    <2>1. CASE k # c
      <3>1. /\ head2[k] = head[k] /\ head[k] \in F /\ class[head[k]] = k
            /\ prev[head[k]] = NULL
        BY <1>0, <1>3, <2>1 DEF Linked
      <3>2. head[k] # n /\ head[k] # next[n]
        BY <1>2, <2>1, <3>1
      <3> QED BY <3>1, <3>2
    <2>2. CASE k = c /\ prev[n] = NULL
      <3>1. head2[k] = next[n] /\ next[n] \in G /\ class[next[n]] = c
        BY <1>2, <1>3, <2>2
      <3> QED BY <2>2, <3>1
    <2>3. CASE k = c /\ prev[n] # NULL
      <3>1. head2[k] = head[c] /\ head[c] \in F /\ class[head[c]] = c /\ prev[head[c]] = NULL
        BY <1>0, <1>3, <2>3 DEF Linked
      <3>2. head[c] # n
        BY <2>3, <3>1
      <3>3. head[c] # next[n]
        <4>1. next[n] # NULL => prev[next[n]] = n
          BY <1>1 DEF NodeLinked
        <4> QED BY <1>2, <3>1, <4>1
      <3>4. class2[head[c]] = class[head[c]] /\ prev2[head[c]] = prev[head[c]]
        BY <3>1, <3>2, <3>3
      <3> QED BY ONLY <2>3, <3>1, <3>2, <3>4
    <2> QED BY <2>1, <2>2, <2>3
  <1>4. ASSUME NEW m \in G
        PROVE  NodeLinked(G, next2, prev2, head2, class2, rank, m)
    <2>1. m # n /\ m \in F /\ class2[m] = class[m]
      BY <1>4
    <2>2. NodeLinked(F, next, prev, head, class, rank, m) /\ class[m] \in Classes
      BY <1>0, <2>1 DEF Linked
    <2>3. next2[m] # NULL => /\ next2[m] \in G /\ class2[next2[m]] = class2[m]
                             /\ prev2[next2[m]] = m /\ rank[next2[m]] < rank[m]
      <3>1. CASE m = prev[n]
        <4>1. next2[m] = next[n] /\ class[m] = c
          BY <1>2, <2>1, <3>1
        <4>2. next[n] # NULL => /\ class[next[n]] = c /\ rank[next[n]] < rank[n] /\ next[n] \in G
          BY <1>1, <1>2 DEF NodeLinked
        <4>3. next[m] = n /\ rank[n] < rank[m]
          <5>1. next[m] = n
            BY <1>1, <1>2, <2>1, <3>1 DEF NodeLinked
          <5> QED BY <1>2, <2>2, <5>1 DEF NodeLinked
        <4>4. next[n] # NULL => rank[next[n]] \in Int /\ rank[n] \in Int /\ rank[m] \in Int
          BY <1>2, <2>1, <4>2
        <4>5. next[n] # NULL => prev2[next[n]] = m /\ class2[next[n]] = class[next[n]]
          BY <3>1, <4>2
        <4> QED BY <2>1, <4>1, <4>2, <4>3, <4>4, <4>5
      <3>2. CASE m # prev[n]
        <4>1. next2[m] = next[m]
          BY <2>1, <3>2
        <4>2. next[m] # NULL => /\ next[m] \in F /\ next[m] # n /\ class[next[m]] = class[m]
                                /\ prev[next[m]] = m /\ rank[next[m]] < rank[m]
          BY <2>2, <3>2 DEF NodeLinked
        <4>3. next[m] # NULL => next[m] # next[n]
          <5>1. next[n] # NULL => prev[next[n]] = n
            BY <1>1 DEF NodeLinked
          <5> QED BY <2>1, <4>2, <5>1
        <4>4. next[m] # NULL => /\ class2[next[m]] = class[next[m]]
                                /\ prev2[next[m]] = prev[next[m]]
          BY <4>2, <4>3
        <4> QED BY ONLY <2>1, <4>1, <4>2, <4>4
      <3> QED BY <3>1, <3>2
    <2>4. /\ prev2[m] # NULL => /\ prev2[m] \in G /\ class2[prev2[m]] = class2[m]
                                /\ next2[prev2[m]] = m
          /\ prev2[m] = NULL => head2[class2[m]] = m
      <3>1. CASE m = next[n]
        <4>1. prev2[m] = prev[n] /\ class[m] = c
          BY <1>2, <2>1, <3>1
        <4>2. prev[n] # NULL => /\ prev[n] \in G /\ next2[prev[n]] = m
                                /\ class2[prev[n]] = c
          BY <1>2, <3>1
        <4>3. prev[n] = NULL => head2[c] = m
          BY <3>1
        <4> QED BY <2>1, <4>1, <4>2, <4>3
      <3>2. CASE m # next[n]
        <4>1. prev2[m] = prev[m]
          BY <2>1, <3>2
        <4>2. prev[m] # NULL => /\ prev[m] \in F /\ prev[m] # n /\ class[prev[m]] = class[m]
                                /\ next[prev[m]] = m
          BY <2>2, <3>2 DEF NodeLinked
        <4>3. prev[m] # NULL => prev[m] # prev[n]
          <5>1. prev[n] # NULL => next[prev[n]] = n
            BY <1>1 DEF NodeLinked
          <5> QED BY <2>1, <4>2, <5>1
        <4>4. prev[m] = NULL => head[class[m]] = m
          BY <2>2 DEF NodeLinked
        <4>5. prev[m] = NULL => head2[class[m]] = m
          <5>1. CASE class[m] = c /\ prev[m] = NULL
            <6>1. prev[n] = NULL => head[c] = n
              BY <1>1 DEF NodeLinked
            <6> QED BY <2>1, <4>4, <5>1, <6>1
          <5>2. CASE class[m] # c
            BY <2>2, <4>4, <5>2
          <5> QED BY <5>1, <5>2
        <4> QED BY <2>1, <4>1, <4>2, <4>3, <4>5
      <3> QED BY <3>1, <3>2
    <2> QED BY <2>3, <2>4 DEF NodeLinked
  <1>5. \A m \in G : class2[m] \in Classes
    BY <1>0 DEF Linked
  <1>6. Linked(G, next2, prev2, head2, class2, rank)
    BY <1>3, <1>4, <1>5 DEF Linked
  <1> QED BY <1>6 DEF Linkable

NextFree(t) == [a \in DOMAIN t.at |-> t.at[a].next_free]
PrevFree(t) == [a \in DOMAIN t.at |-> t.at[a].prev_free]
ClassOf(t)  == [a \in DOMAIN t.at |-> mapping(t.at[a].size)]

\* The blocks of F and no others are listed, each in the list of its class, and
\* the bitmaps name the lists that are not empty.
Listing(t, F) ==
  /\ F \in SUBSET DOMAIN t.at /\ IsFiniteSet(F)
  /\ Linkable(F, NextFree(t), PrevFree(t), t.block, ClassOf(t))
  /\ t.sl = {c \in Classes : t.block[c] # NULL}
  /\ t.fl = {c[1] : c \in t.sl}

\* What the lists of F are made of is the same.
SameLists(t, u, F) ==
  /\ u.block = t.block /\ u.sl = t.sl /\ u.fl = t.fl
  /\ F \in SUBSET DOMAIN u.at
  /\ \A a \in F : /\ u.at[a].size = t.at[a].size /\ u.at[a].next_free = t.at[a].next_free
                  /\ u.at[a].prev_free = t.at[a].prev_free

LEMMA ListingKept ==
  ASSUME NEW t \in Contexts, NEW u \in Contexts, NEW F, Listing(t, F), SameLists(t, u, F)
  PROVE  Listing(u, F)
  <1>1. PICK rank \in [Nat -> Int] : Linked(F, NextFree(t), PrevFree(t), t.block, ClassOf(t), rank)
    BY DEF Listing, Linkable
  <1>2. \A a \in F : /\ a \in DOMAIN t.at /\ a \in DOMAIN u.at
                     /\ NextFree(u)[a] = NextFree(t)[a] /\ PrevFree(u)[a] = PrevFree(t)[a]
                     /\ ClassOf(u)[a] = ClassOf(t)[a]
    BY DEF Listing, SameLists, NextFree, PrevFree, ClassOf
  <1>3. u.block = t.block /\ u.sl = t.sl /\ u.fl = t.fl /\ F \in SUBSET DOMAIN u.at
    BY DEF SameLists
  <1>4. Linked(F, NextFree(u), PrevFree(u), u.block, ClassOf(u), rank)
    BY ONLY <1>1, <1>2, <1>3 DEF Linked, NodeLinked
  <1>5. Linkable(F, NextFree(u), PrevFree(u), u.block, ClassOf(u))
    BY <1>4 DEF Linkable
  <1>6. /\ t.sl = {c \in Classes : t.block[c] # NULL} /\ t.fl = {c[1] : c \in t.sl}
        /\ IsFiniteSet(F)
    BY DEF Listing
  <1> QED BY ONLY <1>3, <1>5, <1>6 DEF Listing

\* Of finitely many blocks one has the highest rank.
LEMMA NoEndlessClimb ==
  ASSUME NEW S, IsFiniteSet(S), NEW rank, \A n \in S : rank[n] \in Int,
         NEW up, \A n \in S : up[n] \in S /\ rank[n] < rank[up[n]]
  PROVE  S = {}
  <1> SUFFICES ASSUME S # {} PROVE FALSE
    OBVIOUS
  <1> DEFINE Above(n) == {m \in S : rank[n] < rank[m]}
             Depths == {Cardinality(Above(n)) : n \in S}
  <1>1. \A n \in S : IsFiniteSet(Above(n)) /\ Cardinality(Above(n)) \in Nat
    <2>1. \A n \in S : Above(n) \in SUBSET S
      OBVIOUS
    <2> HIDE DEF Above
    <2> QED BY <2>1, FS_Subset, FS_CardinalityType
  <1>2. PICK n \in S : \A m \in S : Cardinality(Above(n)) <= Cardinality(Above(m))
    <2> HIDE DEF Above
    <2>1. Depths \in SUBSET Nat /\ Depths # {}
      BY <1>1
    <2>2. PICK d \in Depths : \A e \in Depths : d <= e
      <3> HIDE DEF Depths
      <3> QED BY ONLY <2>1, LeastExists
    <2> QED BY <2>2
  <1>3. up[n] \in S /\ up[n] \in Above(n) /\ up[n] \notin Above(up[n])
    OBVIOUS
  <1>4. Above(up[n]) \in SUBSET Above(n)
    <2>1. ASSUME NEW m \in S, rank[up[n]] < rank[m] PROVE rank[n] < rank[m]
      <3>1. rank[n] \in Int /\ rank[m] \in Int /\ rank[up[n]] \in Int /\ rank[n] < rank[up[n]]
        BY <1>3
      <3> QED BY ONLY <2>1, <3>1
    <2> QED BY <2>1
  <1> HIDE DEF Above
  <1>5. /\ Cardinality(Above(up[n])) <= Cardinality(Above(n))
        /\ Cardinality(Above(up[n])) # Cardinality(Above(n))
    BY <1>1, <1>3, <1>4, FS_Subset
  <1> QED BY <1>1, <1>2, <1>3, <1>5

LEMMA ListingFacts ==
  ASSUME NEW t \in Contexts, NEW F, Listing(t, F), NEW h \in F
  PROVE  /\ h \in DOMAIN t.at /\ mapping(t.at[h].size) \in Classes
         /\ t.block[mapping(t.at[h].size)] # NULL
  <1>1. PICK rank \in [Nat -> Int] : Linked(F, NextFree(t), PrevFree(t), t.block, ClassOf(t), rank)
    BY DEF Listing, Linkable
  <1>2. F \in SUBSET DOMAIN t.at /\ DOMAIN t.at \in SUBSET Nat
    BY ContextIs DEF Listing
  <1>3. ClassOf(t)[h] = mapping(t.at[h].size)
    BY <1>2 DEF ClassOf
  <1> DEFINE c == ClassOf(t)[h]
  <1>4. c \in Classes /\ NodeLinked(F, NextFree(t), PrevFree(t), t.block, ClassOf(t), rank, h)
    BY <1>1 DEF Linked
  <1>5. t.block[c] # NULL
    <2> DEFINE next == NextFree(t)
               prev == PrevFree(t)
               C    == ClassOf(t)
    \* Of the blocks of the class that are not behind another one there is one.
    <2>1. ASSUME t.block[c] = NULL PROVE FALSE
      <3> DEFINE In == {n \in F : C[n] = c}
      <3> HIDE DEF next, prev, C
      <3>1. \A n \in In : prev[n] # NULL /\ prev[n] \in In /\ rank[n] < rank[prev[n]]
        <4>1. SUFFICES ASSUME NEW n \in In
                       PROVE  prev[n] # NULL /\ prev[n] \in In /\ rank[n] < rank[prev[n]]
          OBVIOUS
        <4>2. NodeLinked(F, next, prev, t.block, C, rank, n) /\ n \in Nat
          BY <1>1, <1>2 DEF Linked, next, prev, C
        <4>3. n # NULL
          BY <4>2 DEF NULL
        <4>4. prev[n] # NULL
          BY <2>1, <4>2, <4>3 DEF NodeLinked, C
        <4>5. prev[n] \in In /\ next[prev[n]] = n
          BY <4>2, <4>4 DEF NodeLinked
        <4>6. NodeLinked(F, next, prev, t.block, C, rank, prev[n])
          BY <1>1, <4>5 DEF Linked, next, prev, C
        <4> QED BY <4>3, <4>4, <4>5, <4>6 DEF NodeLinked
      <3>2. h \in In
        BY DEF C
      <3>3. IsFiniteSet(In)
        <4>1. IsFiniteSet(F) /\ In \in SUBSET F
          BY DEF Listing
        <4> QED BY ONLY <4>1, FS_Subset
      <3>4. \A n \in In : rank[n] \in Int
        BY <1>2
      <3> HIDE DEF In
      <3>5. In = {}
        BY ONLY <3>1, <3>3, <3>4, NoEndlessClimb
      <3> QED BY <3>2, <3>5
    <2> QED BY <2>1
  <1> QED BY <1>2, <1>3, <1>4, <1>5

LEMMA PushListing ==
  ASSUME NEW t \in Contexts, NEW F, Listing(t, F), NEW h \in DOMAIN t.at \ F, NEW c \in Classes,
         c = mapping(t.at[h].size), NEW u \in Contexts, Pushed(t, h, c, u)
  PROVE  Listing(u, F \cup {h})
  <1>1. /\ F \in SUBSET DOMAIN t.at /\ DOMAIN t.at \in SUBSET Nat /\ IsFiniteSet(F)
        /\ Linkable(F, NextFree(t), PrevFree(t), t.block, ClassOf(t))
        /\ t.sl = {d \in Classes : t.block[d] # NULL} /\ t.fl = {d[1] : d \in t.sl}
    BY ContextIs DEF Listing
  <1>2. /\ DOMAIN u.at = DOMAIN t.at
        /\ NextFree(u)[h] = t.block[c] /\ PrevFree(u)[h] = NULL /\ ClassOf(u)[h] = c
        /\ \A m \in F : /\ NextFree(u)[m] = NextFree(t)[m] /\ ClassOf(u)[m] = ClassOf(t)[m]
                        /\ PrevFree(u)[m] = IF m = t.block[c] THEN h ELSE PrevFree(t)[m]
    BY <1>1 DEF NextFree, PrevFree, ClassOf, Pushed, SameRow, SameSizes
  <1>3. /\ u.block[c] = h /\ \A k \in Classes \ {c} : u.block[k] = t.block[k]
        /\ u.sl = t.sl \cup {c} /\ u.fl = t.fl \cup {c[1]}
    BY DEF Pushed
  <1>4. F \in SUBSET Nat /\ h \in Nat \ F
    BY <1>1
  <1>5. Linkable(F \cup {h}, NextFree(u), PrevFree(u), u.block, ClassOf(u))
    BY ONLY <1>1, <1>2, <1>3, <1>4, c \in Classes, PushLinks
  <1>6. h # NULL
    BY <1>4 DEF NULL
  <1>7. u.sl = {d \in Classes : u.block[d] # NULL}
    BY <1>1, <1>3, <1>6
  <1>8. u.fl = {d[1] : d \in u.sl}
    BY ONLY <1>1, <1>3
  <1>9. IsFiniteSet(F \cup {h}) /\ F \cup {h} \in SUBSET DOMAIN u.at
    BY <1>1, <1>2, FS_AddElement
  <1> QED BY ONLY <1>5, <1>7, <1>8, <1>9 DEF Listing

LEMMA UnlinkListing ==
  ASSUME NEW t \in Contexts, NEW F, Listing(t, F), NEW h \in F, NEW c,
         c = mapping(t.at[h].size), NEW u \in Contexts, Unlinked(t, h, c, u)
  PROVE  Listing(u, F \ {h})
  <1>1. /\ F \in SUBSET DOMAIN t.at /\ DOMAIN t.at \in SUBSET Nat /\ IsFiniteSet(F)
        /\ Linkable(F, NextFree(t), PrevFree(t), t.block, ClassOf(t))
        /\ t.sl = {d \in Classes : t.block[d] # NULL} /\ t.fl = {d[1] : d \in t.sl}
    BY ContextIs DEF Listing
  <1>2. c \in Classes /\ t.block[c] # NULL /\ h \in DOMAIN t.at
    BY ListingFacts
  <1>3. /\ DOMAIN u.at = DOMAIN t.at
        /\ ClassOf(t)[h] = c /\ NextFree(t)[h] = t.at[h].next_free /\ PrevFree(t)[h] = t.at[h].prev_free
        /\ \A m \in F : /\ ClassOf(u)[m] = ClassOf(t)[m]
                        /\ NextFree(u)[m] = IF m = PrevFree(t)[h] THEN NextFree(t)[h] ELSE NextFree(t)[m]
                        /\ PrevFree(u)[m] = IF m = NextFree(t)[h] THEN PrevFree(t)[h] ELSE PrevFree(t)[m]
    BY <1>1, <1>2 DEF NextFree, PrevFree, ClassOf, Unlinked, SameRow, SameSizes
  <1>4. /\ u.block[c] = IF t.block[c] = h THEN NextFree(t)[h] ELSE t.block[c]
        /\ \A k \in Classes \ {c} : u.block[k] = t.block[k]
        /\ u.sl = IF t.block[c] = h /\ NextFree(t)[h] = NULL THEN t.sl \ {c} ELSE t.sl
        /\ u.fl = IF t.block[c] = h /\ NextFree(t)[h] = NULL /\ \A d \in u.sl : d[1] # c[1]
                  THEN t.fl \ {c[1]} ELSE t.fl
    BY <1>3 DEF Unlinked
  <1>5. t.block[c] = h <=> PrevFree(t)[h] = NULL
    <2>1. PICK rank \in [Nat -> Int] : Linked(F, NextFree(t), PrevFree(t), t.block, ClassOf(t), rank)
      BY <1>1 DEF Linkable
    <2>2. NodeLinked(F, NextFree(t), PrevFree(t), t.block, ClassOf(t), rank, h)
      BY <2>1 DEF Linked
    <2>3. PrevFree(t)[t.block[c]] = NULL
      BY <1>2, <2>1 DEF Linked
    <2> QED BY <1>3, <2>2, <2>3 DEF NodeLinked
  <1>6. F \in SUBSET Nat
    BY <1>1
  <1>7. u.block[c] = IF PrevFree(t)[h] = NULL THEN NextFree(t)[h] ELSE t.block[c]
    BY <1>4, <1>5
  <1>8. Linkable(F \ {h}, NextFree(u), PrevFree(u), u.block, ClassOf(u))
    BY ONLY <1>1, <1>2, <1>3, <1>4, <1>6, <1>7, h \in F, RemoveLinks
  <1>9. u.sl = {d \in Classes : u.block[d] # NULL}
    BY ONLY <1>1, <1>2, <1>4
  <1>10. u.fl = {d[1] : d \in u.sl}
    <2>1. CASE u.sl = t.sl
      <3>1. c \in u.sl
        BY <1>1, <1>2, <2>1
      <3>2. u.fl = t.fl
        BY <1>4, <3>1
      <3> QED BY <1>1, <2>1, <3>2
    <2>2. CASE t.block[c] = h /\ NextFree(t)[h] = NULL
      <3>1. u.sl = t.sl \ {c} /\ c \in t.sl
        BY ONLY <1>1, <1>2, <1>4, <2>2
      <3>2. u.fl = IF \A d \in u.sl : d[1] # c[1] THEN t.fl \ {c[1]} ELSE t.fl
        BY ONLY <1>4, <2>2
      <3> QED BY ONLY <1>1, <3>1, <3>2
    <2> QED BY <1>4, <2>1, <2>2
  <1>11. IsFiniteSet(F \ {h}) /\ F \ {h} \in SUBSET DOMAIN u.at
    BY <1>1, <1>3, FS_RemoveElement
  <1> QED BY ONLY <1>8, <1>9, <1>10, <1>11 DEF Listing

\* The search returns a list that is not empty and not before c, if there is one.
Suitable(t, c, found) ==
  \/ found = << >> /\ \A d \in t.sl : Before(d, c)
  \/ found \in t.sl /\ ~Before(found, c)

LEMMA FindIs ==
  ASSUME NEW t, t.sl \in SUBSET (Nat \X Nat), t.fl = {d[1] : d \in t.sl}, NEW c \in Nat \X Nat
  PROVE  Suitable(t, c, block_find_suitable(t, c))
  <1>1. PICK f \in Nat, s \in Nat : c = <<f, s>> /\ c[1] = f /\ c[2] = s
    OBVIOUS
  <1> DEFINE found == block_find_suitable(t, c)
             sl_map == {d[2] : d \in {d \in t.sl : d[1] = f /\ d[2] >= s}}
             fl_map == {g \in t.fl : g > f}
             higher == LeastOf(fl_map)
             seconds == {d[2] : d \in {d \in t.sl : d[1] = higher}}
  <1>2. found = IF sl_map # {} THEN <<f, LeastOf(sl_map)>>
                ELSE IF fl_map = {} THEN << >> ELSE <<higher, LeastOf(seconds)>>
    BY ONLY <1>1, Zenon DEF block_find_suitable
  <1>3. \A d \in t.sl : d = <<d[1], d[2]>> /\ d[1] \in Nat /\ d[2] \in Nat
    OBVIOUS
  <1>4. sl_map \in SUBSET Nat /\ fl_map \in SUBSET Nat /\ seconds \in SUBSET Nat
    BY <1>3
  <1>5. ASSUME NEW S \in SUBSET Nat, S # {}
        PROVE  LeastOf(S) \in S /\ \A y \in S : LeastOf(S) <= y
    <2>1. \E x \in S : \A y \in S : x <= y
      BY ONLY <1>5, LeastExists
    <2> QED BY ONLY <2>1, Zenon DEF LeastOf
  <1>6. CASE sl_map # {}
    <2> DEFINE k == LeastOf(sl_map)
    <2>1. k \in sl_map
      BY <1>4, <1>5, <1>6
    <2>2. found = <<f, k>>
      BY ONLY <1>2, <1>6
    <2> HIDE DEF k, found
    <2>3. PICK d \in t.sl : d[1] = f /\ d[2] >= s /\ k = d[2]
      BY <2>1
    <2>4. found = d
      BY <1>3, <2>2, <2>3
    <2>5. ~Before(d, c)
      BY <1>1, <1>3, <2>3 DEF Before
    <2> QED BY <2>4, <2>5 DEF Suitable, found
  <1>7. CASE sl_map = {} /\ fl_map = {}
    <2>1. found = << >>
      BY ONLY <1>2, <1>7
    <2>2. \A d \in t.sl : Before(d, c)
      <3>1. SUFFICES ASSUME NEW d \in t.sl PROVE Before(d, c)
        OBVIOUS
      <3>2. ~(d[1] > f)
        BY <1>7
      <3>3. ~(d[1] = f /\ d[2] >= s)
        BY <1>7
      <3>4. d[1] \in Nat /\ d[2] \in Nat
        BY <1>3
      <3> QED BY ONLY <1>1, <3>2, <3>3, <3>4 DEF Before
    <2> HIDE DEF found
    <2> QED BY <2>1, <2>2 DEF Suitable, found
  <1>8. CASE sl_map = {} /\ fl_map # {}
    <2>1. higher \in fl_map
      BY <1>4, <1>5, <1>8
    <2>2. found = <<higher, LeastOf(seconds)>>
      BY ONLY <1>2, <1>8
    <2>3. PICK e \in t.sl : e[1] = higher /\ higher > f /\ higher \in Nat
      <3> HIDE DEF higher
      <3> QED BY <1>4, <2>1
    <2>4. LeastOf(seconds) \in seconds
      <3>1. seconds # {}
        <4> HIDE DEF higher
        <4> QED BY <2>3
      <3> HIDE DEF seconds
      <3> QED BY <1>4, <1>5, <3>1
    <2> DEFINE k == LeastOf(seconds)
    <2>5. PICK d \in t.sl : d[1] = higher /\ k = d[2]
      <3> HIDE DEF higher
      <3>1. k \in seconds
        BY ONLY <2>4
      <3> HIDE DEF k
      <3> QED BY ONLY <3>1
    <2> HIDE DEF found, k, higher
    <2>6. found = d
      BY <1>3, <2>2, <2>5 DEF k
    <2>7. ~Before(d, c)
      BY <1>1, <1>3, <2>3, <2>5 DEF Before
    <2> QED BY <2>6, <2>7 DEF Suitable, found
  <1> QED BY <1>6, <1>7, <1>8

-----------------------------------------------------------------------------
(* The row of blocks                                                       *)

End(t) == t.size - 1
BlocksOf(t) == DOMAIN t.at \ {End(t)}
FreeOf(t) == {a \in BlocksOf(t) : t.at[a].free}

\* From the header at 0 on, each block ends where the next header is.
Shape(t) ==
  /\ t.size \in 1..MaxSize
  /\ DOMAIN t.at \in SUBSET (0..End(t)) /\ 0 \in DOMAIN t.at /\ End(t) \in DOMAIN t.at
  /\ t.at[End(t)].size = 0
  /\ \A a \in BlocksOf(t) : /\ t.at[a].size >= 3 /\ block_next(t, a) \in DOMAIN t.at
                            /\ \A g \in DOMAIN t.at : g > a => g >= block_next(t, a)
  /\ \A g \in DOMAIN t.at \ {0} : \E a \in BlocksOf(t) : block_next(t, a) = g

\* The header behind the block a is right about a, but for prev when a is in X;
\* two neighbours are not both free when neither is in Y.
Tag(t, a, X, Y) ==
  LET n == block_next(t, a)
  IN  /\ t.at[n].prev_is_free = t.at[a].free
      /\ t.at[a].free /\ a \notin X => t.at[n].prev = a
      /\ t.at[a].free /\ a \notin Y /\ n \notin Y => ~t.at[n].free

Tags(t, X, Y) ==
  /\ ~t.at[End(t)].free /\ ~t.at[0].prev_is_free
  /\ \A a \in BlocksOf(t) : Tag(t, a, X, Y)

\* The used blocks are those of the client.
Match(t, L) ==
  /\ \A b \in L : /\ b \in [ptr : Nat, len : Nat] /\ b.ptr - 1 \in BlocksOf(t)
                  /\ ~t.at[b.ptr - 1].free /\ b.len <= t.at[b.ptr - 1].size
  /\ \A a \in BlocksOf(t) : ~t.at[a].free => \E b \in L : b.ptr - 1 = a
  /\ \A b, d \in L : b.ptr = d.ptr => b = d

\* A context in the middle of a call: the free blocks of Y are not listed yet.
Sound(t, X, Y, L) ==
  t \in Contexts /\ Shape(t) /\ Tags(t, X, Y) /\ Listing(t, FreeOf(t) \ Y) /\ Match(t, L)

LEMMA ShapeFacts ==
  ASSUME NEW t \in Contexts, Shape(t)
  PROVE  /\ DOMAIN t.at \in SUBSET Nat /\ End(t) \in Nat /\ End(t) < MaxSize /\ 0 \in DOMAIN t.at
         /\ End(t) \in DOMAIN t.at /\ t.at[End(t)].size = 0
         /\ \A a \in DOMAIN t.at : a <= End(t)
         /\ \A a \in BlocksOf(t) :
              /\ a \in DOMAIN t.at /\ a \in Nat /\ a # End(t) /\ t.at[a].size \in Nat /\ t.at[a].size >= 3
              /\ block_next(t, a) = a + 1 + t.at[a].size
              /\ block_next(t, a) \in DOMAIN t.at /\ block_next(t, a) \in Nat
              /\ a < block_next(t, a) /\ block_next(t, a) <= End(t)
              /\ t.at[a].size < MaxSize
         /\ \A a, b \in BlocksOf(t) : a < b => block_next(t, a) <= b
         /\ \A a, b \in BlocksOf(t) : block_next(t, a) = block_next(t, b) => a = b
         /\ \A a \in BlocksOf(t) : \A g \in DOMAIN t.at : g > a => g >= block_next(t, a)
         /\ \A g \in DOMAIN t.at \ {0} : \E a \in BlocksOf(t) : block_next(t, a) = g
         /\ IsFiniteSet(DOMAIN t.at)
  <1>1. /\ t.size \in 1..MaxSize /\ DOMAIN t.at \in SUBSET (0..End(t))
        /\ 0 \in DOMAIN t.at /\ End(t) \in DOMAIN t.at /\ t.at[End(t)].size = 0
        /\ \A a \in BlocksOf(t) : /\ t.at[a].size >= 3 /\ block_next(t, a) \in DOMAIN t.at
                                  /\ \A g \in DOMAIN t.at : g > a => g >= block_next(t, a)
        /\ \A g \in DOMAIN t.at \ {0} : \E a \in BlocksOf(t) : block_next(t, a) = g
    BY DEF Shape
  <1>2. \A a \in DOMAIN t.at : t.at[a].size \in Nat
    BY ContextIs
  <1>3. MaxSize \in Nat
    BY HeapAssumption
  <1>4. End(t) \in Nat /\ End(t) < MaxSize
    BY ONLY <1>1, <1>3 DEF End
  <1>5. DOMAIN t.at \in SUBSET Nat /\ \A a \in DOMAIN t.at : a <= End(t)
    BY ONLY <1>1, <1>4
  <1>6. \A a \in BlocksOf(t) :
          /\ a \in DOMAIN t.at /\ a \in Nat /\ a # End(t) /\ t.at[a].size \in Nat /\ t.at[a].size >= 3
          /\ block_next(t, a) = a + 1 + t.at[a].size
          /\ block_next(t, a) \in DOMAIN t.at /\ block_next(t, a) \in Nat
          /\ a < block_next(t, a) /\ block_next(t, a) <= End(t)
          /\ t.at[a].size < MaxSize
    <2>1. SUFFICES ASSUME NEW a \in BlocksOf(t)
                   PROVE  /\ a \in DOMAIN t.at /\ a \in Nat /\ a # End(t) /\ t.at[a].size \in Nat /\ t.at[a].size >= 3
                          /\ block_next(t, a) = a + 1 + t.at[a].size
                          /\ block_next(t, a) \in DOMAIN t.at /\ block_next(t, a) \in Nat
                          /\ a < block_next(t, a) /\ block_next(t, a) <= End(t)
                          /\ t.at[a].size < MaxSize
      OBVIOUS
    <2>2. a \in DOMAIN t.at /\ a # End(t) /\ a \in Nat
      BY <1>5 DEF BlocksOf
    <2>3. block_next(t, a) = a + 1 + t.at[a].size
      BY ONLY <2>2 DEF block_next
    <2>4. t.at[a].size \in Nat /\ t.at[a].size >= 3 /\ block_next(t, a) \in DOMAIN t.at
      BY <1>1, <1>2, <2>2
    <2>5. block_next(t, a) \in Nat /\ block_next(t, a) <= End(t)
      BY ONLY <1>5, <2>4
    <2> QED BY ONLY <1>3, <1>4, <2>2, <2>3, <2>4, <2>5
  <1>7. \A a, b \in BlocksOf(t) : a < b => block_next(t, a) <= b
    BY ONLY <1>1, <1>6
  <1>8. \A a, b \in BlocksOf(t) : block_next(t, a) = block_next(t, b) => a = b
    BY ONLY <1>6, <1>7
  <1>9. IsFiniteSet(DOMAIN t.at)
    <2>1. 0 \in Int /\ End(t) \in Int
      BY ONLY <1>4
    <2>2. IsFiniteSet(0..End(t))
      BY ONLY <2>1, FS_Interval, Zenon
    <2> QED BY ONLY <1>1, <2>2, FS_Subset
  <1> QED BY ONLY <1>1, <1>4, <1>5, <1>6, <1>7, <1>8, <1>9

LEMMA TagFacts ==
  ASSUME NEW t, NEW X, NEW Y, Tags(t, X, Y), NEW a \in BlocksOf(t)
  PROVE  LET n == block_next(t, a)
         IN  /\ t.at[n].prev_is_free = t.at[a].free
             /\ t.at[a].free /\ a \notin X => t.at[n].prev = a
             /\ t.at[a].free /\ a \notin Y /\ n \notin Y => ~t.at[n].free
  BY DEF Tags, Tag

\* The free block in front of a header that says there is one.
LEMMA PrevIs ==
  ASSUME NEW t \in Contexts, Shape(t), NEW X, NEW Y, Tags(t, X, Y), NEW h \in DOMAIN t.at,
         t.at[h].prev_is_free
  PROVE  \E p \in FreeOf(t) : block_next(t, p) = h /\ p # h /\ (p \notin X => t.at[h].prev = p)
  <1>1. h # 0
    BY DEF Tags
  <1>2. PICK p \in BlocksOf(t) : block_next(t, p) = h
    BY <1>1, ShapeFacts
  <1>3. t.at[p].free /\ (p \notin X => t.at[h].prev = p)
    BY <1>2, TagFacts
  <1>4. p # h
    BY <1>2, ShapeFacts
  <1> QED BY <1>2, <1>3, <1>4 DEF FreeOf

SameUsed(t, u) ==
  /\ \A a \in BlocksOf(t) : ~t.at[a].free => /\ a \in BlocksOf(u) /\ ~u.at[a].free
                                             /\ u.at[a].size = t.at[a].size
  /\ \A a \in BlocksOf(u) : ~u.at[a].free => a \in BlocksOf(t) /\ ~t.at[a].free

LEMMA MatchKept ==
  ASSUME NEW t, NEW u, NEW L, Match(t, L), SameUsed(t, u)
  PROVE  Match(u, L)
  <1>1. /\ \A b \in L : /\ b \in [ptr : Nat, len : Nat] /\ b.ptr - 1 \in BlocksOf(t)
                        /\ ~t.at[b.ptr - 1].free /\ b.len <= t.at[b.ptr - 1].size
        /\ \A a \in BlocksOf(t) : ~t.at[a].free => \E b \in L : b.ptr - 1 = a
        /\ \A b, d \in L : b.ptr = d.ptr => b = d
    BY DEF Match
  <1>2. \A b \in L : /\ b \in [ptr : Nat, len : Nat] /\ b.ptr - 1 \in BlocksOf(u)
                     /\ ~u.at[b.ptr - 1].free /\ b.len <= u.at[b.ptr - 1].size
    BY <1>1 DEF SameUsed
  <1>3. \A a \in BlocksOf(u) : ~u.at[a].free => \E b \in L : b.ptr - 1 = a
    BY <1>1 DEF SameUsed
  <1> QED BY ONLY <1>1, <1>2, <1>3 DEF Match

\* A step that only touches the lists.
LEMMA RowKept ==
  ASSUME NEW t \in Contexts, NEW u \in Contexts, SameRow(t, u), NEW X, NEW Y, NEW L,
         Shape(t), Tags(t, X, Y), Match(t, L)
  PROVE  /\ Shape(u) /\ Tags(u, X, Y) /\ Match(u, L)
         /\ FreeOf(u) = FreeOf(t) /\ BlocksOf(u) = BlocksOf(t) /\ End(u) = End(t)
         /\ \A a \in DOMAIN t.at : block_next(u, a) = block_next(t, a)
  <1>1. /\ DOMAIN u.at = DOMAIN t.at /\ u.size = t.size
        /\ \A a \in DOMAIN t.at : /\ u.at[a].size = t.at[a].size /\ u.at[a].free = t.at[a].free
                                  /\ u.at[a].prev_is_free = t.at[a].prev_is_free
                                  /\ u.at[a].prev = t.at[a].prev
    BY DEF SameRow, SameSizes, SameFlags, SamePrevs
  <1>2. End(u) = End(t) /\ BlocksOf(u) = BlocksOf(t) /\ BlocksOf(t) \in SUBSET DOMAIN t.at
    BY ONLY <1>1 DEF End, BlocksOf
  <1>3. FreeOf(u) = FreeOf(t)
    BY ONLY <1>1, <1>2 DEF FreeOf
  <1>4. \A a \in DOMAIN t.at : block_next(u, a) = block_next(t, a)
    BY ONLY <1>1 DEF block_next
  <1>5. /\ \A a \in BlocksOf(t) : block_next(t, a) \in DOMAIN t.at
        /\ 0 \in DOMAIN t.at /\ End(t) \in DOMAIN t.at
    BY ShapeFacts
  <1>6. Shape(u)
    BY ONLY <1>1, <1>2, <1>4, <1>5, Shape(t) DEF Shape
  <1>7. Tags(u, X, Y)
    BY ONLY <1>1, <1>2, <1>4, <1>5, Tags(t, X, Y) DEF Tags, Tag
  <1>8. SameUsed(t, u)
    BY ONLY <1>1, <1>2 DEF SameUsed
  <1>9. Match(u, L)
    BY ONLY <1>8, Match(t, L), MatchKept
  <1> QED BY ONLY <1>2, <1>3, <1>4, <1>6, <1>7, <1>9

\* Fewer blocks are excepted when none of the others is free next to one.
LEMMA FewerExceptions ==
  ASSUME NEW t, NEW X, NEW Y, NEW Z, Tags(t, X, Y),
         \A a \in BlocksOf(t) : /\ t.at[a].free /\ a \in Y /\ a \notin Z => ~t.at[block_next(t, a)].free
                                /\ t.at[a].free /\ block_next(t, a) \in Y /\ block_next(t, a) \notin Z
                                     => ~t.at[block_next(t, a)].free
  PROVE  Tags(t, X, Z)
  BY DEF Tags, Tag

\* A block leaves its list.
LEMMA RemoveSound ==
  ASSUME NEW t, NEW X, NEW Y, NEW L, Sound(t, X, Y, L), NEW h \in FreeOf(t) \ Y
  PROVE  LET u == remove_free_block(t, h, mapping(t.at[h].size))
         IN  Sound(u, X, Y \cup {h}, L) /\ SameRow(t, u)
  <1>1. /\ t \in Contexts /\ Shape(t) /\ Tags(t, X, Y) /\ Listing(t, FreeOf(t) \ Y) /\ Match(t, L)
    BY DEF Sound
  <1>2. PICK c \in Classes : c = mapping(t.at[h].size)
    BY ONLY <1>1, h \in FreeOf(t) \ Y, ListingFacts
  <1>3. h \in DOMAIN t.at
    BY DEF FreeOf, BlocksOf
  <1> DEFINE u == remove_free_block(t, h, c)
  <1>4. u \in Contexts /\ Unlinked(t, h, c, u)
    BY ONLY <1>1, <1>2, <1>3, UnlinkIs
  <1> HIDE DEF u
  <1>5. Listing(u, (FreeOf(t) \ Y) \ {h})
    BY ONLY <1>1, <1>2, <1>4, h \in FreeOf(t) \ Y, UnlinkListing
  <1>6. SameRow(t, u)
    BY ONLY <1>4 DEF Unlinked
  <1>7. Shape(u) /\ Tags(u, X, Y) /\ Match(u, L) /\ FreeOf(u) = FreeOf(t)
    BY ONLY <1>1, <1>4, <1>6, RowKept
  <1>8. Tags(u, X, Y \cup {h})
    BY ONLY <1>7 DEF Tags, Tag
  <1>9. (FreeOf(t) \ Y) \ {h} = FreeOf(u) \ (Y \cup {h})
    BY ONLY <1>7
  <1>10. Sound(u, X, Y \cup {h}, L)
    BY ONLY <1>4, <1>5, <1>7, <1>8, <1>9 DEF Sound
  <1> QED BY ONLY <1>2, <1>6, <1>10 DEF u

LEMMA ClassExists ==
  ASSUME HeapBounds, NEW t \in Contexts, Shape(t), NEW a \in BlocksOf(t)
  PROVE  t.at[a].size \in Mapped /\ mapping(t.at[a].size) \in Classes /\ mapping(t.at[a].size) \in Nat \X Nat
  <1>1. t.at[a].size \in Nat /\ t.at[a].size >= 3 /\ t.at[a].size < MaxSize
    BY ShapeFacts
  <1>2. MaxSize \in Nat /\ MaxSize <= Power[30] /\ Power[30] \in Nat \ {0}
    BY Bounds
  <1>3. t.at[a].size \in Mapped
    BY ONLY <1>1, <1>2 DEF Mapped
  <1>4. t.at[a].size \in BLOCK_SIZE_MIN..MaxSize
    BY ONLY <1>1, <1>2 DEF BLOCK_SIZE_MIN
  <1> QED BY <1>3, <1>4, MappingIs DEF Classes

\* A free block is put in its list.
LEMMA InsertSound ==
  ASSUME HeapBounds, NEW t, NEW X, NEW Y, NEW L, Sound(t, X, Y, L), NEW h \in FreeOf(t) \cap Y,
         Tags(t, X, Y \ {h})
  PROVE  LET u == block_insert(t, h)
         IN  Sound(u, X, Y \ {h}, L) /\ SameRow(t, u)
  <1>0. HeapBounds
    OBVIOUS
  <1>1. t \in Contexts /\ Shape(t) /\ Listing(t, FreeOf(t) \ Y) /\ Match(t, L)
    BY DEF Sound
  <1>2. h \in BlocksOf(t) /\ h \in DOMAIN t.at
    BY DEF FreeOf, BlocksOf
  <1>3. PICK c \in Classes : c = mapping(t.at[h].size) /\ c \in Nat \X Nat
    BY ONLY <1>0, <1>1, <1>2, ClassExists
  <1>4. t.block[c] # h /\ (t.block[c] = NULL \/ t.block[c] \in DOMAIN t.at)
    <2>1. FreeOf(t) \ Y \in SUBSET DOMAIN t.at /\ h \notin FreeOf(t) \ Y
      BY DEF FreeOf, BlocksOf
    <2>2. t.block[c] # NULL => t.block[c] \in FreeOf(t) \ Y
      BY ONLY <1>1, <1>3 DEF Listing, Linkable, Linked
    <2>3. h # NULL
      <3>1. h \in Nat
        BY ONLY <1>1, <1>2, ShapeFacts
      <3> QED BY ONLY <3>1 DEF NULL
    <2> QED BY ONLY <2>1, <2>2, <2>3
  <1> DEFINE u == insert_free_block(t, h, c)
  <1>5. c[1] \in Nat
    BY <1>3
  <1>6. u \in Contexts /\ Pushed(t, h, c, u)
    BY ONLY <1>1, <1>2, <1>4, <1>5, c \in Classes, PushIs
  <1> HIDE DEF u
  <1>7. h \in DOMAIN t.at \ (FreeOf(t) \ Y)
    BY <1>2
  <1>8. Listing(u, (FreeOf(t) \ Y) \cup {h})
    BY ONLY <1>1, <1>3, <1>6, <1>7, PushListing
  <1>9. SameRow(t, u)
    BY ONLY <1>6 DEF Pushed
  <1>10. Shape(u) /\ Tags(u, X, Y \ {h}) /\ Match(u, L) /\ FreeOf(u) = FreeOf(t)
    BY ONLY <1>1, <1>6, <1>9, Tags(t, X, Y \ {h}), RowKept
  <1>11. (FreeOf(t) \ Y) \cup {h} = FreeOf(u) \ (Y \ {h})
    BY <1>10
  <1>12. Sound(u, X, Y \ {h}, L)
    BY ONLY <1>6, <1>8, <1>10, <1>11 DEF Sound
  <1>13. block_insert(t, h) = u
    BY ONLY <1>3 DEF block_insert, u
  <1> QED BY ONLY <1>9, <1>12, <1>13

-----------------------------------------------------------------------------
(* Joining and splitting                                                   *)

\* What is known of the joined block p.
Joined(t, p, h, u) ==
  /\ p \in FreeOf(u) /\ End(u) = End(t)
  /\ u.at[p].prev_is_free = t.at[p].prev_is_free
  /\ block_next(u, p) = block_next(t, h)
  /\ u.at[block_next(t, h)].free = t.at[block_next(t, h)].free

LEMMA AbsorbShape ==
  ASSUME NEW t \in Contexts, NEW u \in Contexts, Shape(t), NEW p \in BlocksOf(t), NEW h \in BlocksOf(t),
         block_next(t, p) = h, Absorbed(t, p, h, u)
  PROVE  /\ Shape(u) /\ End(u) = End(t) /\ BlocksOf(u) = BlocksOf(t) \ {h}
         /\ block_next(u, p) = block_next(t, h)
         /\ \A a \in BlocksOf(u) \ {p} : block_next(u, a) = block_next(t, a)
  <1>1. /\ DOMAIN u.at = DOMAIN t.at \ {h} /\ u.size = t.size
        /\ u.at[p].size = t.at[p].size + t.at[h].size + 1
        /\ \A a \in DOMAIN t.at \ {p, h} : u.at[a].size = t.at[a].size
    BY DEF Absorbed
  <1>2. End(u) = End(t) /\ BlocksOf(u) = BlocksOf(t) \ {h} /\ BlocksOf(t) \in SUBSET DOMAIN t.at
    BY ONLY <1>1 DEF End, BlocksOf
  <1>3. /\ p \in Nat /\ h \in Nat /\ t.at[p].size \in Nat /\ t.at[p].size >= 3 /\ t.at[h].size \in Nat
        /\ h = p + 1 + t.at[p].size /\ block_next(t, h) = h + 1 + t.at[h].size
        /\ block_next(t, h) \in DOMAIN t.at /\ h < block_next(t, h) /\ h # End(t) /\ p # End(t)
    BY ShapeFacts
  <1>4. p \in BlocksOf(u) /\ p # h
    BY ONLY <1>2, <1>3, p \in BlocksOf(t)
  <1>5. block_next(u, p) = block_next(t, h)
    BY ONLY <1>1, <1>3 DEF block_next
  <1>6. \A a \in BlocksOf(u) \ {p} : block_next(u, a) = block_next(t, a) /\ u.at[a].size = t.at[a].size
    BY ONLY <1>1, <1>2 DEF block_next
  <1>7. /\ DOMAIN t.at \in SUBSET Nat
        /\ \A a \in BlocksOf(t) :
              /\ a \in Nat /\ t.at[a].size >= 3
              /\ block_next(t, a) \in DOMAIN t.at /\ a < block_next(t, a)
              /\ \A g \in DOMAIN t.at : g > a => g >= block_next(t, a)
        /\ \A a, b \in BlocksOf(t) : block_next(t, a) = block_next(t, b) => a = b
        /\ \A g \in DOMAIN t.at \ {0} : \E a \in BlocksOf(t) : block_next(t, a) = g
    BY ShapeFacts
  <1>8. /\ t.size \in 1..MaxSize /\ DOMAIN t.at \in SUBSET (0..End(t))
        /\ 0 \in DOMAIN t.at /\ End(t) \in DOMAIN t.at /\ t.at[End(t)].size = 0
    BY DEF Shape
  <1>9. \A a \in BlocksOf(u) : /\ u.at[a].size >= 3 /\ block_next(u, a) \in DOMAIN u.at
                               /\ \A g \in DOMAIN u.at : g > a => g >= block_next(u, a)
    <2>1. /\ u.at[p].size >= 3 /\ block_next(u, p) \in DOMAIN u.at
          /\ \A g \in DOMAIN u.at : g > p => g >= block_next(u, p)
      <3>1. \A g \in DOMAIN u.at : g > p => g >= block_next(t, h)
        <4>1. SUFFICES ASSUME NEW g \in DOMAIN u.at, g > p PROVE g >= block_next(t, h)
          OBVIOUS
        <4>2. g \in DOMAIN t.at /\ g # h /\ g \in Nat
          BY ONLY <1>1, <1>7, <4>1
        <4>3. g >= h
          BY ONLY <1>7, <4>1, <4>2, p \in BlocksOf(t), block_next(t, p) = h
        <4>4. g > h
          BY ONLY <1>3, <4>2, <4>3
        <4> QED BY ONLY <1>7, <4>2, <4>4, h \in BlocksOf(t)
      <3>2. u.at[p].size >= 3
        BY ONLY <1>1, <1>3
      <3>3. block_next(t, h) \in DOMAIN u.at
        BY ONLY <1>1, <1>3
      <3> QED BY ONLY <1>5, <3>1, <3>2, <3>3
    <2>2. ASSUME NEW a \in BlocksOf(u) \ {p}
          PROVE  /\ u.at[a].size >= 3 /\ block_next(u, a) \in DOMAIN u.at
                 /\ \A g \in DOMAIN u.at : g > a => g >= block_next(u, a)
      <3>1. a \in BlocksOf(t) /\ a # p
        BY ONLY <1>2, <2>2
      <3>2. block_next(t, a) # h
        BY ONLY <1>7, <3>1, p \in BlocksOf(t), block_next(t, p) = h
      <3>3. block_next(u, a) = block_next(t, a) /\ u.at[a].size = t.at[a].size
        BY ONLY <1>6, <2>2
      <3> QED BY ONLY <1>1, <1>7, <3>1, <3>2, <3>3
    <2> QED BY ONLY <2>1, <2>2
  <1>10. \A g \in DOMAIN u.at \ {0} : \E a \in BlocksOf(u) : block_next(u, a) = g
    <2>1. SUFFICES ASSUME NEW g \in DOMAIN u.at \ {0} PROVE \E a \in BlocksOf(u) : block_next(u, a) = g
      OBVIOUS
    <2>2. g \in DOMAIN t.at \ {0} /\ g # h
      BY ONLY <1>1, <2>1
    <2>3. PICK a \in BlocksOf(t) : block_next(t, a) = g
      BY ONLY <1>7, <2>2
    <2>4. a # p
      BY ONLY <2>2, <2>3, block_next(t, p) = h
    <2>5. CASE a = h
      BY ONLY <1>4, <1>5, <2>3, <2>5
    <2>6. CASE a # h
      <3>1. a \in BlocksOf(u) \ {p}
        BY ONLY <1>2, <2>3, <2>4, <2>6
      <3> QED BY ONLY <1>6, <2>3, <3>1
    <2> QED BY ONLY <2>5, <2>6
  <1>11. u.at[End(u)].size = 0 /\ 0 \in DOMAIN u.at /\ End(u) \in DOMAIN u.at
    <2>1. End(t) \in DOMAIN t.at \ {p, h} /\ h # 0
      BY ONLY <1>3, <1>8
    <2> QED BY ONLY <1>1, <1>2, <1>8, <2>1
  <1>12. u.size \in 1..MaxSize /\ DOMAIN u.at \in SUBSET (0..End(u))
    BY ONLY <1>1, <1>2, <1>8
  <1>13. Shape(u)
    BY ONLY <1>9, <1>10, <1>11, <1>12 DEF Shape
  <1> QED BY ONLY <1>2, <1>5, <1>6, <1>13

LEMMA AbsorbSound ==
  ASSUME NEW t, NEW X, NEW Y, NEW L, Sound(t, X, Y, L), NEW p \in FreeOf(t), NEW h \in FreeOf(t),
         block_next(t, p) = h, p \in Y, h \in Y
  PROVE  LET u == block_absorb(t, p, h)
         IN  Sound(u, X \ {p, h}, Y \ {h}, L) /\ Joined(t, p, h, u)
  <1>1. t \in Contexts /\ Shape(t) /\ Tags(t, X, Y) /\ Listing(t, FreeOf(t) \ Y) /\ Match(t, L)
    BY DEF Sound
  <1>2. p \in BlocksOf(t) /\ h \in BlocksOf(t) /\ t.at[p].free /\ t.at[h].free
    BY DEF FreeOf
  <1>3. PICK n : n = block_next(t, h)
    OBVIOUS
  <1>4. /\ p \in DOMAIN t.at /\ h \in DOMAIN t.at /\ p # h /\ n \in DOMAIN t.at /\ n # h /\ n # p
        /\ p # End(t) /\ h # End(t) /\ h # 0 /\ End(t) \in DOMAIN t.at /\ 0 \in DOMAIN t.at
    <2>1. p < h /\ h < n /\ p \in Nat /\ h \in Nat /\ n \in Nat
      BY ONLY <1>1, <1>2, <1>3, block_next(t, p) = h, ShapeFacts
    <2>2. /\ p \in DOMAIN t.at /\ h \in DOMAIN t.at /\ n \in DOMAIN t.at /\ p # End(t) /\ h # End(t)
          /\ End(t) \in DOMAIN t.at /\ 0 \in DOMAIN t.at
      BY ONLY <1>1, <1>2, <1>3, ShapeFacts
    <2> QED BY ONLY <2>1, <2>2
  <1> DEFINE u == block_absorb(t, p, h)
  <1>5. u \in Contexts /\ Absorbed(t, p, h, u)
    BY ONLY <1>1, <1>3, <1>4, block_next(t, p) = h, AbsorbIs
  <1> HIDE DEF u
  <1>6. /\ Shape(u) /\ End(u) = End(t) /\ BlocksOf(u) = BlocksOf(t) \ {h}
        /\ block_next(u, p) = n
        /\ \A a \in BlocksOf(u) \ {p} : block_next(u, a) = block_next(t, a)
    BY ONLY <1>1, <1>2, <1>3, <1>5, block_next(t, p) = h, AbsorbShape
  <1>7. /\ DOMAIN u.at = DOMAIN t.at \ {h}
        /\ \A a \in DOMAIN t.at \ {h} : /\ u.at[a].free = t.at[a].free
                                        /\ u.at[a].prev_is_free = t.at[a].prev_is_free
                                        /\ u.at[a].next_free = t.at[a].next_free
                                        /\ u.at[a].prev_free = t.at[a].prev_free
        /\ \A a \in DOMAIN t.at \ {h, p} : u.at[a].size = t.at[a].size
        /\ u.at[n].prev = p
        /\ \A a \in DOMAIN t.at \ {h, n} : u.at[a].prev = t.at[a].prev
        /\ u.block = t.block /\ u.sl = t.sl /\ u.fl = t.fl
    BY ONLY <1>3, <1>5 DEF Absorbed, SameLinks, SameFlags
  <1>8. BlocksOf(t) \in SUBSET DOMAIN t.at
    BY DEF BlocksOf
  <1>9. FreeOf(u) = FreeOf(t) \ {h}
    BY ONLY <1>6, <1>7, <1>8 DEF FreeOf
  <1>10. FreeOf(u) \ (Y \ {h}) = FreeOf(t) \ Y
    BY ONLY <1>9, h \in Y
  <1>11. Tags(u, X \ {p, h}, Y \ {h})
    <2>1. ~u.at[End(u)].free /\ ~u.at[0].prev_is_free
      BY ONLY <1>1, <1>4, <1>6, <1>7 DEF Tags
    <2>2. Tag(u, p, X \ {p, h}, Y \ {h})
      <3>1. t.at[n].prev_is_free = t.at[h].free
        BY ONLY <1>1, <1>2, <1>3, TagFacts
      <3>2. t.at[n].prev_is_free = t.at[p].free
        BY ONLY <1>2, <3>1
      <3>3. u.at[n].prev_is_free = t.at[n].prev_is_free /\ u.at[p].free = t.at[p].free
        BY ONLY <1>4, <1>7
      <3> QED BY ONLY <1>4, <1>6, <1>7, <3>2, <3>3, p \in Y DEF Tag
    <2>3. ASSUME NEW a \in BlocksOf(u) \ {p}
          PROVE  Tag(u, a, X \ {p, h}, Y \ {h})
      <3>1. PICK m : m = block_next(t, a) /\ m = block_next(u, a)
        BY ONLY <1>6, <2>3
      <3>2. a \in BlocksOf(t) /\ a \in DOMAIN t.at /\ a # h /\ a # p
        BY ONLY <1>6, <1>8, <2>3
      <3>3. m \in DOMAIN t.at /\ m # h /\ m # n
        <4>1. /\ \A b, d \in BlocksOf(t) : block_next(t, b) = block_next(t, d) => b = d
              /\ \A b \in BlocksOf(t) : block_next(t, b) \in DOMAIN t.at
          BY ONLY <1>1, ShapeFacts
        <4>2. block_next(t, a) # h /\ block_next(t, a) # n /\ block_next(t, a) \in DOMAIN t.at
          BY ONLY <1>2, <1>3, <3>2, <4>1, block_next(t, p) = h
        <4> QED BY ONLY <3>1, <4>2
      <3>4. /\ t.at[m].prev_is_free = t.at[a].free
            /\ t.at[a].free /\ a \notin X => t.at[m].prev = a
            /\ t.at[a].free /\ a \notin Y /\ m \notin Y => ~t.at[m].free
        <4>1. Tag(t, a, X, Y)
          BY ONLY <1>1, <3>2 DEF Tags
        <4> QED BY ONLY <3>1, <4>1 DEF Tag
      <3>5. /\ u.at[m].prev_is_free = t.at[m].prev_is_free /\ u.at[m].prev = t.at[m].prev
            /\ u.at[m].free = t.at[m].free /\ u.at[a].free = t.at[a].free
        BY ONLY <1>7, <3>2, <3>3
      <3> QED BY ONLY <3>1, <3>2, <3>3, <3>4, <3>5 DEF Tag
    <2> QED BY ONLY <2>1, <2>2, <2>3 DEF Tags
  <1>12. Listing(u, FreeOf(t) \ Y)
    <2>1. FreeOf(t) \ Y \in SUBSET DOMAIN t.at /\ p \notin FreeOf(t) \ Y /\ h \notin FreeOf(t) \ Y
      BY ONLY <1>8, p \in Y, h \in Y DEF FreeOf
    <2>2. SameLists(t, u, FreeOf(t) \ Y)
      BY ONLY <1>7, <2>1 DEF SameLists
    <2> QED BY ONLY <1>1, <1>5, <2>2, ListingKept
  <1>13. Match(u, L)
    <2>1. SameUsed(t, u)
      BY ONLY <1>2, <1>6, <1>7, <1>8 DEF SameUsed
    <2> QED BY ONLY <1>1, <2>1, MatchKept
  <1>14. Sound(u, X \ {p, h}, Y \ {h}, L)
    BY ONLY <1>5, <1>6, <1>10, <1>11, <1>12, <1>13 DEF Sound
  <1>15. Joined(t, p, h, u)
    <2>1. p \in FreeOf(u)
      BY ONLY <1>4, <1>9, p \in FreeOf(t)
    <2> QED BY ONLY <1>3, <1>4, <1>6, <1>7, <2>1 DEF Joined
  <1> QED BY ONLY <1>14, <1>15 DEF u

LEMMA ShapeKept ==
  ASSUME NEW t \in Contexts, NEW u \in Contexts, SameSizes(t, u), Shape(t)
  PROVE  /\ Shape(u) /\ End(u) = End(t) /\ BlocksOf(u) = BlocksOf(t)
         /\ \A a \in DOMAIN t.at : block_next(u, a) = block_next(t, a)
  <1>1. /\ DOMAIN u.at = DOMAIN t.at /\ u.size = t.size
        /\ \A a \in DOMAIN t.at : u.at[a].size = t.at[a].size
    BY DEF SameSizes
  <1>2. End(u) = End(t) /\ BlocksOf(u) = BlocksOf(t) /\ BlocksOf(t) \in SUBSET DOMAIN t.at
    BY ONLY <1>1 DEF End, BlocksOf
  <1>3. \A a \in DOMAIN t.at : block_next(u, a) = block_next(t, a)
    BY ONLY <1>1 DEF block_next
  <1>4. End(t) \in DOMAIN t.at
    BY ShapeFacts
  <1>5. Shape(u)
    BY ONLY <1>1, <1>2, <1>3, <1>4, Shape(t) DEF Shape
  <1> QED BY ONLY <1>2, <1>3, <1>5

LEMMA SplitShape ==
  ASSUME NEW t \in Contexts, Shape(t), NEW h \in BlocksOf(t), NEW size \in Nat, size >= 3,
         block_can_split(t, h, size), NEW rest, rest = h + 1 + size
  PROVE  /\ rest \in Nat /\ rest \notin DOMAIN t.at /\ size < t.at[h].size
         /\ \A u \in Contexts :
              Split(t, h, size, u) =>
                /\ Shape(u) /\ End(u) = End(t) /\ BlocksOf(u) = BlocksOf(t) \cup {rest}
                /\ block_next(u, h) = rest /\ block_next(u, rest) = block_next(t, h)
                /\ \A a \in BlocksOf(t) \ {h} : block_next(u, a) = block_next(t, a)
  <1>1. /\ h \in Nat /\ h \in DOMAIN t.at /\ h # End(t) /\ t.at[h].size \in Nat /\ End(t) \in Nat
        /\ block_next(t, h) = h + 1 + t.at[h].size
        /\ block_next(t, h) \in DOMAIN t.at /\ block_next(t, h) <= End(t)
    BY ShapeFacts
  <1>2. t.at[h].size >= 4 + size
    BY DEF block_can_split, SizeOfBlock
  <1>3. PICK n \in Nat : n = block_next(t, h) /\ n = h + 1 + t.at[h].size
    BY ONLY <1>1
  <1>4. rest \in Nat /\ size < t.at[h].size /\ h < rest /\ rest + 4 <= n
    BY ONLY <1>1, <1>2, <1>3, size \in Nat, size >= 3, rest = h + 1 + size
  <1>5. /\ DOMAIN t.at \in SUBSET Nat
        /\ \A a \in BlocksOf(t) :
              /\ a \in Nat /\ a \in DOMAIN t.at /\ t.at[a].size >= 3
              /\ block_next(t, a) \in DOMAIN t.at /\ a < block_next(t, a)
              /\ \A g \in DOMAIN t.at : g > a => g >= block_next(t, a)
        /\ \A g \in DOMAIN t.at \ {0} : \E a \in BlocksOf(t) : block_next(t, a) = g
    BY ShapeFacts
  <1>5a. \A g \in DOMAIN t.at : g \in Nat /\ (g > h => g >= n)
    BY ONLY <1>3, <1>5, h \in BlocksOf(t)
  <1>6. rest \notin DOMAIN t.at
    BY ONLY <1>1, <1>3, <1>4, <1>5a
  <1>7. ASSUME NEW u \in Contexts, Split(t, h, size, u)
        PROVE  /\ Shape(u) /\ End(u) = End(t) /\ BlocksOf(u) = BlocksOf(t) \cup {rest}
               /\ block_next(u, h) = rest /\ block_next(u, rest) = n
               /\ \A a \in BlocksOf(t) \ {h} : block_next(u, a) = block_next(t, a)
    <2>1. /\ DOMAIN u.at = DOMAIN t.at \cup {rest} /\ u.size = t.size
          /\ u.at[h].size = size /\ u.at[rest].size = t.at[h].size - size - 1
          /\ \A a \in DOMAIN t.at \ {h} : u.at[a].size = t.at[a].size
      BY ONLY <1>7, rest = h + 1 + size DEF Split
    <2>2. End(u) = End(t) /\ rest # End(t)
      BY ONLY <1>1, <1>6, <2>1, Shape(t) DEF End, Shape
    <2>3. BlocksOf(u) = BlocksOf(t) \cup {rest}
      BY ONLY <2>1, <2>2 DEF BlocksOf
    <2>4. block_next(u, h) = rest /\ block_next(u, rest) = n
      <3>1. block_next(u, h) = rest
        BY ONLY <2>1, rest = h + 1 + size DEF block_next
      <3>2. rest + 1 + (t.at[h].size - size - 1) = n
        BY ONLY <1>1, <1>3, rest = h + 1 + size, size \in Nat
      <3> QED BY ONLY <2>1, <3>1, <3>2 DEF block_next
    <2>5. \A a \in BlocksOf(t) \ {h} : block_next(u, a) = block_next(t, a) /\ u.at[a].size = t.at[a].size
      BY ONLY <1>5, <2>1 DEF block_next
    <2>6. \A a \in BlocksOf(u) : /\ u.at[a].size >= 3 /\ block_next(u, a) \in DOMAIN u.at
                                 /\ \A g \in DOMAIN u.at : g > a => g >= block_next(u, a)
      <3>1. /\ u.at[h].size >= 3 /\ rest \in DOMAIN u.at
            /\ \A g \in DOMAIN u.at : g > h => g >= rest
        <4>1. \A g \in DOMAIN t.at : g > h => g >= rest
          BY ONLY <1>3, <1>4, <1>5a
        <4> QED BY ONLY <1>4, <2>1, <4>1, size \in Nat, size >= 3
      <3>2. /\ u.at[rest].size >= 3 /\ n \in DOMAIN u.at
            /\ \A g \in DOMAIN u.at : g > rest => g >= n
        <4>1. \A g \in DOMAIN t.at : g > rest => g >= n
          BY ONLY <1>1, <1>3, <1>4, <1>5a
        <4>2. t.at[h].size - size - 1 >= 3
          BY ONLY <1>1, <1>2, size \in Nat
        <4> QED BY ONLY <1>1, <1>3, <1>4, <2>1, <4>1, <4>2
      <3>3. ASSUME NEW a \in BlocksOf(t) \ {h}
            PROVE  /\ u.at[a].size >= 3 /\ block_next(u, a) \in DOMAIN u.at
                   /\ \A g \in DOMAIN u.at : g > a => g >= block_next(u, a)
        <4>1. u.at[a].size >= 3 /\ block_next(u, a) \in DOMAIN u.at
          BY ONLY <1>5, <2>1, <2>5, <3>3
        <4>2. rest > a => rest >= block_next(t, a)
          <5>1. CASE h > a
            <6>1. h >= block_next(t, a) /\ block_next(t, a) \in Nat
              BY ONLY <1>1, <1>5, <3>3, <5>1
            <6> QED BY ONLY <1>1, <1>4, <6>1
          <5>2. CASE ~(h > a)
            <6>1. a \in Nat /\ a # h /\ a \in DOMAIN t.at
              BY ONLY <1>5, <3>3
            <6>2. a >= n
              BY ONLY <1>1, <1>3, <1>5a, <5>2, <6>1
            <6> QED BY ONLY <1>3, <1>4, <6>1, <6>2
          <5> QED BY ONLY <5>1, <5>2
        <4>3. \A g \in DOMAIN u.at : g > a => g >= block_next(u, a)
          BY ONLY <1>5, <2>1, <2>5, <3>3, <4>2
        <4> QED BY ONLY <4>1, <4>3
      <3> QED BY ONLY <2>3, <2>4, <3>1, <3>2, <3>3
    <2>7. \A g \in DOMAIN u.at \ {0} : \E a \in BlocksOf(u) : block_next(u, a) = g
      <3>1. SUFFICES ASSUME NEW g \in DOMAIN u.at \ {0} PROVE \E a \in BlocksOf(u) : block_next(u, a) = g
        OBVIOUS
      <3>2. CASE g = rest
        BY ONLY <2>3, <2>4, <3>2, h \in BlocksOf(t)
      <3>3. CASE g # rest
        <4>1. PICK a \in BlocksOf(t) : block_next(t, a) = g
          BY ONLY <1>5, <2>1, <3>1, <3>3
        <4>2. CASE a = h
          BY ONLY <1>3, <2>3, <2>4, <4>1, <4>2
        <4>3. CASE a # h
          BY ONLY <2>3, <2>5, <4>1, <4>3
        <4> QED BY ONLY <4>2, <4>3
      <3> QED BY ONLY <3>2, <3>3
    <2>8. u.at[End(u)].size = 0 /\ End(u) \in DOMAIN u.at /\ 0 \in DOMAIN u.at /\ u.size \in 1..MaxSize
      <3>1. End(t) \in DOMAIN t.at \ {h}
        BY ONLY <1>1, Shape(t) DEF Shape
      <3> QED BY ONLY <2>1, <2>2, <3>1, Shape(t) DEF Shape
    <2>9. DOMAIN u.at \in SUBSET (0..End(u))
      <3>1. rest \in 0..End(t)
        BY ONLY <1>1, <1>3, <1>4
      <3> QED BY ONLY <2>1, <2>2, <3>1, Shape(t) DEF Shape
    <2>10. Shape(u)
      BY ONLY <2>6, <2>7, <2>8, <2>9 DEF Shape
    <2> QED BY ONLY <2>2, <2>3, <2>4, <2>5, <2>10
  <1> QED BY ONLY <1>3, <1>4, <1>6, <1>7

\* What is left of the block h and the rest of it.
Cut(t, h, size, u) ==
  /\ h \in FreeOf(u) /\ u.at[h].size >= size
  /\ u.size = t.size

\* The rest of a block is a free block of its own.
LEMMA SplitSound ==
  ASSUME NEW t, NEW L, NEW h \in FreeOf(t), Sound(t, {}, {h}, L), ~t.at[block_next(t, h)].free,
         NEW size \in Nat, size >= 3, block_can_split(t, h, size), NEW rest, rest = h + 1 + size
  PROVE  LET u == SplitOf(t, h, size)
         IN  /\ Sound(u, {}, {h, rest}, L) /\ Tags(u, {}, {h}) /\ rest \in FreeOf(u)
             /\ Cut(t, h, size, u)
  <1>1. t \in Contexts /\ Shape(t) /\ Tags(t, {}, {h}) /\ Listing(t, FreeOf(t) \ {h}) /\ Match(t, L)
    BY DEF Sound
  <1>2. h \in BlocksOf(t) /\ t.at[h].free
    BY DEF FreeOf
  <1>3. PICK n : n = block_next(t, h)
    OBVIOUS
  <1>4. rest \in Nat /\ rest \notin DOMAIN t.at /\ size < t.at[h].size
    BY ONLY <1>1, <1>2, block_can_split(t, h, size), size \in Nat, size >= 3, rest = h + 1 + size,
            SplitShape
  <1>5. /\ h \in DOMAIN t.at /\ n \in DOMAIN t.at /\ n # h /\ h # End(t) /\ n # 0
        /\ h \in Nat /\ 0 \in DOMAIN t.at /\ End(t) \in DOMAIN t.at
        /\ \A a, b \in BlocksOf(t) : block_next(t, a) = block_next(t, b) => a = b
        /\ \A a \in BlocksOf(t) : block_next(t, a) \in DOMAIN t.at
    <2>1. h < n /\ h \in Nat /\ n \in Nat
      BY ONLY <1>1, <1>2, <1>3, ShapeFacts
    <2>2. /\ h \in DOMAIN t.at /\ n \in DOMAIN t.at /\ h # End(t)
          /\ 0 \in DOMAIN t.at /\ End(t) \in DOMAIN t.at
      BY ONLY <1>1, <1>2, <1>3, ShapeFacts
    <2>3. /\ \A a, b \in BlocksOf(t) : block_next(t, a) = block_next(t, b) => a = b
          /\ \A a \in BlocksOf(t) : block_next(t, a) \in DOMAIN t.at
      BY ONLY <1>1, ShapeFacts
    <2> QED BY ONLY <2>1, <2>2, <2>3
  <1> DEFINE u == SplitOf(t, h, size)
  <1>6. u \in Contexts /\ Split(t, h, size, u)
    BY ONLY <1>1, <1>3, <1>4, <1>5, size \in Nat, rest = h + 1 + size, SplitIs
  <1> HIDE DEF u
  <1>7. /\ Shape(u) /\ End(u) = End(t) /\ BlocksOf(u) = BlocksOf(t) \cup {rest}
        /\ block_next(u, h) = rest /\ block_next(u, rest) = n
        /\ \A a \in BlocksOf(t) \ {h} : block_next(u, a) = block_next(t, a)
    BY ONLY <1>1, <1>2, <1>3, <1>6, block_can_split(t, h, size), size \in Nat, size >= 3,
            rest = h + 1 + size, SplitShape
  <1>8. /\ DOMAIN u.at = DOMAIN t.at \cup {rest} /\ u.size = t.size /\ u.at[h].size = size
        /\ \A a \in DOMAIN t.at \ {h} : u.at[a].size = t.at[a].size
        /\ \A a \in DOMAIN t.at : /\ u.at[a].free = t.at[a].free
                                  /\ u.at[a].prev_is_free = t.at[a].prev_is_free
                                  /\ u.at[a].next_free = t.at[a].next_free
                                  /\ u.at[a].prev_free = t.at[a].prev_free
        /\ u.at[rest].free /\ u.at[rest].prev_is_free /\ u.at[rest].prev = h
        /\ u.at[n].prev = rest
        /\ \A a \in DOMAIN t.at \ {n} : u.at[a].prev = t.at[a].prev
        /\ u.block = t.block /\ u.sl = t.sl /\ u.fl = t.fl
    <2>1. DOMAIN u.at = DOMAIN t.at \cup {rest}
      BY ONLY <1>6, rest = h + 1 + size DEF Split
    <2> QED BY ONLY <1>3, <1>6, <2>1, rest = h + 1 + size DEF Split, SameLinks, SameFlags
  <1>9. BlocksOf(t) \in SUBSET DOMAIN t.at
    BY DEF BlocksOf
  <1>10. FreeOf(u) = FreeOf(t) \cup {rest}
    BY ONLY <1>7, <1>8, <1>9 DEF FreeOf
  <1>11. Tags(u, {}, {h})
    <2>1. ~u.at[End(u)].free /\ ~u.at[0].prev_is_free
      BY ONLY <1>1, <1>5, <1>7, <1>8 DEF Tags
    <2>2. Tag(u, h, {}, {h})
      <3>1. block_next(u, h) = rest /\ u.at[rest].prev = h
        BY ONLY <1>7, <1>8
      <3>2. u.at[rest].prev_is_free = u.at[h].free
        BY ONLY <1>2, <1>5, <1>8
      <3> QED BY ONLY <3>1, <3>2 DEF Tag
    <2>3. Tag(u, rest, {}, {h})
      <3>1. t.at[n].prev_is_free = t.at[h].free
        BY ONLY <1>1, <1>2, <1>3 DEF Tags, Tag
      <3>2. ~t.at[n].free
        BY ONLY <1>3, ~t.at[block_next(t, h)].free
      <3> QED BY ONLY <1>2, <1>5, <1>7, <1>8, <3>1, <3>2 DEF Tag
    <2>4. ASSUME NEW a \in BlocksOf(t) \ {h}
          PROVE  Tag(u, a, {}, {h})
      <3>1. PICK m : m = block_next(t, a) /\ m = block_next(u, a)
        BY ONLY <1>7, <2>4
      <3>2. m \in DOMAIN t.at /\ m # n /\ a \in DOMAIN t.at
        <4>1. block_next(t, a) # block_next(t, h) /\ block_next(t, a) \in DOMAIN t.at /\ a \in DOMAIN t.at
          BY ONLY <1>2, <1>5, <1>9, <2>4
        <4> QED BY ONLY <1>3, <3>1, <4>1
      <3>3. /\ t.at[m].prev_is_free = t.at[a].free
            /\ t.at[a].free => t.at[m].prev = a
            /\ t.at[a].free /\ a # h /\ m # h => ~t.at[m].free
        <4>1. Tag(t, a, {}, {h})
          BY ONLY <1>1, <2>4 DEF Tags
        <4> QED BY ONLY <3>1, <4>1 DEF Tag
      <3>4. /\ u.at[m].prev_is_free = t.at[m].prev_is_free /\ u.at[m].prev = t.at[m].prev
            /\ u.at[m].free = t.at[m].free /\ u.at[a].free = t.at[a].free
        BY ONLY <1>8, <3>2
      <3> QED BY ONLY <3>1, <3>3, <3>4 DEF Tag
    <2> QED BY ONLY <1>7, <2>1, <2>2, <2>3, <2>4 DEF Tags
  <1>12. Tags(u, {}, {h, rest})
    BY ONLY <1>11 DEF Tags, Tag
  <1>13. Listing(u, FreeOf(u) \ {h, rest})
    <2>1. FreeOf(t) \ {h} \in SUBSET DOMAIN t.at
      BY ONLY <1>9 DEF FreeOf
    <2>2. SameLists(t, u, FreeOf(t) \ {h})
      BY ONLY <1>8, <2>1 DEF SameLists
    <2>3. FreeOf(u) \ {h, rest} = FreeOf(t) \ {h}
      BY ONLY <1>4, <1>10, <2>1
    <2> QED BY ONLY <1>1, <1>6, <2>2, <2>3, ListingKept
  <1>14. Match(u, L)
    <2>1. SameUsed(t, u)
      BY ONLY <1>2, <1>7, <1>8, <1>9 DEF SameUsed
    <2> QED BY ONLY <1>1, <2>1, MatchKept
  <1>15. Sound(u, {}, {h, rest}, L)
    BY ONLY <1>6, <1>7, <1>12, <1>13, <1>14 DEF Sound
  <1>16. rest \in FreeOf(u) /\ h \in FreeOf(u)
    BY ONLY <1>10, h \in FreeOf(t)
  <1>17. Cut(t, h, size, u)
    BY ONLY <1>8, <1>16, size \in Nat DEF Cut
  <1> QED BY ONLY <1>11, <1>15, <1>16, <1>17 DEF u

LEMMA RtrimSound ==
  ASSUME HeapBounds, NEW t, NEW L, NEW h \in FreeOf(t), Sound(t, {}, {h}, L),
         ~t.at[block_next(t, h)].free, NEW size \in Nat, size >= 3, size <= t.at[h].size
  PROVE  LET u == block_rtrim_free(t, h, size)
         IN  Sound(u, {}, {h}, L) /\ Cut(t, h, size, u)
  <1>0. HeapBounds
    OBVIOUS
  <1>1. PICK rest : rest = h + 1 + size
    OBVIOUS
  <1> DEFINE s == SplitOf(t, h, size)
  <1>2. block_rtrim_free(t, h, size) = IF block_can_split(t, h, size) THEN block_insert(s, rest) ELSE t
    BY ONLY <1>1 DEF block_rtrim_free, SplitOf
  <1>3. CASE ~block_can_split(t, h, size)
    <2>1. block_rtrim_free(t, h, size) = t
      BY ONLY <1>2, <1>3
    <2>2. Cut(t, h, size, t)
      <3>1. t.at[h].size \in Nat
        <4>1. t \in Contexts /\ h \in DOMAIN t.at
          BY DEF Sound, FreeOf, BlocksOf
        <4> QED BY ONLY <4>1, ContextIs
      <3> QED BY ONLY <3>1, h \in FreeOf(t), size \in Nat, size <= t.at[h].size DEF Cut
    <2> QED BY ONLY <2>1, <2>2, Sound(t, {}, {h}, L)
  <1>4. CASE block_can_split(t, h, size)
    <2>1. /\ Sound(s, {}, {h, rest}, L) /\ Tags(s, {}, {h}) /\ rest \in FreeOf(s) /\ Cut(t, h, size, s)
      BY ONLY <1>1, <1>4, Sound(t, {}, {h}, L), h \in FreeOf(t), ~t.at[block_next(t, h)].free,
              size \in Nat, size >= 3, SplitSound
    <2> HIDE DEF s
    <2>2. rest # h
      <3>1. h \in Nat
        <4>1. t \in Contexts /\ h \in DOMAIN t.at
          BY DEF Sound, FreeOf, BlocksOf
        <4> QED BY ONLY <4>1, ContextIs
      <3> QED BY ONLY <1>1, <3>1, size \in Nat
    <2>3. {h, rest} \ {rest} = {h} /\ rest \in FreeOf(s) \cap {h, rest}
      BY ONLY <2>1, <2>2
    <2> DEFINE u == block_insert(s, rest)
    <2>4. Tags(s, {}, {h, rest} \ {rest})
      BY ONLY <2>1, <2>3
    <2>5. Sound(u, {}, {h, rest} \ {rest}, L) /\ SameRow(s, u)
      BY ONLY <1>0, <2>1, <2>3, <2>4, InsertSound
    <2> HIDE DEF u
    <2>6. Sound(u, {}, {h}, L)
      BY ONLY <2>3, <2>5
    <2>7. Cut(t, h, size, u)
      BY ONLY <2>1, <2>5 DEF Cut, SameRow, SameSizes, SameFlags, FreeOf, BlocksOf, End
    <2> QED BY ONLY <1>2, <1>4, <2>6, <2>7 DEF u
  <1> QED BY ONLY <1>3, <1>4

\* The free block h, which is not listed, becomes a block of the client.
LEMMA UseSound ==
  ASSUME NEW t, NEW L, NEW h \in FreeOf(t), Sound(t, {}, {h}, L),
         NEW words \in Nat, words <= t.at[h].size
  PROVE  LET u == Overwritten(block_set_free(t, h, FALSE), h)
         IN  Sound(u, {}, {}, L \cup {[ptr |-> h + 1, len |-> words]}) /\ u.size = t.size
  <1>1. t \in Contexts /\ Shape(t) /\ Tags(t, {}, {h}) /\ Listing(t, FreeOf(t) \ {h}) /\ Match(t, L)
    BY DEF Sound
  <1>2. h \in BlocksOf(t) /\ t.at[h].free
    BY DEF FreeOf
  <1>3. PICK n : n = block_next(t, h)
    OBVIOUS
  <1>4. /\ h \in DOMAIN t.at /\ n \in DOMAIN t.at /\ n # h /\ h # End(t) /\ n # 0
        /\ h \in Nat /\ 0 \in DOMAIN t.at /\ End(t) \in DOMAIN t.at
        /\ \A a, b \in BlocksOf(t) : block_next(t, a) = block_next(t, b) => a = b
        /\ \A a \in BlocksOf(t) : block_next(t, a) \in DOMAIN t.at
    <2>1. h < n /\ h \in Nat /\ n \in Nat
      BY ONLY <1>1, <1>2, <1>3, ShapeFacts
    <2>2. /\ h \in DOMAIN t.at /\ n \in DOMAIN t.at /\ h # End(t)
          /\ 0 \in DOMAIN t.at /\ End(t) \in DOMAIN t.at
      BY ONLY <1>1, <1>2, <1>3, ShapeFacts
    <2>3. /\ \A a, b \in BlocksOf(t) : block_next(t, a) = block_next(t, b) => a = b
          /\ \A a \in BlocksOf(t) : block_next(t, a) \in DOMAIN t.at
      BY ONLY <1>1, ShapeFacts
    <2> QED BY ONLY <2>1, <2>2, <2>3
  <1> DEFINE v == block_set_free(t, h, FALSE)
             u == Overwritten(v, h)
  <1>5. v \in Contexts /\ FreeSet(t, h, FALSE, v)
    BY ONLY <1>1, <1>3, <1>4, SetFreeIs
  <1> HIDE DEF v
  <1>6. /\ SameSizes(t, v) /\ DOMAIN v.at = DOMAIN t.at
        /\ v.at[h].free = FALSE /\ v.at[n].prev_is_free = FALSE
        /\ \A a \in DOMAIN t.at \ {h} : v.at[a].free = t.at[a].free
        /\ \A a \in DOMAIN t.at \ {n} : /\ v.at[a].prev_is_free = t.at[a].prev_is_free
                                        /\ v.at[a].prev = t.at[a].prev
        /\ v.block = t.block /\ v.sl = t.sl /\ v.fl = t.fl
        /\ \A a \in DOMAIN t.at : /\ v.at[a].next_free = t.at[a].next_free
                                  /\ v.at[a].prev_free = t.at[a].prev_free
    BY ONLY <1>3, <1>5 DEF FreeSet, SameSizes, SameLinks
  <1>7. h \in DOMAIN v.at /\ block_next(v, h) = n /\ n \in DOMAIN v.at
    <2>1. block_next(v, h) = block_next(t, h)
      BY ONLY <1>1, <1>4, <1>5, <1>6, ShapeKept
    <2> QED BY ONLY <1>3, <1>4, <1>6, <2>1
  <1>8. u \in Contexts /\ Scribbled(v, h, u)
    BY ONLY <1>5, <1>7, OverwrittenIs
  <1> HIDE DEF u
  <1>9. /\ DOMAIN u.at = DOMAIN t.at /\ u.size = t.size
        /\ \A a \in DOMAIN t.at : u.at[a].size = t.at[a].size
        /\ u.at[h].free = FALSE /\ u.at[n].prev_is_free = FALSE
        /\ \A a \in DOMAIN t.at \ {h} : /\ u.at[a].free = t.at[a].free
                                        /\ u.at[a].next_free = t.at[a].next_free
                                        /\ u.at[a].prev_free = t.at[a].prev_free
        /\ \A a \in DOMAIN t.at \ {n} : /\ u.at[a].prev_is_free = t.at[a].prev_is_free
                                        /\ u.at[a].prev = t.at[a].prev
        /\ u.block = t.block /\ u.sl = t.sl /\ u.fl = t.fl
    BY ONLY <1>4, <1>6, <1>7, <1>8 DEF Scribbled, SameSizes, SameFlags
  <1>10. /\ Shape(u) /\ End(u) = End(t) /\ BlocksOf(u) = BlocksOf(t)
         /\ \A a \in DOMAIN t.at : block_next(u, a) = block_next(t, a)
    <2>1. SameSizes(t, u)
      BY ONLY <1>9 DEF SameSizes
    <2> QED BY ONLY <1>1, <1>8, <2>1, ShapeKept
  <1>11. BlocksOf(t) \in SUBSET DOMAIN t.at
    BY DEF BlocksOf
  <1>12. FreeOf(u) \ {} = FreeOf(t) \ {h}
    BY ONLY <1>9, <1>10, <1>11 DEF FreeOf
  <1>13. Tags(u, {}, {})
    <2>1. ~u.at[End(u)].free /\ ~u.at[0].prev_is_free
      BY ONLY <1>1, <1>4, <1>9, <1>10 DEF Tags
    <2>2. Tag(u, h, {}, {})
      BY ONLY <1>3, <1>4, <1>9, <1>10 DEF Tag
    <2>3. ASSUME NEW a \in BlocksOf(t) \ {h}
          PROVE  Tag(u, a, {}, {})
      <3>1. PICK m : m = block_next(t, a) /\ m = block_next(u, a)
        BY ONLY <1>10, <1>11, <2>3
      <3>2. m \in DOMAIN t.at /\ m # n /\ a \in DOMAIN t.at
        <4>1. block_next(t, a) # block_next(t, h) /\ block_next(t, a) \in DOMAIN t.at /\ a \in DOMAIN t.at
          BY ONLY <1>2, <1>4, <1>11, <2>3
        <4> QED BY ONLY <1>3, <3>1, <4>1
      <3>3. /\ t.at[m].prev_is_free = t.at[a].free
            /\ t.at[a].free => t.at[m].prev = a
            /\ t.at[a].free /\ a # h /\ m # h => ~t.at[m].free
        <4>1. Tag(t, a, {}, {h})
          BY ONLY <1>1, <2>3 DEF Tags
        <4> QED BY ONLY <3>1, <4>1 DEF Tag
      <3>4. /\ u.at[m].prev_is_free = t.at[m].prev_is_free /\ u.at[m].prev = t.at[m].prev
            /\ u.at[a].free = t.at[a].free /\ u.at[m].free = IF m = h THEN FALSE ELSE t.at[m].free
        BY ONLY <1>9, <2>3, <3>2
      <3> QED BY ONLY <2>3, <3>1, <3>3, <3>4 DEF Tag
    <2> QED BY ONLY <1>10, <2>1, <2>2, <2>3 DEF Tags
  <1>14. Listing(u, FreeOf(u) \ {})
    <2>1. SameLists(t, u, FreeOf(t) \ {h})
      BY ONLY <1>9, <1>11 DEF SameLists, FreeOf
    <2> QED BY ONLY <1>1, <1>8, <1>12, <2>1, ListingKept
  <1>15. Match(u, L \cup {[ptr |-> h + 1, len |-> words]})
    <2>1. PICK d : d = [ptr |-> h + 1, len |-> words]
      OBVIOUS
    <2>2. /\ d \in [ptr : Nat, len : Nat] /\ d.ptr - 1 = h /\ d.ptr = h + 1 /\ d.len = words
      BY ONLY <1>4, <2>1, words \in Nat
    <2>3. /\ \A b \in L : /\ b \in [ptr : Nat, len : Nat] /\ b.ptr - 1 \in BlocksOf(t)
                          /\ ~t.at[b.ptr - 1].free /\ b.len <= t.at[b.ptr - 1].size
          /\ \A a \in BlocksOf(t) : ~t.at[a].free => \E b \in L : b.ptr - 1 = a
          /\ \A b, e \in L : b.ptr = e.ptr => b = e
      BY ONLY <1>1 DEF Match
    <2>4. \A b \in L : b.ptr - 1 # h /\ b.ptr # d.ptr
      <3>1. \A b \in L : b.ptr - 1 # h
        BY ONLY <1>2, <2>3
      <3> QED BY ONLY <2>2, <3>1
    <2>5. \A b \in L \cup {d} : /\ b \in [ptr : Nat, len : Nat] /\ b.ptr - 1 \in BlocksOf(u)
                                /\ ~u.at[b.ptr - 1].free /\ b.len <= u.at[b.ptr - 1].size
      <3>1. ASSUME NEW b \in L
            PROVE  /\ b \in [ptr : Nat, len : Nat] /\ b.ptr - 1 \in BlocksOf(u)
                   /\ ~u.at[b.ptr - 1].free /\ b.len <= u.at[b.ptr - 1].size
        <4>1. PICK a : a = b.ptr - 1
          OBVIOUS
        <4>2. /\ b \in [ptr : Nat, len : Nat] /\ a \in BlocksOf(t) /\ ~t.at[a].free
              /\ b.len <= t.at[a].size /\ a # h
          BY ONLY <2>3, <2>4, <3>1, <4>1
        <4>3. a \in BlocksOf(u) /\ ~u.at[a].free /\ b.len <= u.at[a].size
          BY ONLY <1>9, <1>10, <1>11, <4>2
        <4> QED BY ONLY <4>1, <4>2, <4>3
      <3>2. /\ h \in BlocksOf(u) /\ ~u.at[h].free /\ words <= u.at[h].size
        BY ONLY <1>2, <1>4, <1>9, <1>10, words <= t.at[h].size
      <3> QED BY ONLY <2>2, <3>1, <3>2
    <2>6. \A a \in BlocksOf(u) : ~u.at[a].free => \E b \in L \cup {d} : b.ptr - 1 = a
      BY ONLY <1>9, <1>10, <1>11, <2>2, <2>3
    <2>7. \A b, e \in L \cup {d} : b.ptr = e.ptr => b = e
      BY ONLY <2>3, <2>4
    <2> QED BY ONLY <2>1, <2>5, <2>6, <2>7 DEF Match
  <1> QED BY ONLY <1>8, <1>9, <1>10, <1>13, <1>14, <1>15 DEF Sound, u, v


-----------------------------------------------------------------------------
(* Requests                                                                *)

\* The size that g_malloc looks for: what the client asks for, not smaller than a
\* block and rounded to the next class.
LEMMA RequestIs ==
  ASSUME HeapBounds, NEW words \in Requests
  PROVE  /\ words \in Nat /\ adjust_size(words) \in Nat /\ adjust_size(words) >= 3
         /\ words <= adjust_size(words)
         /\ adjust_size(words) <= round_block_size(adjust_size(words))
         /\ adjust_size(words) \in Mapped
         /\ round_block_size(adjust_size(words)) \in Mapped
         /\ round_block_size(adjust_size(words)) \in Nat
         /\ mapping(round_block_size(adjust_size(words))) \in Nat \X Nat
  <1>1. words \in Nat /\ words <= Power[30] /\ 3 <= Power[30] /\ Power[30] \in Nat
    BY Bounds
  <1>2. PICK a : a = adjust_size(words)
    OBVIOUS
  <1>3. a \in Nat /\ a >= 3 /\ words <= a /\ a <= Power[30]
    BY ONLY <1>1, <1>2 DEF adjust_size, BLOCK_SIZE_MIN
  <1>4. a \in Mapped /\ round_block_size(a) \in Mapped /\ a <= round_block_size(a)
    BY ONLY HeapBounds, <1>3, RoundIs
  <1>5. mapping(round_block_size(a)) \in Nat \X Nat /\ round_block_size(a) \in Nat
    BY <1>4, MappingIs DEF Mapped
  <1> QED BY ONLY <1>1, <1>2, <1>3, <1>4, <1>5

LEMMA ClassesAre ==
  ASSUME HeapBounds
  PROVE  Classes \in SUBSET (Nat \X Nat)
  <1>1. ASSUME NEW s \in BLOCK_SIZE_MIN..MaxSize
        PROVE  mapping(s) \in Nat \X Nat
    <2>1. s \in Mapped
      BY Bounds DEF Mapped, BLOCK_SIZE_MIN
    <2> QED BY <2>1, MappingIs
  <1> QED BY <1>1 DEF Classes

LEMMA HeadIs ==
  ASSUME NEW t, NEW X, NEW Y, NEW L, Sound(t, X, Y, L), NEW c \in t.sl
  PROVE  c \in Classes /\ t.block[c] \in FreeOf(t) \ Y /\ c = mapping(t.at[t.block[c]].size)
  <1>1. Listing(t, FreeOf(t) \ Y)
    BY DEF Sound
  <1>2. c \in Classes /\ t.block[c] # NULL
    BY ONLY <1>1, c \in t.sl DEF Listing
  <1>3. t.block[c] \in FreeOf(t) \ Y /\ ClassOf(t)[t.block[c]] = c
    BY ONLY <1>1, <1>2 DEF Listing, Linkable, Linked
  <1>4. t.block[c] \in DOMAIN t.at
    BY ONLY <1>3 DEF FreeOf, BlocksOf
  <1> QED BY ONLY <1>2, <1>3, <1>4 DEF ClassOf

\* The end of g_malloc.
LEMMA TakeSound ==
  ASSUME HeapBounds, NEW t, NEW L, Sound(t, {}, {}, L), NEW c \in t.sl,
         NEW h, h = t.block[c], NEW size \in Nat, size >= 3, size <= t.at[h].size,
         NEW words \in Nat, words <= size
  PROVE  LET u == block_use(remove_free_block(t, h, c), h, size)
         IN  Sound(u, {}, {}, L \cup {[ptr |-> h + 1, len |-> words]}) /\ u.size = t.size
  <1>0. HeapBounds
    OBVIOUS
  <1>1. h \in FreeOf(t) \ {} /\ c = mapping(t.at[h].size)
    BY ONLY Sound(t, {}, {}, L), c \in t.sl, h = t.block[c], HeadIs
  <1>2. PICK v : v = remove_free_block(t, h, c)
    OBVIOUS
  <1>3. Sound(v, {}, {} \cup {h}, L) /\ SameRow(t, v)
    BY ONLY <1>1, <1>2, Sound(t, {}, {}, L), RemoveSound
  <1>4. Sound(v, {}, {h}, L)
    <2>1. {} \cup {h} = {h}
      OBVIOUS
    <2> QED BY ONLY <1>3, <2>1
  <1>5. t \in Contexts /\ v \in Contexts /\ Shape(t) /\ Tags(t, {}, {}) /\ Match(t, L)
    BY <1>3 DEF Sound
  <1>6. Tags(v, {}, {}) /\ FreeOf(v) = FreeOf(t) /\ h \in DOMAIN t.at
    BY ONLY <1>1, <1>3, <1>5, RowKept DEF FreeOf, BlocksOf
  <1>7. h \in FreeOf(v) /\ v.at[h].size = t.at[h].size /\ v.size = t.size
    BY ONLY <1>1, <1>3, <1>6 DEF SameRow, SameSizes
  <1>8. ~v.at[block_next(v, h)].free
    BY ONLY <1>6, <1>7 DEF Tags, Tag, FreeOf
  <1>9. PICK w : w = block_rtrim_free(v, h, size)
    OBVIOUS
  <1>10. size <= v.at[h].size
    BY ONLY <1>7, size <= t.at[h].size
  <1>11. Sound(w, {}, {h}, L) /\ Cut(v, h, size, w)
    BY ONLY <1>0, <1>4, <1>7, <1>8, <1>9, <1>10, size \in Nat, size >= 3, RtrimSound
  <1>12. h \in FreeOf(w) /\ words <= w.at[h].size /\ w.size = v.size
    <2>1. h \in FreeOf(w) /\ w.at[h].size >= size /\ w.size = v.size
      BY ONLY <1>11 DEF Cut
    <2>2. w.at[h].size \in Nat
      <3>1. w \in Contexts /\ h \in DOMAIN w.at
        BY ONLY <1>11, <2>1 DEF Sound, FreeOf, BlocksOf
      <3> QED BY ONLY <3>1, ContextIs
    <2> QED BY ONLY <2>1, <2>2, words \in Nat, size \in Nat, words <= size
  <1>13. PICK u : u = Overwritten(block_set_free(w, h, FALSE), h)
    OBVIOUS
  <1>14. Sound(u, {}, {}, L \cup {[ptr |-> h + 1, len |-> words]}) /\ u.size = w.size
    BY ONLY <1>11, <1>12, <1>13, words \in Nat, UseSound
  <1>15. block_use(remove_free_block(t, h, c), h, size) = u
    BY ONLY <1>2, <1>9, <1>13 DEF block_use
  <1> QED BY ONLY <1>7, <1>12, <1>14, <1>15

\* The block found for a request is large enough.
LEMMA FoundServes ==
  ASSUME HeapBounds, NEW t, NEW L, Sound(t, {}, {}, L), NEW words \in Requests, NEW c,
         c = block_find_suitable(t, mapping(round_block_size(adjust_size(words)))), c # << >>
  PROVE  c \in t.sl /\ adjust_size(words) <= t.at[t.block[c]].size
  <1>0. HeapBounds /\ words \in Requests
    OBVIOUS
  <1>1. PICK a : a = adjust_size(words)
    OBVIOUS
  <1>2. PICK r : r = round_block_size(a)
    OBVIOUS
  <1>3. a \in Mapped /\ r \in Mapped /\ a \in Nat /\ r \in Nat /\ a <= r /\ mapping(r) \in Nat \X Nat
    BY ONLY <1>0, <1>1, <1>2, RequestIs
  <1>4. t \in Contexts /\ Shape(t) /\ t.sl \in SUBSET Classes /\ t.fl = {d[1] : d \in t.sl}
    BY DEF Sound, Listing
  <1>5. t.sl \in SUBSET (Nat \X Nat)
    BY ONLY <1>0, <1>4, ClassesAre
  <1>6. c = block_find_suitable(t, mapping(r))
    BY ONLY <1>1, <1>2, c = block_find_suitable(t, mapping(round_block_size(adjust_size(words))))
  <1>7. Suitable(t, mapping(r), c)
    BY ONLY <1>3, <1>4, <1>5, <1>6, FindIs
  <1>8. c \in t.sl /\ ~Before(c, mapping(r))
    BY ONLY <1>7, c # << >> DEF Suitable
  <1>9. PICK h : h = t.block[c]
    OBVIOUS
  <1>10. h \in FreeOf(t) \ {} /\ c = mapping(t.at[h].size)
    BY ONLY <1>8, <1>9, Sound(t, {}, {}, L), HeadIs
  <1>11. t.at[h].size \in Mapped /\ t.at[h].size \in Nat
    <2>1. h \in BlocksOf(t)
      BY ONLY <1>10 DEF FreeOf
    <2>2. t.at[h].size \in Mapped
      BY ONLY <1>0, <1>4, <2>1, ClassExists
    <2> QED BY ONLY <2>2 DEF Mapped
  <1>12. ~(t.at[h].size < r)
    BY ONLY <1>0, <1>2, <1>3, <1>8, <1>10, <1>11, RoundedServes
  <1>13. a <= t.at[h].size
    BY ONLY <1>3, <1>11, <1>12
  <1> QED BY ONLY <1>1, <1>8, <1>9, <1>13

\* The search finds a block when there is one of the rounded size.
LEMMA FindsLarge ==
  ASSUME HeapBounds, NEW t, NEW L, Sound(t, {}, {}, L), NEW words \in Requests, NEW h \in FreeOf(t),
         round_block_size(adjust_size(words)) <= t.at[h].size
  PROVE  block_find_suitable(t, mapping(round_block_size(adjust_size(words)))) # << >>
  <1>0. HeapBounds /\ words \in Requests
    OBVIOUS
  <1>1. PICK r : r = round_block_size(adjust_size(words))
    OBVIOUS
  <1>2. r \in Mapped /\ mapping(r) \in Nat \X Nat
    BY ONLY <1>0, <1>1, RequestIs
  <1>3. /\ t \in Contexts /\ Shape(t) /\ t.sl \in SUBSET Classes /\ t.fl = {d[1] : d \in t.sl}
        /\ Listing(t, FreeOf(t) \ {})
    BY DEF Sound, Listing
  <1>4. t.sl \in SUBSET (Nat \X Nat)
    BY ONLY <1>0, <1>3, ClassesAre
  <1>5. PICK c : c = mapping(t.at[h].size)
    OBVIOUS
  <1>6. c \in t.sl
    <2>1. c \in Classes /\ t.block[c] # NULL
      <3>1. h \in FreeOf(t) \ {}
        OBVIOUS
      <3> QED BY ONLY <1>3, <1>5, <3>1, ListingFacts
    <2> QED BY ONLY <1>3, <2>1 DEF Listing
  <1>7. t.at[h].size \in Mapped
    <2>1. h \in BlocksOf(t)
      BY DEF FreeOf
    <2> QED BY ONLY <1>0, <1>3, <2>1, ClassExists
  <1>8. r <= t.at[h].size
    BY ONLY <1>1, round_block_size(adjust_size(words)) <= t.at[h].size
  <1>9. ~Before(c, mapping(r))
    BY ONLY <1>0, <1>2, <1>5, <1>7, <1>8, MappingMonotone
  <1>10. PICK found : found = block_find_suitable(t, mapping(r))
    OBVIOUS
  <1>11. Suitable(t, mapping(r), found)
    BY ONLY <1>2, <1>3, <1>4, <1>10, FindIs
  <1>12. << >> \notin Nat \X Nat
    OBVIOUS
  <1>13. found # << >>
    BY ONLY <1>4, <1>6, <1>9, <1>11, <1>12 DEF Suitable
  <1> QED BY ONLY <1>1, <1>10, <1>13


-----------------------------------------------------------------------------
(* Merging                                                                 *)

\* The block m that h has become part of by the merge with the one before it.
MergedInto(t, h, m, u) ==
  /\ m \in FreeOf(u) /\ ~u.at[m].prev_is_free /\ u.size = t.size
  /\ t.at[h].size <= u.at[m].size
  /\ block_next(u, m) = block_next(t, h)
  /\ u.at[block_next(t, h)].free = t.at[block_next(t, h)].free

LEMMA MergePrevSound ==
  ASSUME NEW t, NEW L, NEW h \in FreeOf(t), NEW X, X = {} \/ X = {h}, Sound(t, X, {h}, L),
         NEW m, m = MergedPrev(t, h)
  PROVE  LET u == block_merge_prev(t, h)
         IN  /\ Sound(u, IF t.at[h].prev_is_free THEN {} ELSE X, {m}, L)
             /\ MergedInto(t, h, m, u)
  <1>1. t \in Contexts /\ Shape(t) /\ Tags(t, X, {h}) /\ Match(t, L)
    BY DEF Sound
  <1>2. h \in BlocksOf(t) /\ t.at[h].free /\ h \in DOMAIN t.at
    BY DEF FreeOf, BlocksOf
  <1>3. CASE ~t.at[h].prev_is_free
    <2>1. block_merge_prev(t, h) = t /\ m = h
      BY ONLY <1>3, m = MergedPrev(t, h) DEF block_merge_prev, MergedPrev
    <2>2. t.at[h].size \in Nat
      BY ONLY <1>1, <1>2, ContextIs
    <2>3. MergedInto(t, h, m, t)
      BY ONLY <1>3, <2>1, <2>2, h \in FreeOf(t) DEF MergedInto
    <2> QED BY ONLY <1>3, <2>1, <2>3, Sound(t, X, {h}, L)
  <1>4. CASE t.at[h].prev_is_free
    <2>1. PICK p \in FreeOf(t) : block_next(t, p) = h /\ p # h /\ (p \notin X => t.at[h].prev = p)
      BY ONLY <1>1, <1>2, <1>4, PrevIs
    <2>2. p = t.at[h].prev /\ p \notin X
      BY ONLY <2>1, X = {} \/ X = {h}
    <2>3. m = p /\ block_merge_prev(t, h) = block_absorb(block_remove(t, p), p, h)
      BY ONLY <1>4, <2>2, m = MergedPrev(t, h) DEF block_merge_prev, MergedPrev
    <2>4. PICK v : v = block_remove(t, p)
      OBVIOUS
    <2>5. p \in FreeOf(t) \ {h} /\ p \in BlocksOf(t) /\ p \in DOMAIN t.at
      BY ONLY <2>1 DEF FreeOf, BlocksOf
    <2>6. Sound(v, X, {h} \cup {p}, L) /\ SameRow(t, v)
      <3>1. v = remove_free_block(t, p, mapping(t.at[p].size))
        BY ONLY <2>4 DEF block_remove
      <3> QED BY ONLY <2>5, <3>1, Sound(t, X, {h}, L), RemoveSound
    <2>7. v \in Contexts
      BY ONLY <2>6 DEF Sound
    <2>8. /\ FreeOf(v) = FreeOf(t) /\ End(v) = End(t)
          /\ \A a \in DOMAIN t.at : block_next(v, a) = block_next(t, a)
          /\ \A a \in DOMAIN t.at : v.at[a].free = t.at[a].free /\ v.at[a].size = t.at[a].size
                                    /\ v.at[a].prev_is_free = t.at[a].prev_is_free
          /\ v.size = t.size
      <3>1. /\ FreeOf(v) = FreeOf(t) /\ End(v) = End(t)
            /\ \A a \in DOMAIN t.at : block_next(v, a) = block_next(t, a)
        BY ONLY <1>1, <2>6, <2>7, RowKept
      <3> QED BY ONLY <2>6, <3>1 DEF SameRow, SameSizes, SameFlags
    <2>9. PICK u : u = block_absorb(v, p, h)
      OBVIOUS
    <2>10. Sound(u, X \ {p, h}, ({h} \cup {p}) \ {h}, L) /\ Joined(v, p, h, u)
      <3>1. p \in FreeOf(v) /\ h \in FreeOf(v) /\ block_next(v, p) = h
        BY ONLY <1>2, <2>1, <2>5, <2>8, h \in FreeOf(t)
      <3>2. p \in {h} \cup {p} /\ h \in {h} \cup {p}
        OBVIOUS
      <3> QED BY ONLY <2>6, <2>9, <3>1, <3>2, AbsorbSound
    <2>11. Sound(u, {}, {p}, L)
      <3>1. X \ {p, h} = {} /\ ({h} \cup {p}) \ {h} = {p}
        BY ONLY <2>1, X = {} \/ X = {h}
      <3> QED BY ONLY <2>10, <3>1
    <2>12. PICK n : n = block_next(t, h)
      OBVIOUS
    <2>13. /\ p \in FreeOf(u) /\ End(u) = End(t) /\ u.at[p].prev_is_free = t.at[p].prev_is_free
           /\ block_next(u, p) = n /\ u.at[n].free = t.at[n].free
      <3>1. block_next(v, h) = n /\ n \in DOMAIN t.at
        <4>1. n \in DOMAIN t.at
          BY ONLY <1>1, <1>2, <2>12, ShapeFacts
        <4> QED BY ONLY <1>2, <2>8, <2>12, <4>1
      <3> QED BY ONLY <2>5, <2>8, <2>10, <3>1 DEF Joined
    <2>14. ~t.at[p].prev_is_free
      <3>1. ASSUME t.at[p].prev_is_free PROVE FALSE
        <4>1. PICK q \in FreeOf(t) : block_next(t, q) = p /\ q # p
          BY ONLY <1>1, <2>5, <3>1, PrevIs
        <4>2. q \in BlocksOf(t) /\ t.at[q].free
          BY ONLY <4>1 DEF FreeOf
        <4>3. q # h
          <5>1. /\ q < block_next(t, q) /\ p < block_next(t, p) /\ q \in Nat /\ p \in Nat
                /\ block_next(t, p) \in Nat
            BY ONLY <1>1, <2>5, <4>2, ShapeFacts
          <5> QED BY ONLY <2>1, <4>1, <5>1
        <4>4. Tag(t, q, X, {h})
          BY ONLY <1>1, <4>2 DEF Tags
        <4>5. ~t.at[p].free
          BY ONLY <2>1, <4>1, <4>2, <4>3, <4>4 DEF Tag
        <4> QED BY ONLY <2>1, <4>5 DEF FreeOf
      <3> QED BY ONLY <3>1
    <2>15. u.size = t.size /\ t.at[h].size <= u.at[p].size
      <3>1. u \in Contexts /\ p \in DOMAIN u.at
        BY ONLY <2>11, <2>13 DEF Sound, FreeOf, BlocksOf
      <3>2. u.at[p].size \in Nat /\ t.at[h].size \in Nat /\ u.size \in Nat /\ t.size \in Nat
        BY ONLY <1>1, <1>2, <3>1, ContextIs
      <3>3. p < block_next(t, p) /\ p \in Nat /\ h \in Nat
        BY ONLY <1>1, <1>2, <2>5, ShapeFacts
      <3>4. p + 1 + u.at[p].size = h + 1 + t.at[h].size
        BY ONLY <2>12, <2>13 DEF block_next
      <3>5. u.size - 1 = t.size - 1
        BY ONLY <2>13 DEF End
      <3> QED BY ONLY <2>1, <3>2, <3>3, <3>4, <3>5
    <2>16. MergedInto(t, h, p, u)
      BY ONLY <2>12, <2>13, <2>14, <2>15 DEF MergedInto
    <2> QED BY ONLY <1>4, <2>3, <2>4, <2>9, <2>11, <2>16
  <1> QED BY ONLY <1>3, <1>4

\* A free block that is not listed yet, between two blocks that are not free.
Alone(t, h, L) ==
  /\ Sound(t, {}, {h}, L) /\ h \in FreeOf(t)
  /\ ~t.at[h].prev_is_free /\ ~t.at[block_next(t, h)].free

LEMMA MergeNextSound ==
  ASSUME NEW t, NEW L, NEW h \in FreeOf(t), Sound(t, {}, {h}, L), ~t.at[h].prev_is_free
  PROVE  LET u == block_merge_next(t, h)
         IN  Alone(u, h, L) /\ u.size = t.size
  <1>1. t \in Contexts /\ Shape(t) /\ Tags(t, {}, {h}) /\ Match(t, L)
    BY DEF Sound
  <1>2. h \in BlocksOf(t) /\ h \in DOMAIN t.at
    BY DEF FreeOf, BlocksOf
  <1>3. PICK n : n = block_next(t, h)
    OBVIOUS
  <1>4. block_merge_next(t, h) = IF t.at[n].free THEN block_absorb(block_remove(t, n), h, n) ELSE t
    BY ONLY <1>3 DEF block_merge_next
  <1>5. CASE ~t.at[n].free
    <2>1. Alone(t, h, L)
      BY ONLY <1>3, <1>5, Sound(t, {}, {h}, L), h \in FreeOf(t), ~t.at[h].prev_is_free DEF Alone
    <2> QED BY ONLY <1>4, <1>5, <2>1
  <1>6. CASE t.at[n].free
    <2>1. n \in DOMAIN t.at /\ n # End(t) /\ h < n /\ h \in Nat /\ n \in Nat
      <3>1. n \in DOMAIN t.at /\ h < n /\ h \in Nat /\ n \in Nat
        BY ONLY <1>1, <1>2, <1>3, ShapeFacts
      <3>2. ~t.at[End(t)].free
        BY ONLY <1>1 DEF Tags
      <3> QED BY ONLY <1>6, <3>1, <3>2
    <2>2. n \in FreeOf(t) \ {h} /\ n \in BlocksOf(t) /\ n # h
      BY ONLY <1>6, <2>1 DEF FreeOf, BlocksOf
    <2>3. PICK v : v = block_remove(t, n)
      OBVIOUS
    <2>4. Sound(v, {}, {h} \cup {n}, L) /\ SameRow(t, v)
      <3>1. v = remove_free_block(t, n, mapping(t.at[n].size))
        BY ONLY <2>3 DEF block_remove
      <3> QED BY ONLY <2>2, <3>1, Sound(t, {}, {h}, L), RemoveSound
    <2>5. v \in Contexts
      BY ONLY <2>4 DEF Sound
    <2>6. /\ FreeOf(v) = FreeOf(t) /\ End(v) = End(t)
          /\ \A a \in DOMAIN t.at : block_next(v, a) = block_next(t, a)
          /\ \A a \in DOMAIN t.at : v.at[a].free = t.at[a].free
                                    /\ v.at[a].prev_is_free = t.at[a].prev_is_free
      <3>1. /\ FreeOf(v) = FreeOf(t) /\ End(v) = End(t)
            /\ \A a \in DOMAIN t.at : block_next(v, a) = block_next(t, a)
        BY ONLY <1>1, <2>4, <2>5, RowKept
      <3> QED BY ONLY <2>4, <3>1 DEF SameRow, SameSizes, SameFlags
    <2>7. PICK u : u = block_absorb(v, h, n)
      OBVIOUS
    <2>8. Sound(u, {} \ {h, n}, ({h} \cup {n}) \ {n}, L) /\ Joined(v, h, n, u)
      <3>1. h \in FreeOf(v) /\ n \in FreeOf(v) /\ block_next(v, h) = n
        BY ONLY <1>2, <1>3, <2>2, <2>6, h \in FreeOf(t)
      <3>2. h \in {h} \cup {n} /\ n \in {h} \cup {n}
        OBVIOUS
      <3> QED BY ONLY <2>4, <2>7, <3>1, <3>2, AbsorbSound
    <2>9. Sound(u, {}, {h}, L)
      <3>1. {} \ {h, n} = {} /\ ({h} \cup {n}) \ {n} = {h}
        BY ONLY <2>2
      <3> QED BY ONLY <2>8, <3>1
    <2>10. PICK o : o = block_next(t, n)
      OBVIOUS
    <2>11. o \in DOMAIN t.at /\ n < o /\ o \in Nat
      BY ONLY <1>1, <2>2, <2>10, ShapeFacts
    <2>12. /\ h \in FreeOf(u) /\ End(u) = End(t) /\ u.at[h].prev_is_free = t.at[h].prev_is_free
           /\ block_next(u, h) = o /\ u.at[o].free = t.at[o].free
      <3>1. block_next(v, n) = o
        BY ONLY <2>1, <2>6, <2>10
      <3> QED BY ONLY <1>2, <2>6, <2>8, <2>11, <3>1 DEF Joined
    <2>13. ~t.at[o].free
      <3>1. Tag(t, n, {}, {h})
        BY ONLY <1>1, <2>2 DEF Tags
      <3>2. o # h
        BY ONLY <2>1, <2>11
      <3> QED BY ONLY <1>6, <2>2, <2>10, <3>1, <3>2 DEF Tag
    <2>14. Alone(u, h, L)
      BY ONLY <2>9, <2>12, <2>13, ~t.at[h].prev_is_free DEF Alone
    <2>15. u.size = t.size
      <3>1. u \in Contexts
        BY ONLY <2>9 DEF Sound
      <3>2. u.size \in Nat /\ t.size \in Nat
        BY ONLY <1>1, <3>1, ContextIs
      <3> QED BY ONLY <2>12, <3>2 DEF End
    <2> QED BY ONLY <1>4, <1>6, <2>3, <2>7, <2>14, <2>15
  <1> QED BY ONLY <1>5, <1>6

\* No two neighbours are free when a block that is alone is among the free ones.
LEMMA AloneTags ==
  ASSUME NEW t, NEW L, NEW X, NEW h \in FreeOf(t), Sound(t, X, {h}, L),
         ~t.at[h].prev_is_free, ~t.at[block_next(t, h)].free
  PROVE  Tags(t, X, {})
  <1>1. Tags(t, X, {h}) /\ h \in BlocksOf(t)
    BY DEF Sound, FreeOf
  <1>2. ASSUME NEW a \in BlocksOf(t)
        PROVE  /\ t.at[a].free /\ a \in {h} /\ a \notin {} => ~t.at[block_next(t, a)].free
               /\ t.at[a].free /\ block_next(t, a) \in {h} /\ block_next(t, a) \notin {}
                    => ~t.at[block_next(t, a)].free
    <2>1. Tag(t, a, X, {h})
      BY ONLY <1>1, <1>2 DEF Tags
    <2>2. t.at[a].free => block_next(t, a) # h
      BY ONLY <2>1, ~t.at[h].prev_is_free DEF Tag
    <2> QED BY ONLY <2>2, ~t.at[block_next(t, h)].free
  <1> QED BY ONLY <1>1, <1>2, FewerExceptions

\* The block that is alone is put in its list.
LEMMA InsertAlone ==
  ASSUME HeapBounds, NEW t, NEW L, NEW X, NEW h \in FreeOf(t), Sound(t, X, {h}, L),
         ~t.at[h].prev_is_free, ~t.at[block_next(t, h)].free
  PROVE  LET u == block_insert(t, h)
         IN  Sound(u, X, {}, L) /\ SameRow(t, u)
  <1>1. Tags(t, X, {})
    BY ONLY h \in FreeOf(t), Sound(t, X, {h}, L), ~t.at[h].prev_is_free,
            ~t.at[block_next(t, h)].free, AloneTags
  <1>2. {h} \ {h} = {} /\ h \in FreeOf(t) \cap {h}
    OBVIOUS
  <1>3. Tags(t, X, {h} \ {h})
    BY ONLY <1>1, <1>2
  <1>4. PICK u : u = block_insert(t, h)
    OBVIOUS
  <1>5. Sound(u, X, {h} \ {h}, L) /\ SameRow(t, u)
    BY ONLY HeapBounds, Sound(t, X, {h}, L), <1>2, <1>3, <1>4, InsertSound
  <1> QED BY ONLY <1>2, <1>4, <1>5


-----------------------------------------------------------------------------
(* g_free                                                                  *)

\* A block of the client becomes a free block that is not listed yet.
LEMMA GiveSound ==
  ASSUME NEW t, NEW L, Sound(t, {}, {}, L), NEW b \in L, NEW h, h = b.ptr - 1
  PROVE  LET u == block_set_free(t, h, TRUE)
         IN  Sound(u, {}, {h}, L \ {b}) /\ h \in FreeOf(u) /\ u.size = t.size
  <1>1. t \in Contexts /\ Shape(t) /\ Tags(t, {}, {}) /\ Listing(t, FreeOf(t) \ {}) /\ Match(t, L)
    BY DEF Sound
  <1>2. h \in BlocksOf(t) /\ ~t.at[h].free
    BY ONLY <1>1, b \in L, h = b.ptr - 1 DEF Match
  <1>3. PICK n : n = block_next(t, h)
    OBVIOUS
  <1>4. /\ h \in DOMAIN t.at /\ n \in DOMAIN t.at /\ n # h /\ h # End(t) /\ n # 0
        /\ h \in Nat /\ 0 \in DOMAIN t.at /\ End(t) \in DOMAIN t.at
        /\ \A a, d \in BlocksOf(t) : block_next(t, a) = block_next(t, d) => a = d
        /\ \A a \in BlocksOf(t) : block_next(t, a) \in DOMAIN t.at
    <2>1. h < n /\ h \in Nat /\ n \in Nat
      BY ONLY <1>1, <1>2, <1>3, ShapeFacts
    <2>2. /\ h \in DOMAIN t.at /\ n \in DOMAIN t.at /\ h # End(t)
          /\ 0 \in DOMAIN t.at /\ End(t) \in DOMAIN t.at
      BY ONLY <1>1, <1>2, <1>3, ShapeFacts
    <2>3. /\ \A a, d \in BlocksOf(t) : block_next(t, a) = block_next(t, d) => a = d
          /\ \A a \in BlocksOf(t) : block_next(t, a) \in DOMAIN t.at
      BY ONLY <1>1, ShapeFacts
    <2> QED BY ONLY <2>1, <2>2, <2>3
  <1>5. PICK u : u = block_set_free(t, h, TRUE)
    OBVIOUS
  <1>6. u \in Contexts /\ FreeSet(t, h, TRUE, u)
    BY ONLY <1>1, <1>3, <1>4, <1>5, SetFreeIs
  <1>7. /\ SameSizes(t, u) /\ DOMAIN u.at = DOMAIN t.at /\ u.size = t.size
        /\ \A a \in DOMAIN t.at : u.at[a].size = t.at[a].size
        /\ u.at[h].free = TRUE /\ u.at[n].prev_is_free = TRUE /\ u.at[n].prev = h
        /\ \A a \in DOMAIN t.at \ {h} : u.at[a].free = t.at[a].free
        /\ \A a \in DOMAIN t.at \ {n} : /\ u.at[a].prev_is_free = t.at[a].prev_is_free
                                        /\ u.at[a].prev = t.at[a].prev
        /\ u.block = t.block /\ u.sl = t.sl /\ u.fl = t.fl
        /\ \A a \in DOMAIN t.at : /\ u.at[a].next_free = t.at[a].next_free
                                  /\ u.at[a].prev_free = t.at[a].prev_free
    BY ONLY <1>3, <1>6 DEF FreeSet, SameSizes, SameLinks
  <1>8. /\ Shape(u) /\ End(u) = End(t) /\ BlocksOf(u) = BlocksOf(t)
        /\ \A a \in DOMAIN t.at : block_next(u, a) = block_next(t, a)
    BY ONLY <1>1, <1>6, <1>7, ShapeKept
  <1>9. BlocksOf(t) \in SUBSET DOMAIN t.at
    BY DEF BlocksOf
  <1>10. h \in FreeOf(u) /\ FreeOf(u) \ {h} = FreeOf(t) \ {}
    BY ONLY <1>2, <1>7, <1>8, <1>9 DEF FreeOf
  <1>11. Tags(u, {}, {h})
    <2>1. ~u.at[End(u)].free /\ ~u.at[0].prev_is_free
      BY ONLY <1>1, <1>4, <1>7, <1>8 DEF Tags
    <2>2. Tag(u, h, {}, {h})
      BY ONLY <1>3, <1>4, <1>7, <1>8 DEF Tag
    <2>3. ASSUME NEW a \in BlocksOf(t) \ {h}
          PROVE  Tag(u, a, {}, {h})
      <3>1. PICK m : m = block_next(t, a) /\ m = block_next(u, a)
        BY ONLY <1>8, <1>9, <2>3
      <3>2. m \in DOMAIN t.at /\ m # n /\ a \in DOMAIN t.at
        <4>1. block_next(t, a) # block_next(t, h) /\ block_next(t, a) \in DOMAIN t.at /\ a \in DOMAIN t.at
          BY ONLY <1>2, <1>4, <1>9, <2>3
        <4> QED BY ONLY <1>3, <3>1, <4>1
      <3>3. /\ t.at[m].prev_is_free = t.at[a].free
            /\ t.at[a].free => t.at[m].prev = a
            /\ t.at[a].free => ~t.at[m].free
        <4>1. Tag(t, a, {}, {})
          BY ONLY <1>1, <2>3 DEF Tags
        <4> QED BY ONLY <3>1, <4>1 DEF Tag
      <3>4. /\ u.at[m].prev_is_free = t.at[m].prev_is_free /\ u.at[m].prev = t.at[m].prev
            /\ u.at[a].free = t.at[a].free /\ (m # h => u.at[m].free = t.at[m].free)
        BY ONLY <1>7, <2>3, <3>2
      <3> QED BY ONLY <2>3, <3>1, <3>3, <3>4 DEF Tag
    <2> QED BY ONLY <1>8, <2>1, <2>2, <2>3 DEF Tags
  <1>12. Listing(u, FreeOf(u) \ {h})
    <2>1. SameLists(t, u, FreeOf(t) \ {})
      BY ONLY <1>7, <1>9 DEF SameLists, FreeOf
    <2> QED BY ONLY <1>1, <1>6, <1>10, <2>1, ListingKept
  <1>13. Match(u, L \ {b})
    <2>1. /\ \A d \in L : /\ d \in [ptr : Nat, len : Nat] /\ d.ptr - 1 \in BlocksOf(t)
                          /\ ~t.at[d.ptr - 1].free /\ d.len <= t.at[d.ptr - 1].size
          /\ \A a \in BlocksOf(t) : ~t.at[a].free => \E d \in L : d.ptr - 1 = a
          /\ \A d, e \in L : d.ptr = e.ptr => d = e
      BY ONLY <1>1 DEF Match
    <2>2. \A d \in L \ {b} : d.ptr - 1 # h
      <3>1. SUFFICES ASSUME NEW d \in L \ {b}, d.ptr - 1 = h PROVE FALSE
        OBVIOUS
      <3>2. d.ptr \in Nat /\ b.ptr \in Nat
        BY ONLY <2>1, <3>1, b \in L
      <3>3. d.ptr = b.ptr
        BY ONLY <3>1, <3>2, h = b.ptr - 1
      <3> QED BY ONLY <2>1, <3>1, <3>3, b \in L
    <2>3. \A d \in L \ {b} : /\ d \in [ptr : Nat, len : Nat] /\ d.ptr - 1 \in BlocksOf(u)
                             /\ ~u.at[d.ptr - 1].free /\ d.len <= u.at[d.ptr - 1].size
      <3>1. SUFFICES ASSUME NEW d \in L \ {b}
                     PROVE  /\ d \in [ptr : Nat, len : Nat] /\ d.ptr - 1 \in BlocksOf(u)
                            /\ ~u.at[d.ptr - 1].free /\ d.len <= u.at[d.ptr - 1].size
        OBVIOUS
      <3>2. PICK a : a = d.ptr - 1
        OBVIOUS
      <3>3. /\ d \in [ptr : Nat, len : Nat] /\ a \in BlocksOf(t) /\ ~t.at[a].free
            /\ d.len <= t.at[a].size /\ a # h
        BY ONLY <2>1, <2>2, <3>1, <3>2
      <3>4. a \in BlocksOf(u) /\ ~u.at[a].free /\ d.len <= u.at[a].size
        BY ONLY <1>7, <1>8, <1>9, <3>3
      <3> QED BY ONLY <3>2, <3>3, <3>4
    <2>4. \A a \in BlocksOf(u) : ~u.at[a].free => \E d \in L \ {b} : d.ptr - 1 = a
      BY ONLY <1>7, <1>8, <1>9, <2>1, h = b.ptr - 1
    <2> QED BY ONLY <2>1, <2>3, <2>4 DEF Match
  <1>14. Sound(u, {}, {h}, L \ {b})
    BY ONLY <1>6, <1>8, <1>11, <1>12, <1>13 DEF Sound
  <1> QED BY ONLY <1>5, <1>7, <1>10, <1>14

\* What g_free makes of the block before it is listed or given back.
LEMMA FreedAlone ==
  ASSUME NEW L, Sound(context, {}, {}, L), NEW b \in L, NEW h, h = MergedPrev(Freed(b.ptr - 1), b.ptr - 1)
  PROVE  Alone(Merged(b.ptr - 1), h, L \ {b}) /\ Merged(b.ptr - 1).size = context.size
  <1>1. PICK g : g = b.ptr - 1
    OBVIOUS
  <1>2. PICK t : t = Freed(g)
    OBVIOUS
  <1>3. Sound(t, {}, {g}, L \ {b}) /\ g \in FreeOf(t) /\ t.size = context.size
    <2>1. t = block_set_free(context, g, TRUE)
      BY ONLY <1>2 DEF Freed
    <2>2. LET v == block_set_free(context, g, TRUE)
          IN  Sound(v, {}, {g}, L \ {b}) /\ g \in FreeOf(v) /\ v.size = context.size
      BY ONLY <1>1, Sound(context, {}, {}, L), b \in L, GiveSound, Zenon
    <2> QED BY ONLY <2>1, <2>2
  <1>4. PICK u : u = block_merge_prev(t, g)
    OBVIOUS
  <1>5. h = MergedPrev(t, g)
    BY ONLY <1>1, <1>2, h = MergedPrev(Freed(b.ptr - 1), b.ptr - 1)
  <1>6. Sound(u, {}, {h}, L \ {b}) /\ MergedInto(t, g, h, u)
    <2>1. PICK X : X = {}
      OBVIOUS
    <2>2. Sound(u, IF t.at[g].prev_is_free THEN {} ELSE X, {h}, L \ {b}) /\ MergedInto(t, g, h, u)
      BY ONLY <1>3, <1>4, <1>5, <2>1, MergePrevSound
    <2> QED BY ONLY <2>1, <2>2
  <1>7. h \in FreeOf(u) /\ ~u.at[h].prev_is_free /\ u.size = t.size
    BY ONLY <1>6 DEF MergedInto
  <1>8. PICK v : v = block_merge_next(u, h)
    OBVIOUS
  <1>9. Alone(v, h, L \ {b}) /\ v.size = u.size
    BY ONLY <1>6, <1>7, <1>8, MergeNextSound
  <1>10. Merged(b.ptr - 1) = v
    BY ONLY <1>1, <1>2, <1>4, <1>5, <1>8 DEF Merged
  <1> QED BY ONLY <1>3, <1>7, <1>9, <1>10

\* The last block is the one in front of the sentinel.
LEMMA LastIs ==
  ASSUME NEW t \in Contexts, Shape(t), NEW h \in BlocksOf(t)
  PROVE  IsLast(t, h) <=> block_next(t, h) = End(t)
  <1>1. PICK n : n = block_next(t, h)
    OBVIOUS
  <1>2. n \in DOMAIN t.at /\ t.at[End(t)].size = 0
    BY ONLY <1>1, Shape(t), h \in BlocksOf(t), t \in Contexts, ShapeFacts
  <1>3. n # End(t) => n \in BlocksOf(t)
    BY ONLY <1>2 DEF BlocksOf
  <1>4. n # End(t) => t.at[n].size # 0
    <2>1. SUFFICES ASSUME n # End(t) PROVE t.at[n].size # 0
      OBVIOUS
    <2>2. t.at[n].size \in Nat /\ t.at[n].size >= 3
      BY ONLY <1>3, <2>1, Shape(t), t \in Contexts, ShapeFacts
    <2> QED BY ONLY <2>2
  <1> QED BY ONLY <1>1, <1>2, <1>4 DEF IsLast

\* The memory without a block.
Empty(t, L) == t \in Contexts /\ t.size = 0 /\ DOMAIN t.at = {} /\ Listing(t, {}) /\ L = {}

\* Between calls there is no memory, or some of it is the client's.
Settled(t, L) == Empty(t, L) \/ (Sound(t, {}, {}, L) /\ L # {})

\* The last block is given back.
LEMMA ShrinkSound ==
  ASSUME NEW t, NEW L, NEW h, Alone(t, h, L), IsLast(t, h)
  PROVE  Settled(arena_shrink(t, h), L) /\ arena_shrink(t, h).size <= t.size
  <1>1. /\ t \in Contexts /\ Shape(t) /\ Tags(t, {}, {h}) /\ Listing(t, FreeOf(t) \ {h}) /\ Match(t, L)
        /\ h \in BlocksOf(t) /\ t.at[h].free /\ ~t.at[h].prev_is_free
    BY DEF Alone, Sound, FreeOf
  <1>2. block_next(t, h) = End(t)
    BY ONLY <1>1, IsLast(t, h), LastIs
  <1>3. PICK e : e = End(t)
    OBVIOUS
  <1>4. /\ h \in DOMAIN t.at /\ e \in DOMAIN t.at /\ h # e /\ h \in Nat /\ e \in Nat
        /\ h < e /\ e = h + 1 + t.at[h].size /\ t.at[h].size \in Nat /\ t.at[h].size >= 3
        /\ 0 \in DOMAIN t.at /\ t.size \in Nat /\ t.size - 1 = e
        /\ \A a \in BlocksOf(t) :
              /\ a \in Nat /\ a \in DOMAIN t.at /\ a # e /\ t.at[a].size >= 3
              /\ block_next(t, a) \in DOMAIN t.at /\ a < block_next(t, a) /\ block_next(t, a) \in Nat
              /\ \A g \in DOMAIN t.at : g > a => g >= block_next(t, a)
        /\ \A a, d \in BlocksOf(t) : block_next(t, a) = block_next(t, d) => a = d
        /\ \A g \in DOMAIN t.at \ {0} : \E a \in BlocksOf(t) : block_next(t, a) = g
        /\ \A a \in DOMAIN t.at : a \in Nat /\ a <= e
    <2>1. /\ h \in DOMAIN t.at /\ e \in DOMAIN t.at /\ h # e /\ h \in Nat /\ e \in Nat
          /\ h < e /\ e = h + 1 + t.at[h].size /\ t.at[h].size \in Nat /\ t.at[h].size >= 3
          /\ 0 \in DOMAIN t.at
      BY ONLY <1>1, <1>2, <1>3, ShapeFacts
    <2>2. t.size \in Nat /\ t.size - 1 = e
      BY ONLY <1>1, <1>3, ContextIs DEF End
    <2>3. \A a \in BlocksOf(t) :
              /\ a \in Nat /\ a \in DOMAIN t.at /\ a # e /\ t.at[a].size >= 3
              /\ block_next(t, a) \in DOMAIN t.at /\ a < block_next(t, a) /\ block_next(t, a) \in Nat
              /\ \A g \in DOMAIN t.at : g > a => g >= block_next(t, a)
      BY ONLY <1>1, <1>3, ShapeFacts
    <2>4. /\ \A a, d \in BlocksOf(t) : block_next(t, a) = block_next(t, d) => a = d
          /\ \A g \in DOMAIN t.at \ {0} : \E a \in BlocksOf(t) : block_next(t, a) = g
          /\ \A a \in DOMAIN t.at : a \in Nat /\ a <= e
      BY ONLY <1>1, <1>3, ShapeFacts
    <2> QED BY ONLY <2>1, <2>2, <2>3, <2>4
  <1>5. t.size - t.at[h].size - 1 = h + 1 /\ h + 1 \in Nat
    BY ONLY <1>4
  <1>6. PICK u : u = arena_shrink(t, h)
    OBVIOUS
  <1>7. /\ u \in Contexts
        /\ IF t.size - t.at[h].size - 1 \in {0, 1}
             THEN /\ u.block = t.block /\ u.sl = t.sl /\ u.fl = t.fl
                  /\ DOMAIN u.at = {} /\ u.size = 0
             ELSE Shrunk(t, h, u)
    <2>1. t.size - t.at[h].size - 1 \in Nat
      BY ONLY <1>5
    <2> QED BY ONLY <1>1, <1>4, <1>6, <2>1, ShrinkIs
  <1>8. \A b \in L : b.ptr - 1 \in BlocksOf(t) /\ ~t.at[b.ptr - 1].free
    BY ONLY <1>1 DEF Match
  <1>9. BlocksOf(t) \in SUBSET DOMAIN t.at
    BY DEF BlocksOf
  <1>10. CASE h = 0
    <2>1. h + 1 \in {0, 1}
      BY ONLY <1>10
    <2>2. u.block = t.block /\ u.sl = t.sl /\ u.fl = t.fl /\ DOMAIN u.at = {} /\ u.size = 0
      BY ONLY <1>5, <1>7, <2>1
    <2>3. BlocksOf(t) = {h}
      <3>1. ASSUME NEW a \in BlocksOf(t), a # h PROVE FALSE
        <4>1. a \in Nat /\ a \in DOMAIN t.at /\ a # e /\ a <= e
          BY ONLY <1>4, <3>1
        <4>2. a > h
          BY ONLY <1>10, <3>1, <4>1
        <4>3. a >= e
          BY ONLY <1>1, <1>2, <1>3, <1>4, <4>1, <4>2
        <4> QED BY ONLY <1>4, <4>1, <4>3
      <3> QED BY ONLY <1>1, <3>1
    <2>4. L = {}
      BY ONLY <1>1, <1>8, <2>3
    <2>5. FreeOf(t) \ {h} = {}
      BY ONLY <2>3 DEF FreeOf
    <2>6. Listing(u, {})
      <3>1. SameLists(t, u, {})
        BY ONLY <2>2 DEF SameLists
      <3> QED BY ONLY <1>1, <1>7, <2>5, <3>1, ListingKept
    <2>7. Empty(u, L)
      BY ONLY <1>7, <2>2, <2>4, <2>6 DEF Empty
    <2>8. u.size <= t.size
      BY ONLY <1>4, <2>2
    <2> QED BY ONLY <1>6, <2>7, <2>8 DEF Settled
  <1>11. CASE h # 0
    <2>1. h + 1 \notin {0, 1}
      BY ONLY <1>4, <1>11
    <2>2. Shrunk(t, h, u)
      BY ONLY <1>5, <1>7, <2>1
    <2>3. /\ u.block = t.block /\ u.sl = t.sl /\ u.fl = t.fl
          /\ DOMAIN u.at = DOMAIN t.at \ {e} /\ u.size = h + 1
          /\ u.at[h].size = 0 /\ ~u.at[h].free /\ ~u.at[h].prev_is_free
          /\ \A a \in DOMAIN u.at \ {h} : u.at[a] = t.at[a]
      <3>1. DOMAIN u.at = DOMAIN t.at \ {e}
        BY ONLY <1>2, <1>3, <2>2 DEF Shrunk
      <3> QED BY ONLY <1>5, <2>2, <3>1 DEF Shrunk
    <2>4. End(u) = h
      BY ONLY <1>4, <2>3 DEF End
    <2>5. BlocksOf(u) = BlocksOf(t) \ {h}
      BY ONLY <1>3, <2>3, <2>4 DEF BlocksOf
    <2>6. \A a \in BlocksOf(u) :
             /\ a \in BlocksOf(t) /\ a # h /\ u.at[a] = t.at[a] /\ block_next(u, a) = block_next(t, a)
             /\ block_next(t, a) # e /\ block_next(t, a) \in DOMAIN u.at
      <3>1. \A a \in BlocksOf(u) : a \in BlocksOf(t) /\ a # h /\ u.at[a] = t.at[a]
        BY ONLY <1>4, <2>3, <2>5
      <3>2. \A a \in BlocksOf(u) : block_next(u, a) = block_next(t, a)
        BY ONLY <3>1 DEF block_next
      <3>3. \A a \in BlocksOf(u) : block_next(t, a) # e
        BY ONLY <1>1, <1>2, <1>3, <1>4, <3>1
      <3>4. \A a \in BlocksOf(u) : block_next(t, a) \in DOMAIN u.at
        BY ONLY <1>4, <2>3, <3>1, <3>3
      <3> QED BY ONLY <3>1, <3>2, <3>3, <3>4
    <2>7. Shape(u)
      <3>1. u.size \in 1..MaxSize
        <4>1. t.size \in 1..MaxSize
          BY ONLY <1>1 DEF Shape
        <4>2. MaxSize \in Nat
          BY HeapAssumption
        <4> QED BY ONLY <1>4, <2>3, <4>1, <4>2
      <3>2. DOMAIN u.at \in SUBSET (0..End(u)) /\ 0 \in DOMAIN u.at /\ End(u) \in DOMAIN u.at
        <4>1. ASSUME NEW a \in DOMAIN u.at PROVE a \in 0..h
          <5>1. a \in DOMAIN t.at /\ a # e /\ a \in Nat /\ a <= e
            BY ONLY <1>4, <2>3, <4>1
          <5>2. a > h => a >= e
            BY ONLY <1>1, <1>2, <1>3, <1>4, <5>1
          <5> QED BY ONLY <1>4, <5>1, <5>2
        <4> QED BY ONLY <1>4, <2>3, <2>4, <4>1
      <3>3. u.at[End(u)].size = 0
        BY ONLY <2>3, <2>4
      <3>4. \A a \in BlocksOf(u) : /\ u.at[a].size >= 3 /\ block_next(u, a) \in DOMAIN u.at
                                   /\ \A g \in DOMAIN u.at : g > a => g >= block_next(u, a)
        BY ONLY <1>4, <2>3, <2>6
      <3>5. \A g \in DOMAIN u.at \ {0} : \E a \in BlocksOf(u) : block_next(u, a) = g
        <4>1. SUFFICES ASSUME NEW g \in DOMAIN u.at \ {0} PROVE \E a \in BlocksOf(u) : block_next(u, a) = g
          OBVIOUS
        <4>2. PICK a \in BlocksOf(t) : block_next(t, a) = g
          BY ONLY <1>4, <2>3, <4>1
        <4>3. a # h
          BY ONLY <1>2, <1>3, <2>3, <4>1, <4>2
        <4> QED BY ONLY <2>5, <2>6, <4>2, <4>3
      <3> QED BY ONLY <3>1, <3>2, <3>3, <3>4, <3>5 DEF Shape
    <2>8. Tags(u, {}, {})
      <3>1. ~u.at[End(u)].free
        BY ONLY <2>3, <2>4
      <3>2. ~u.at[0].prev_is_free
        BY ONLY <1>1, <1>4, <1>11, <2>3 DEF Tags
      <3>3. ASSUME NEW a \in BlocksOf(u)
            PROVE  Tag(u, a, {}, {})
        <4>1. PICK m : m = block_next(t, a) /\ m = block_next(u, a)
          BY ONLY <2>6, <3>3
        <4>2. a \in BlocksOf(t) /\ a # h /\ m \in DOMAIN u.at /\ u.at[a] = t.at[a]
          BY ONLY <2>6, <3>3, <4>1
        <4>3. /\ t.at[m].prev_is_free = t.at[a].free
              /\ t.at[a].free => t.at[m].prev = a
              /\ t.at[a].free /\ m # h => ~t.at[m].free
          <5>1. Tag(t, a, {}, {h})
            BY ONLY <1>1, <4>2 DEF Tags
          <5> QED BY ONLY <4>1, <4>2, <5>1 DEF Tag
        <4>4. CASE m = h
          <5>1. ~t.at[a].free
            BY ONLY <1>1, <4>3, <4>4
          <5>2. t.at[a].free \in BOOLEAN /\ u.at[h].prev_is_free \in BOOLEAN
            <6>1. a \in DOMAIN t.at /\ h \in DOMAIN u.at
              BY ONLY <1>9, <4>2, <4>4
            <6> QED BY ONLY <1>1, <1>7, <6>1, ContextIs
          <5> QED BY ONLY <2>3, <4>1, <4>2, <4>4, <5>1, <5>2 DEF Tag
        <4>5. CASE m # h
          <5>1. u.at[m] = t.at[m]
            BY ONLY <2>3, <4>2, <4>5
          <5> QED BY ONLY <4>1, <4>2, <4>3, <4>5, <5>1 DEF Tag
        <4> QED BY ONLY <4>4, <4>5
      <3> QED BY ONLY <3>1, <3>2, <3>3 DEF Tags
    <2>9. FreeOf(u) \ {} = FreeOf(t) \ {h}
      BY ONLY <2>5, <2>6 DEF FreeOf
    <2>10. Listing(u, FreeOf(u) \ {})
      <3>1. SameLists(t, u, FreeOf(t) \ {h})
        <4>1. \A a \in FreeOf(t) \ {h} : a \in DOMAIN u.at /\ u.at[a] = t.at[a]
          BY ONLY <1>3, <2>3 DEF FreeOf, BlocksOf
        <4> QED BY ONLY <2>3, <4>1 DEF SameLists
      <3> QED BY ONLY <1>1, <1>7, <2>9, <3>1, ListingKept
    <2>11. Match(u, L)
      <3>1. SameUsed(t, u)
        BY ONLY <1>1, <2>5, <2>6 DEF SameUsed
      <3> QED BY ONLY <1>1, <3>1, MatchKept
    <2>12. L # {}
      <3>1. PICK a \in BlocksOf(t) : block_next(t, a) = h
        BY ONLY <1>4, <1>11
      <3>2. ~t.at[a].free
        <4>1. Tag(t, a, {}, {h})
          BY ONLY <1>1 DEF Tags
        <4> QED BY ONLY <1>1, <3>1, <4>1 DEF Tag
      <3> QED BY ONLY <1>1, <3>1, <3>2 DEF Match
    <2>13. Sound(u, {}, {}, L)
      BY ONLY <1>7, <2>7, <2>8, <2>10, <2>11 DEF Sound
    <2>14. u.size <= t.size
      BY ONLY <1>4, <2>3
    <2> QED BY ONLY <1>6, <2>12, <2>13, <2>14 DEF Settled
  <1> QED BY ONLY <1>10, <1>11


-----------------------------------------------------------------------------
(* More memory                                                             *)

\* The memory with its last block h, which is free, not listed, and of which no
\* header behind it has been told.
Grown(v, h, size, end, L) ==
  /\ Sound(v, {h}, {h}, L) /\ h \in FreeOf(v)
  /\ v.at[h].size = size /\ block_next(v, h) = end /\ v.size = end + 1
  /\ ~v.at[end].free

LEMMA ExtendSound ==
  ASSUME NEW t, NEW L, Sound(t, {}, {}, L), NEW size \in Nat, size >= 3, t.size + 1 + size <= MaxSize,
         NEW h, h = End(t), NEW end, end = h + 1 + size
  PROVE  Grown(ExtendedWith(t, t.at, h, size, end), h, size, end, L)
  <1>1. t \in Contexts /\ Shape(t) /\ Tags(t, {}, {}) /\ Listing(t, FreeOf(t) \ {}) /\ Match(t, L)
    BY DEF Sound
  <1>2. /\ h \in DOMAIN t.at /\ h \in Nat /\ 0 \in DOMAIN t.at /\ DOMAIN t.at \in SUBSET Nat
        /\ \A a \in DOMAIN t.at : a <= h
    BY ONLY <1>1, h = End(t), ShapeFacts
  <1>3. \A a \in BlocksOf(t) :
          /\ a \in DOMAIN t.at /\ a # h /\ a \in Nat /\ t.at[a].size >= 3
          /\ block_next(t, a) \in DOMAIN t.at
          /\ \A g \in DOMAIN t.at : g > a => g >= block_next(t, a)
    BY ONLY <1>1, h = End(t), ShapeFacts
  <1>4. \A g \in DOMAIN t.at \ {0} : \E a \in BlocksOf(t) : block_next(t, a) = g
    BY ONLY <1>1, ShapeFacts
  <1>5. end \in Nat /\ h < end /\ end \notin DOMAIN t.at /\ end + 1 \in 1..MaxSize
    <2>1. end \in Nat /\ h < end
      BY ONLY <1>2, size \in Nat, end = h + 1 + size
    <2>2. end \notin DOMAIN t.at
      BY ONLY <1>2, <2>1
    <2>3. end + 1 \in 1..MaxSize
      <3>1. t.size \in Nat
        BY ONLY <1>1, ContextIs
      <3>2. end + 1 = t.size + 1 + size
        BY ONLY <3>1, size \in Nat, h = End(t), end = h + 1 + size DEF End
      <3> QED BY ONLY <2>1, <3>2, HeapAssumption, t.size + 1 + size <= MaxSize
    <2> QED BY ONLY <2>1, <2>2, <2>3
  <1> DEFINE v == ExtendedWith(t, t.at, h, size, end)
  <1>6. v \in Contexts /\ Extended(t, t.at, h, size, end, v)
    <2>1. DOMAIN t.at \in SUBSET Nat /\ t.at \in [DOMAIN t.at -> Headers]
      BY ONLY <1>1, ContextIs
    <2>2. end \in Nat \ DOMAIN t.at
      BY ONLY <1>5
    <2> QED BY ONLY <1>1, <1>2, <2>1, <2>2, size \in Nat, ExtendIs
  <1> HIDE DEF v
  <1>7. /\ v.block = t.block /\ v.sl = t.sl /\ v.fl = t.fl
        /\ DOMAIN v.at = DOMAIN t.at \cup {end} /\ v.size = end + 1
        /\ v.at[h].size = size /\ v.at[h].free
        /\ v.at[end].size = 0 /\ ~v.at[end].free /\ v.at[end].prev_is_free
        /\ \A a \in DOMAIN t.at \ {h} : v.at[a].size = t.at[a].size /\ v.at[a].free = t.at[a].free
        /\ \A a \in DOMAIN t.at : /\ v.at[a].prev_is_free = t.at[a].prev_is_free
                                  /\ v.at[a].prev = t.at[a].prev
                                  /\ v.at[a].next_free = t.at[a].next_free
                                  /\ v.at[a].prev_free = t.at[a].prev_free
    BY ONLY <1>6 DEF Extended
  <1>8. End(v) = end
    BY ONLY <1>5, <1>7 DEF End
  <1>9. BlocksOf(t) = DOMAIN t.at \ {h} /\ BlocksOf(v) = DOMAIN t.at
    BY ONLY <1>5, <1>7, <1>8, h = End(t) DEF BlocksOf
  <1>10. block_next(v, h) = end /\ \A a \in BlocksOf(t) : block_next(v, a) = block_next(t, a)
    <2>1. block_next(v, h) = end
      BY ONLY <1>7, end = h + 1 + size DEF block_next
    <2>2. \A a \in BlocksOf(t) : block_next(v, a) = block_next(t, a)
      BY ONLY <1>7, <1>9 DEF block_next
    <2> QED BY ONLY <2>1, <2>2
  <1>11. Shape(v)
    <2>1. DOMAIN v.at \in SUBSET (0..End(v)) /\ 0 \in DOMAIN v.at /\ End(v) \in DOMAIN v.at
      <3>1. ASSUME NEW a \in DOMAIN t.at PROVE a \in 0..end
        <4>1. a \in Nat /\ a <= h
          BY ONLY <1>2, <3>1
        <4> QED BY ONLY <1>2, <1>5, <4>1
      <3> QED BY ONLY <1>2, <1>5, <1>7, <1>8, <3>1
    <2>2. \A a \in BlocksOf(v) : /\ v.at[a].size >= 3 /\ block_next(v, a) \in DOMAIN v.at
                                 /\ \A g \in DOMAIN v.at : g > a => g >= block_next(v, a)
      <3>1. /\ v.at[h].size >= 3 /\ block_next(v, h) \in DOMAIN v.at
            /\ \A g \in DOMAIN v.at : g > h => g >= block_next(v, h)
        <4>1. \A g \in DOMAIN t.at : ~(g > h)
          BY ONLY <1>2
        <4> QED BY ONLY <1>5, <1>7, <1>10, <4>1, size >= 3
      <3>2. ASSUME NEW a \in BlocksOf(t)
            PROVE  /\ v.at[a].size >= 3 /\ block_next(v, a) \in DOMAIN v.at
                   /\ \A g \in DOMAIN v.at : g > a => g >= block_next(v, a)
        <4>1. PICK m : m = block_next(t, a) /\ m = block_next(v, a)
          BY ONLY <1>10, <3>2
        <4>2. m \in DOMAIN t.at /\ v.at[a].size >= 3 /\ \A g \in DOMAIN t.at : g > a => g >= m
          BY ONLY <1>3, <1>7, <3>2, <4>1
        <4>3. end >= m
          BY ONLY <1>2, <1>5, <4>2
        <4> QED BY ONLY <1>7, <4>1, <4>2, <4>3
      <3> QED BY ONLY <1>9, <3>1, <3>2
    <2>3. \A g \in DOMAIN v.at \ {0} : \E a \in BlocksOf(v) : block_next(v, a) = g
      <3>1. SUFFICES ASSUME NEW g \in DOMAIN v.at \ {0} PROVE \E a \in BlocksOf(v) : block_next(v, a) = g
        OBVIOUS
      <3>2. CASE g = end
        BY ONLY <1>2, <1>9, <1>10, <3>2
      <3>3. CASE g # end
        <4>1. PICK a \in BlocksOf(t) : block_next(t, a) = g
          BY ONLY <1>4, <1>7, <3>1, <3>3
        <4> QED BY ONLY <1>9, <1>10, <4>1
      <3> QED BY ONLY <3>2, <3>3
    <2> QED BY ONLY <1>5, <1>7, <1>8, <2>1, <2>2, <2>3 DEF Shape
  <1>12. Tags(v, {h}, {h})
    <2>1. ~v.at[End(v)].free /\ ~v.at[0].prev_is_free
      BY ONLY <1>1, <1>2, <1>7, <1>8 DEF Tags
    <2>2. Tag(v, h, {h}, {h})
      <3>1. v.at[h].free \in BOOLEAN /\ v.at[end].prev_is_free \in BOOLEAN
        <4>1. h \in DOMAIN v.at /\ end \in DOMAIN v.at
          BY ONLY <1>2, <1>7
        <4> QED BY ONLY <1>6, <4>1, ContextIs
      <3> QED BY ONLY <1>7, <1>10, <3>1 DEF Tag
    <2>3. ASSUME NEW a \in BlocksOf(t)
          PROVE  Tag(v, a, {h}, {h})
      <3>1. PICK m : m = block_next(t, a) /\ m = block_next(v, a)
        BY ONLY <1>10, <2>3
      <3>2. m \in DOMAIN t.at /\ a \in DOMAIN t.at /\ a # h
        BY ONLY <1>3, <2>3, <3>1
      <3>3. /\ t.at[m].prev_is_free = t.at[a].free
            /\ t.at[a].free => t.at[m].prev = a
            /\ t.at[a].free => ~t.at[m].free
        <4>1. Tag(t, a, {}, {})
          BY ONLY <1>1, <2>3 DEF Tags
        <4> QED BY ONLY <3>1, <4>1 DEF Tag
      <3>4. /\ v.at[m].prev_is_free = t.at[m].prev_is_free /\ v.at[m].prev = t.at[m].prev
            /\ v.at[a].free = t.at[a].free /\ (m # h => v.at[m].free = t.at[m].free)
        BY ONLY <1>7, <3>2
      <3> QED BY ONLY <3>1, <3>2, <3>3, <3>4 DEF Tag
    <2> QED BY ONLY <1>9, <2>1, <2>2, <2>3 DEF Tags
  <1>13. h \in FreeOf(v) /\ FreeOf(v) \ {h} = FreeOf(t) \ {}
    BY ONLY <1>2, <1>7, <1>9 DEF FreeOf
  <1>14. Listing(v, FreeOf(v) \ {h})
    <2>1. SameLists(t, v, FreeOf(t) \ {})
      BY ONLY <1>7, <1>9 DEF SameLists, FreeOf
    <2> QED BY ONLY <1>1, <1>6, <1>13, <2>1, ListingKept
  <1>15. Match(v, L)
    <2>1. SameUsed(t, v)
      BY ONLY <1>7, <1>9 DEF SameUsed
    <2> QED BY ONLY <1>1, <2>1, MatchKept
  <1>16. Sound(v, {h}, {h}, L)
    BY ONLY <1>6, <1>11, <1>12, <1>14, <1>15 DEF Sound
  <1> QED BY ONLY <1>7, <1>10, <1>13, <1>16 DEF Grown, v

\* The first block of a memory that had none.
LEMMA StartSound ==
  ASSUME NEW t, Empty(t, {}), NEW size \in Nat, size >= 3, 2 + size <= MaxSize,
         NEW end, end = 1 + size
  PROVE  Grown(ExtendedWith(t, With(<< >>, 0, Header), 0, size, end), 0, size, end, {})
  <1>1. t \in Contexts /\ DOMAIN t.at = {} /\ Listing(t, {})
    BY DEF Empty
  <1>2. PICK at : at = With(<< >>, 0, Header)
    OBVIOUS
  <1>3. at \in [{0} -> Headers] /\ at[0] = Header /\ DOMAIN at = {0}
    <2>1. DOMAIN << >> = {}
      OBVIOUS
    <2>2. at = [g \in {0} |-> Header]
      BY ONLY <1>2, <2>1 DEF With
    <2> QED BY ONLY <2>2, HeaderIs
  <1>4. end \in Nat \ {0} /\ end + 1 \in 1..MaxSize /\ end # 0
    BY ONLY size \in Nat, size >= 3, 2 + size <= MaxSize, end = 1 + size, HeapAssumption
  <1> DEFINE v == ExtendedWith(t, at, 0, size, end)
  <1>5. v \in Contexts /\ Extended(t, at, 0, size, end, v)
    <2>1. {0} \in SUBSET Nat /\ 0 \in {0}
      OBVIOUS
    <2> QED BY ONLY <1>1, <1>3, <1>4, <2>1, size \in Nat, ExtendIs
  <1> HIDE DEF v
  <1>6. /\ v.block = t.block /\ v.sl = t.sl /\ v.fl = t.fl
        /\ DOMAIN v.at = {0, end} /\ v.size = end + 1
        /\ v.at[0].size = size /\ v.at[0].free /\ ~v.at[0].prev_is_free
        /\ v.at[end].size = 0 /\ ~v.at[end].free /\ v.at[end].prev_is_free
    <2>1. DOMAIN v.at = {0} \cup {end} /\ v.at[0].prev_is_free = Header.prev_is_free
      BY ONLY <1>3, <1>5 DEF Extended
    <2>2. {0} \cup {end} = {0, end}
      OBVIOUS
    <2> QED BY ONLY <1>5, <2>1, <2>2, HeaderIs DEF Extended
  <1>7. End(v) = end /\ BlocksOf(v) = {0} /\ FreeOf(v) = {0}
    <2>1. End(v) = end
      BY ONLY <1>4, <1>6 DEF End
    <2>2. BlocksOf(v) = {0}
      BY ONLY <1>4, <1>6, <2>1 DEF BlocksOf
    <2> QED BY ONLY <1>6, <2>1, <2>2 DEF FreeOf
  <1>8. block_next(v, 0) = end
    BY ONLY <1>6, size \in Nat, end = 1 + size DEF block_next
  <1>9. Shape(v)
    <2>1. 0 \in 0..end /\ end \in 0..end
      BY ONLY <1>4
    <2>2. \A g \in {0, end} : g > 0 => g >= end
      BY ONLY <1>4
    <2> QED BY ONLY <1>4, <1>6, <1>7, <1>8, <2>1, <2>2, size >= 3 DEF Shape
  <1>10. Tags(v, {0}, {0})
    <2>1. v.at[0].free \in BOOLEAN /\ v.at[end].prev_is_free \in BOOLEAN
      <3>1. 0 \in DOMAIN v.at /\ end \in DOMAIN v.at
        BY ONLY <1>6
      <3> QED BY ONLY <1>5, <3>1, ContextIs
    <2> QED BY ONLY <1>6, <1>7, <1>8, <2>1 DEF Tags, Tag
  <1>11. Listing(v, FreeOf(v) \ {0})
    <2>1. FreeOf(v) \ {0} = {}
      BY ONLY <1>7
    <2>2. SameLists(t, v, {})
      BY ONLY <1>6 DEF SameLists
    <2> QED BY ONLY <1>1, <1>5, <2>1, <2>2, ListingKept
  <1>12. Match(v, {})
    BY ONLY <1>6, <1>7 DEF Match
  <1>13. Sound(v, {0}, {0}, {})
    BY ONLY <1>5, <1>9, <1>10, <1>11, <1>12 DEF Sound
  <1> QED BY ONLY <1>2, <1>6, <1>7, <1>8, <1>13 DEF Grown, v

\* The header behind the new block is told where it is.
LEMMA LinkSound ==
  ASSUME NEW t, NEW L, NEW X, NEW h \in FreeOf(t), X \subseteq {h}, Sound(t, X, {}, L)
  PROVE  LET u == block_link_next(t, h)
         IN  /\ Sound(u, {}, {}, L) /\ h \in FreeOf(u) /\ u.size = t.size
             /\ u.at[h].size = t.at[h].size
  <1>1. t \in Contexts /\ Shape(t) /\ Tags(t, X, {}) /\ Listing(t, FreeOf(t) \ {}) /\ Match(t, L)
    BY DEF Sound
  <1>2. h \in BlocksOf(t) /\ h \in DOMAIN t.at
    BY DEF FreeOf, BlocksOf
  <1>3. PICK n : n = block_next(t, h)
    OBVIOUS
  <1>4. /\ n \in DOMAIN t.at /\ 0 \in DOMAIN t.at /\ End(t) \in DOMAIN t.at
        /\ \A a, d \in BlocksOf(t) : block_next(t, a) = block_next(t, d) => a = d
        /\ \A a \in BlocksOf(t) : block_next(t, a) \in DOMAIN t.at
    <2>1. n \in DOMAIN t.at /\ 0 \in DOMAIN t.at /\ End(t) \in DOMAIN t.at
      BY ONLY <1>1, <1>2, <1>3, ShapeFacts
    <2>2. /\ \A a, d \in BlocksOf(t) : block_next(t, a) = block_next(t, d) => a = d
          /\ \A a \in BlocksOf(t) : block_next(t, a) \in DOMAIN t.at
      BY ONLY <1>1, ShapeFacts
    <2> QED BY ONLY <2>1, <2>2
  <1>5. PICK u : u = block_link_next(t, h)
    OBVIOUS
  <1>6. u \in Contexts /\ LinkedNext(t, h, u)
    BY ONLY <1>1, <1>2, <1>3, <1>4, <1>5, LinkNextIs
  <1>7. /\ SameSizes(t, u) /\ DOMAIN u.at = DOMAIN t.at /\ u.size = t.size
        /\ u.block = t.block /\ u.sl = t.sl /\ u.fl = t.fl
        /\ u.at[n].prev = h /\ \A a \in DOMAIN t.at \ {n} : u.at[a].prev = t.at[a].prev
        /\ \A a \in DOMAIN t.at : /\ u.at[a].size = t.at[a].size /\ u.at[a].free = t.at[a].free
                                  /\ u.at[a].prev_is_free = t.at[a].prev_is_free
                                  /\ u.at[a].next_free = t.at[a].next_free
                                  /\ u.at[a].prev_free = t.at[a].prev_free
    BY ONLY <1>3, <1>6 DEF LinkedNext, SameLinks, SameSizes, SameFlags
  <1>8. /\ Shape(u) /\ End(u) = End(t) /\ BlocksOf(u) = BlocksOf(t)
        /\ \A a \in DOMAIN t.at : block_next(u, a) = block_next(t, a)
    BY ONLY <1>1, <1>6, <1>7, ShapeKept
  <1>9. BlocksOf(t) \in SUBSET DOMAIN t.at
    BY DEF BlocksOf
  <1>10. FreeOf(u) = FreeOf(t)
    BY ONLY <1>7, <1>8, <1>9 DEF FreeOf
  <1>11. Tags(u, {}, {})
    <2>1. ~u.at[End(u)].free /\ ~u.at[0].prev_is_free
      BY ONLY <1>1, <1>4, <1>7, <1>8 DEF Tags
    <2>2. ASSUME NEW a \in BlocksOf(t)
          PROVE  Tag(u, a, {}, {})
      <3>1. PICK m : m = block_next(t, a) /\ m = block_next(u, a)
        BY ONLY <1>8, <1>9, <2>2
      <3>2. m \in DOMAIN t.at /\ a \in DOMAIN t.at
        BY ONLY <1>4, <1>9, <2>2, <3>1
      <3>3. /\ t.at[m].prev_is_free = t.at[a].free
            /\ t.at[a].free /\ a \notin X => t.at[m].prev = a
            /\ t.at[a].free => ~t.at[m].free
        <4>1. Tag(t, a, X, {})
          BY ONLY <1>1, <2>2 DEF Tags
        <4> QED BY ONLY <3>1, <4>1 DEF Tag
      <3>4. t.at[a].free => u.at[m].prev = a
        <4>1. CASE a = h
          BY ONLY <1>3, <1>7, <3>1, <4>1
        <4>2. CASE a # h
          <5>1. m # n /\ a \notin X
            BY ONLY <1>2, <1>3, <1>4, <2>2, <3>1, <4>2, X \subseteq {h}
          <5> QED BY ONLY <1>7, <3>2, <3>3, <5>1
        <4> QED BY ONLY <4>1, <4>2
      <3>5. u.at[m].prev_is_free = u.at[a].free /\ (u.at[a].free => ~u.at[m].free /\ u.at[m].prev = a)
        BY ONLY <1>7, <3>2, <3>3, <3>4
      <3> QED BY ONLY <3>1, <3>5 DEF Tag
    <2> QED BY ONLY <1>8, <2>1, <2>2 DEF Tags
  <1>12. Listing(u, FreeOf(u) \ {})
    <2>1. SameLists(t, u, FreeOf(t) \ {})
      BY ONLY <1>7, <1>9 DEF SameLists, FreeOf
    <2> QED BY ONLY <1>1, <1>6, <1>10, <2>1, ListingKept
  <1>13. Match(u, L)
    <2>1. SameUsed(t, u)
      BY ONLY <1>7, <1>8, <1>9 DEF SameUsed
    <2> QED BY ONLY <1>1, <2>1, MatchKept
  <1>14. Sound(u, {}, {}, L)
    BY ONLY <1>6, <1>8, <1>11, <1>12, <1>13 DEF Sound
  <1> QED BY ONLY <1>2, <1>5, <1>7, <1>10, <1>14, h \in FreeOf(t)


\* The new block after the merge with the one before it, in its list and linked.
LEMMA GrownListed ==
  ASSUME HeapBounds, NEW v, NEW h, NEW size \in Nat, NEW end, NEW L, Grown(v, h, size, end, L),
         NEW block, block = MergedPrev(v, h)
  PROVE  LET u == block_link_next(block_insert(block_merge_prev(v, h), block), block)
         IN  /\ Sound(u, {}, {}, L) /\ block \in FreeOf(u) /\ size <= u.at[block].size
             /\ u.size = v.size
  <1>1. /\ Sound(v, {h}, {h}, L) /\ h \in FreeOf(v) /\ v.at[h].size = size
        /\ block_next(v, h) = end /\ ~v.at[end].free
    BY DEF Grown
  <1>2. PICK w : w = block_merge_prev(v, h)
    OBVIOUS
  <1>3. PICK X : X = IF v.at[h].prev_is_free THEN {} ELSE {h}
    OBVIOUS
  <1>4. Sound(w, X, {block}, L) /\ MergedInto(v, h, block, w)
    <2>1. PICK Z : Z = {h}
      OBVIOUS
    <2>2. /\ Sound(w, IF v.at[h].prev_is_free THEN {} ELSE Z, {block}, L)
          /\ MergedInto(v, h, block, w)
      BY ONLY <1>1, <1>2, <2>1, block = MergedPrev(v, h), MergePrevSound
    <2> QED BY ONLY <1>3, <2>1, <2>2
  <1>5. X \subseteq {block}
    BY ONLY <1>3, block = MergedPrev(v, h) DEF MergedPrev
  <1>6. /\ block \in FreeOf(w) /\ ~w.at[block].prev_is_free /\ w.size = v.size
        /\ size <= w.at[block].size /\ ~w.at[block_next(w, block)].free
    BY ONLY <1>1, <1>4 DEF MergedInto
  <1>7. PICK x : x = block_insert(w, block)
    OBVIOUS
  <1>8. Sound(x, X, {}, L) /\ SameRow(w, x)
    BY ONLY HeapBounds, <1>4, <1>6, <1>7, InsertAlone
  <1>9. block \in FreeOf(x) /\ x.at[block].size = w.at[block].size /\ x.size = w.size
    <2>1. block \in BlocksOf(w) /\ w.at[block].free /\ block \in DOMAIN w.at
      BY ONLY <1>6 DEF FreeOf, BlocksOf
    <2> QED BY ONLY <1>8, <2>1 DEF SameRow, SameSizes, SameFlags, FreeOf, BlocksOf, End
  <1>10. PICK u : u = block_link_next(x, block)
    OBVIOUS
  <1>11. /\ Sound(u, {}, {}, L) /\ block \in FreeOf(u) /\ u.size = x.size
         /\ u.at[block].size = x.at[block].size
    BY ONLY <1>5, <1>8, <1>9, <1>10, LinkSound
  <1> QED BY ONLY <1>2, <1>6, <1>7, <1>9, <1>10, <1>11

LEMMA GrowSound ==
  ASSUME HeapBounds, NEW t, NEW L, Settled(t, L), NEW size \in Nat, size >= 3, GrownSize(t, size) <= MaxSize
  PROVE  LET u == arena_grow(t, size)
         IN  /\ Sound(u, {}, {}, L) /\ u.size = GrownSize(t, size)
             /\ \E block \in FreeOf(u) : size <= u.at[block].size
  <1> DEFINE h == IF t.size = 0 THEN 0 ELSE t.size - 1
             end == GrownSize(t, size) - 1
             at == IF t.size = 0 THEN With(<< >>, 0, Header) ELSE t.at
  <1>1. PICK v : v = ExtendedWith(t, at, h, size, end)
    OBVIOUS
  <1>2. PICK block : block = MergedPrev(v, h)
    OBVIOUS
  <1>3. arena_grow(t, size) = block_link_next(block_insert(block_merge_prev(v, h), block), block)
    BY ONLY <1>1, <1>2 DEF arena_grow, ExtendedWith
  <1>4. Grown(v, h, size, end, L) /\ end + 1 = GrownSize(t, size)
    <2>1. CASE Empty(t, L)
      <3>1. L = {} /\ t.size = 0
        BY ONLY <2>1 DEF Empty
      <3>2. PICK e : e = end
        OBVIOUS
      <3>3. h = 0 /\ e = 1 + size /\ 2 + size <= MaxSize /\ at = With(<< >>, 0, Header)
            /\ e + 1 = GrownSize(t, size)
        BY ONLY <3>1, <3>2, size \in Nat, GrownSize(t, size) <= MaxSize DEF GrownSize
      <3>4. Empty(t, {})
        BY ONLY <2>1, <3>1
      <3>5. v = ExtendedWith(t, With(<< >>, 0, Header), 0, size, e)
        BY ONLY <1>1, <3>2, <3>3
      <3>6. Grown(v, 0, size, e, {})
        BY ONLY <3>3, <3>4, <3>5, size \in Nat, size >= 3, StartSound
      <3> HIDE DEF h, end, at
      <3> QED BY ONLY <3>1, <3>2, <3>3, <3>6
    <2>2. CASE Sound(t, {}, {}, L)
      <3>1. t.size \in Nat /\ t.size # 0
        <4>1. t \in Contexts /\ t.size \in 1..MaxSize
          BY ONLY <2>2 DEF Sound, Shape
        <4> QED BY ONLY <4>1, HeapAssumption
      <3>2. PICK e : e = end
        OBVIOUS
      <3>3. /\ h = End(t) /\ e = h + 1 + size /\ t.size + 1 + size <= MaxSize /\ at = t.at
            /\ e + 1 = GrownSize(t, size)
        BY ONLY <3>1, <3>2, size \in Nat, GrownSize(t, size) <= MaxSize DEF GrownSize, End
      <3>4. v = ExtendedWith(t, t.at, h, size, e)
        BY ONLY <1>1, <3>2, <3>3
      <3>5. Grown(v, h, size, e, L)
        <4> HIDE DEF h, end, at
        <4> QED BY ONLY <2>2, <3>3, <3>4, size \in Nat, size >= 3, ExtendSound
      <3> HIDE DEF h, end, at
      <3> QED BY ONLY <3>2, <3>3, <3>5
    <2> QED BY ONLY <2>1, <2>2, Settled(t, L) DEF Settled
  <1> HIDE DEF h, end, at
  <1>5. v.size = GrownSize(t, size)
    BY ONLY <1>4 DEF Grown
  <1>6. PICK u : u = block_link_next(block_insert(block_merge_prev(v, h), block), block)
    OBVIOUS
  <1>7. /\ Sound(u, {}, {}, L) /\ block \in FreeOf(u) /\ size <= u.at[block].size
        /\ u.size = v.size
    BY ONLY HeapBounds, <1>2, <1>4, <1>6, size \in Nat, GrownListed
  <1> QED BY ONLY <1>3, <1>5, <1>6, <1>7

-----------------------------------------------------------------------------
(* The invariant                                                           *)

IInv == Settled(context, live)

LEMMA NewBlock ==
  ASSUME NEW t, NEW L, Sound(t, {}, {}, L), NEW h \in FreeOf(t), NEW words
  PROVE  [ptr |-> h + 1, len |-> words] \notin L
  <1>1. t \in Contexts /\ Shape(t) /\ Match(t, L) /\ h \in BlocksOf(t) /\ t.at[h].free
    BY DEF Sound, FreeOf
  <1>2. h \in Nat
    BY ONLY <1>1, ShapeFacts
  <1>3. PICK b : b = [ptr |-> h + 1, len |-> words]
    OBVIOUS
  <1>4. b.ptr - 1 = h
    BY ONLY <1>2, <1>3
  <1>5. b \notin L
    BY ONLY <1>1, <1>4 DEF Match
  <1> QED BY ONLY <1>3, <1>5

\* What g_malloc does with memory that has a suitable block.
LEMMA UseServes ==
  ASSUME HeapBounds, NEW t, NEW words \in Requests, Sound(t, {}, {}, live), NEW c,
         c = block_find_suitable(t, mapping(round_block_size(adjust_size(words)))), c # << >>,
         Use(t, c, words)
  PROVE  /\ Sound(context', {}, {}, live') /\ context'.size = t.size
         /\ \E b : live' = live \cup {b} /\ b \notin live /\ b.len = words
  <1>1. c \in t.sl /\ adjust_size(words) <= t.at[t.block[c]].size
    BY ONLY HeapBounds, words \in Requests, Sound(t, {}, {}, live), c # << >>,
            c = block_find_suitable(t, mapping(round_block_size(adjust_size(words)))), FoundServes
  <1>2. PICK h : h = t.block[c]
    OBVIOUS
  <1>3. PICK size : size = adjust_size(words)
    OBVIOUS
  <1>4. size \in Nat /\ size >= 3 /\ words \in Nat /\ words <= size /\ size <= t.at[h].size
    BY ONLY HeapBounds, words \in Requests, <1>1, <1>2, <1>3, RequestIs
  <1>5. PICK u : u = block_use(remove_free_block(t, h, c), h, size)
    OBVIOUS
  <1>6. Sound(u, {}, {}, live \cup {[ptr |-> h + 1, len |-> words]}) /\ u.size = t.size
    BY ONLY HeapBounds, Sound(t, {}, {}, live), <1>1, <1>2, <1>4, <1>5, TakeSound
  <1>7. context' = u /\ live' = live \cup {[ptr |-> h + 1, len |-> words]}
    BY ONLY <1>2, <1>3, <1>5, Use(t, c, words) DEF Use
  <1>8. h \in FreeOf(t)
    BY ONLY <1>1, <1>2, Sound(t, {}, {}, live), HeadIs
  <1>9. PICK b : b = [ptr |-> h + 1, len |-> words]
    OBVIOUS
  <1>10. b \notin live /\ b.len = words
    BY ONLY <1>8, <1>9, Sound(t, {}, {}, live), NewBlock
  <1> QED BY ONLY <1>2, <1>6, <1>7, <1>9, <1>10

LEMMA EmptyContextIs ==
  ASSUME HeapBounds
  PROVE  Empty(EmptyContext, {})
  <1> DEFINE t == EmptyContext
  <1>1. /\ t.block = [c \in Classes |-> NULL] /\ t.sl = {} /\ t.fl = {} /\ t.size = 0
        /\ t.at = << >>
    BY DEF EmptyContext
  <1>2. DOMAIN << >> = {} /\ << >> \in [{} -> Headers]
    OBVIOUS
  <1>3. << >> \in Ats
    BY ONLY <1>2, InAts
  <1>4. t \in Contexts
    <2>1. PICK none \in Ats : none = << >>
      BY ONLY <1>3
    <2>2. t = [block |-> [c \in Classes |-> NULL], sl |-> {}, fl |-> {}, size |-> 0, at |-> none]
      BY ONLY <2>1 DEF EmptyContext
    <2> HIDE DEF t
    <2> QED BY ONLY <2>1, <2>2 DEF Contexts, NULL
  <1> HIDE DEF t
  <1>5. Linkable({}, NextFree(t), PrevFree(t), t.block, ClassOf(t))
    <2>1. [n \in Nat |-> 0] \in [Nat -> Int]
      OBVIOUS
    <2>2. \A c \in Classes : t.block[c] = NULL
      BY ONLY <1>1
    <2>3. Linked({}, NextFree(t), PrevFree(t), t.block, ClassOf(t), [n \in Nat |-> 0])
      BY ONLY <2>2 DEF Linked
    <2> QED BY ONLY <2>1, <2>3 DEF Linkable
  <1>6. Listing(t, {})
    <2>1. t.sl = {c \in Classes : t.block[c] # NULL}
      BY ONLY <1>1
    <2>2. t.fl = {c[1] : c \in t.sl}
      BY ONLY <1>1
    <2> QED BY ONLY <1>5, <2>1, <2>2, FS_EmptySet DEF Listing
  <1>7. DOMAIN t.at = {}
    BY ONLY <1>1, <1>2
  <1> QED BY ONLY <1>1, <1>4, <1>6, <1>7 DEF Empty, t

\* A used block is between a block that is alone and the next free one.
LEMMA FreeStep ==
  ASSUME HeapBounds, IInv, NEW b \in live, Free(b)
  PROVE  Sound(context', {}, {}, live') /\ live' # {} /\ context'.size <= context.size
  <1>1. Sound(context, {}, {}, live)
    BY DEF IInv, Settled, Empty
  <1>2. PICK h : h = MergedPrev(Freed(b.ptr - 1), b.ptr - 1)
    OBVIOUS
  <1>3. PICK t : t = Merged(b.ptr - 1)
    OBVIOUS
  <1>4. PICK L : L = live \ {b}
    OBVIOUS
  <1>5. Alone(t, h, L) /\ t.size = context.size
    BY ONLY <1>1, <1>2, <1>3, <1>4, b \in live, FreedAlone
  <1>6. ~IsLast(t, h) /\ context' = block_insert(t, h) /\ live' = L
    BY ONLY <1>2, <1>3, <1>4, Free(b) DEF Free
  <1>7. /\ Sound(t, {}, {h}, L) /\ h \in FreeOf(t)
        /\ ~t.at[h].prev_is_free /\ ~t.at[block_next(t, h)].free
    BY ONLY <1>5 DEF Alone
  <1>8. PICK u : u = block_insert(t, h)
    OBVIOUS
  <1>9. Sound(u, {}, {}, L) /\ SameRow(t, u)
    <2>1. PICK X : X = {}
      OBVIOUS
    <2>2. Sound(u, X, {}, L) /\ SameRow(t, u)
      BY ONLY HeapBounds, <1>7, <1>8, <2>1, InsertAlone
    <2> QED BY ONLY <2>1, <2>2
  <1>10. L # {}
    <2>1. t \in Contexts /\ Shape(t) /\ Match(t, L) /\ h \in BlocksOf(t)
      BY ONLY <1>7 DEF Sound, FreeOf
    <2>2. block_next(t, h) # End(t) /\ block_next(t, h) \in DOMAIN t.at
      BY ONLY <1>6, <2>1, LastIs, ShapeFacts
    <2>3. block_next(t, h) \in BlocksOf(t)
      BY ONLY <2>2 DEF BlocksOf
    <2> QED BY ONLY <1>7, <2>1, <2>3 DEF Match
  <1>11. u.size = t.size /\ t.size \in Nat
    <2>1. t \in Contexts
      BY ONLY <1>7 DEF Sound
    <2>2. t.size \in Nat
      BY ONLY <2>1, ContextIs
    <2> QED BY ONLY <1>9, <2>2 DEF SameRow, SameSizes
  <1> QED BY ONLY <1>5, <1>6, <1>8, <1>9, <1>10, <1>11

LEMMA ShrinkStep ==
  ASSUME HeapBounds, IInv, NEW b \in live, FreeShrinks(b)
  PROVE  Settled(context', live') /\ context'.size <= context.size
  <1>1. Sound(context, {}, {}, live)
    BY DEF IInv, Settled, Empty
  <1>2. PICK h : h = MergedPrev(Freed(b.ptr - 1), b.ptr - 1)
    OBVIOUS
  <1>3. PICK t : t = Merged(b.ptr - 1)
    OBVIOUS
  <1>4. PICK L : L = live \ {b}
    OBVIOUS
  <1>5. Alone(t, h, L) /\ t.size = context.size
    BY ONLY <1>1, <1>2, <1>3, <1>4, b \in live, FreedAlone
  <1>6. IsLast(t, h) /\ context' = arena_shrink(t, h) /\ live' = L
    BY ONLY <1>2, <1>3, <1>4, FreeShrinks(b) DEF FreeShrinks
  <1>7. Settled(arena_shrink(t, h), L) /\ arena_shrink(t, h).size <= t.size
    BY ONLY <1>5, <1>6, ShrinkSound
  <1> QED BY ONLY <1>5, <1>6, <1>7

LEMMA FindStep ==
  ASSUME HeapBounds, IInv, NEW words \in Requests, MallocFinds(words)
  PROVE  /\ Sound(context', {}, {}, live') /\ live' # {} /\ context'.size = context.size
         /\ \E b : live' = live \cup {b} /\ b \notin live
  <1>1. PICK c : c = block_find_suitable(context, mapping(round_block_size(adjust_size(words))))
    OBVIOUS
  <1>2. c # << >> /\ Use(context, c, words)
    BY ONLY <1>1, MallocFinds(words) DEF MallocFinds
  <1>3. CASE Sound(context, {}, {}, live)
    <2>1. /\ Sound(context', {}, {}, live') /\ context'.size = context.size
          /\ \E b : live' = live \cup {b} /\ b \notin live
      BY ONLY HeapBounds, words \in Requests, <1>1, <1>2, <1>3, UseServes
    <2> QED BY ONLY <2>1
  <1>4. CASE Empty(context, live)
    <2>1. context.sl = {} /\ context.fl = {}
      <3>1. Listing(context, {})
        BY ONLY <1>4 DEF Empty
      <3>2. \A d \in Classes : context.block[d] = NULL
        BY ONLY <3>1 DEF Listing, Linkable, Linked
      <3> QED BY ONLY <3>1, <3>2 DEF Listing
    <2>2. c = << >>
      BY ONLY <1>1, <2>1 DEF block_find_suitable
    <2> QED BY ONLY <1>2, <2>2
  <1> QED BY ONLY <1>3, <1>4, IInv DEF IInv, Settled

LEMMA GrowStep ==
  ASSUME HeapBounds, IInv, NEW words \in Requests, MallocGrows(words)
  PROVE  /\ Sound(context', {}, {}, live') /\ live' # {}
         /\ block_find_suitable(context, mapping(round_block_size(adjust_size(words)))) = << >>
         /\ \E b : live' = live \cup {b} /\ b \notin live /\ b.len = words
         /\ context.size <= context'.size
  <1>1. PICK size : size = round_block_size(adjust_size(words))
    OBVIOUS
  <1>2. PICK t : t = arena_grow(context, size)
    OBVIOUS
  <1>3. PICK c : c = block_find_suitable(t, mapping(size))
    OBVIOUS
  <1>4. /\ block_find_suitable(context, mapping(size)) = << >>
        /\ GrownSize(context, size) <= MaxSize /\ Use(t, c, words)
    BY ONLY <1>1, <1>2, <1>3, MallocGrows(words) DEF MallocGrows
  <1>5. size \in Nat /\ size >= 3
    <2>1. adjust_size(words) \in Nat /\ adjust_size(words) >= 3 /\ adjust_size(words) <= size /\ size \in Nat
      BY ONLY HeapBounds, words \in Requests, <1>1, RequestIs
    <2> QED BY ONLY <2>1
  <1>6. /\ Sound(t, {}, {}, live) /\ t.size = GrownSize(context, size)
        /\ \E block \in FreeOf(t) : size <= t.at[block].size
    <2>1. Settled(context, live)
      BY ONLY IInv DEF IInv
    <2> QED BY ONLY HeapBounds, <1>2, <1>4, <1>5, <2>1, GrowSound
  <1>7. PICK block \in FreeOf(t) : round_block_size(adjust_size(words)) <= t.at[block].size
    BY ONLY <1>1, <1>6
  <1>8. c # << >>
    <2>1. block_find_suitable(t, mapping(round_block_size(adjust_size(words)))) # << >>
      BY ONLY HeapBounds, words \in Requests, <1>6, <1>7, FindsLarge
    <2> QED BY ONLY <1>1, <1>3, <2>1
  <1>9. c = block_find_suitable(t, mapping(round_block_size(adjust_size(words))))
    BY ONLY <1>1, <1>3
  <1>10. /\ Sound(context', {}, {}, live') /\ context'.size = t.size
         /\ \E b : live' = live \cup {b} /\ b \notin live /\ b.len = words
    BY ONLY HeapBounds, words \in Requests, <1>4, <1>6, <1>8, <1>9, UseServes
  <1>11. context.size <= context'.size
    <2>1. context.size \in Nat
      <3>1. context \in Contexts
        BY ONLY IInv DEF IInv, Settled, Empty, Sound
      <3> QED BY ONLY <3>1, ContextIs
    <2> QED BY ONLY <1>5, <1>6, <1>10, <2>1 DEF GrownSize
  <1> QED BY ONLY <1>1, <1>4, <1>10, <1>11

\* Every step of the heap keeps the invariant.
LEMMA Invariance ==
  ASSUME HeapBounds
  PROVE  Spec => []IInv
  <1> USE HeapBounds
  <1>1. Init => IInv
    BY EmptyContextIs DEF Init, IInv, Settled
  <1>2. IInv /\ [Next]_vars => IInv'
    <2> SUFFICES ASSUME IInv, [Next]_vars PROVE Settled(context', live')
      BY DEF IInv
    <2>1. CASE Release
      BY <2>1, EmptyContextIs DEF Release, Settled
    <2>2. ASSUME NEW words \in Requests, MallocFinds(words) PROVE Settled(context', live')
      BY <2>2, FindStep DEF Settled
    <2>3. ASSUME NEW words \in Requests, MallocGrows(words) PROVE Settled(context', live')
      BY <2>3, GrowStep DEF Settled
    <2>4. ASSUME NEW b \in live, Free(b) PROVE Settled(context', live')
      BY <2>4, FreeStep DEF Settled
    <2>5. ASSUME NEW b \in live, FreeShrinks(b) PROVE Settled(context', live')
      BY <2>5, ShrinkStep
    <2>6. CASE UNCHANGED vars
      <3>1. context' = context /\ live' = live
        BY ONLY <2>6 DEF vars
      <3> QED BY ONLY <3>1, IInv DEF IInv
    <2> QED BY ONLY <2>1, <2>2, <2>3, <2>4, <2>5, <2>6, [Next]_vars DEF Next
  <1> QED BY <1>1, <1>2, PTL DEF Spec


-----------------------------------------------------------------------------
(* The lists as they are walked                                            *)

\* The walk from the head of a list meets all its blocks and no others.
LEMMA ListedIs ==
  ASSUME context \in Contexts, NEW F, Listing(context, F), IsFiniteSet(Blocks), F \subseteq Blocks,
         NEW c \in Classes
  PROVE  /\ Listed(c) = {h \in F : mapping(context.at[h].size) = c}
         /\ context.block[c] # NULL => context.at[context.block[c]].prev_free = NULL
         /\ \A h \in F : context.at[h].next_free # NULL =>
                           context.at[context.at[h].next_free].prev_free = h
  <1> DEFINE next == NextFree(context)
             prev == PrevFree(context)
             C    == ClassOf(context)
             head == context.block[c]
             In   == {h \in F : C[h] = c}
             onward == [hs \in SUBSET Int |->
                          hs \cup ({context.at[h].next_free : h \in hs} \ {NULL})]
             start == {head} \ {NULL}
             reached == StatesOf(onward, start)
  <1>1. PICK rank \in [Nat -> Int] : Linked(F, next, prev, context.block, C, rank)
    BY DEF Listing, Linkable
  <1>2. F \in SUBSET DOMAIN context.at /\ F \in SUBSET Nat /\ IsFiniteSet(F)
    <2>1. F \in SUBSET DOMAIN context.at /\ IsFiniteSet(F)
      BY DEF Listing
    <2>2. DOMAIN context.at \in SUBSET Nat
      BY ContextIs
    <2> QED BY ONLY <2>1, <2>2
  <1>3. \A h \in F : /\ next[h] = context.at[h].next_free /\ prev[h] = context.at[h].prev_free
                     /\ C[h] = mapping(context.at[h].size)
    BY ONLY <1>2 DEF NextFree, PrevFree, ClassOf
  <1> HIDE DEF next, prev, C
  <1>4. \A n \in F : NodeLinked(F, next, prev, context.block, C, rank, n)
    BY ONLY <1>1 DEF Linked
  <1>5. head # NULL => head \in In /\ prev[head] = NULL
    BY ONLY <1>1, c \in Classes DEF Linked
  <1>6. \A n \in In : next[n] # NULL => next[n] \in In
    BY ONLY <1>4 DEF NodeLinked
  <1>7. \A n \in In : n # head => \E p \in In : next[p] = n /\ rank[n] < rank[p]
    <2>1. SUFFICES ASSUME NEW n \in In, n # head
                   PROVE  \E p \in In : next[p] = n /\ rank[n] < rank[p]
      OBVIOUS
    <2>2. n \in F /\ C[n] = c /\ NodeLinked(F, next, prev, context.block, C, rank, n)
      BY ONLY <1>4, <2>1
    <2>3. PICK p : p = prev[n]
      OBVIOUS
    <2>4. p \in F /\ C[p] = c /\ next[p] = n
      BY ONLY <2>1, <2>2, <2>3 DEF NodeLinked
    <2>5. n # NULL
      BY ONLY <1>2, <2>2 DEF NULL
    <2>6. rank[n] < rank[p]
      BY ONLY <1>4, <2>4, <2>5 DEF NodeLinked
    <2> QED BY ONLY <2>4, <2>6
  <1>8. In # {} => head # NULL
    <2>1. ASSUME NEW n \in In PROVE head # NULL
      <3>1. n \in F /\ mapping(context.at[n].size) = c
        BY ONLY <1>3, <2>1
      <3>2. context.block[mapping(context.at[n].size)] # NULL
        BY ONLY <3>1, context \in Contexts, Listing(context, F), ListingFacts
      <3> QED BY ONLY <3>1, <3>2
    <2> QED BY <2>1
  <1>9. In \in SUBSET F /\ In \in SUBSET Int /\ IsFiniteSet(In)
    <2>1. In \in SUBSET F /\ In \in SUBSET Int
      BY ONLY <1>2
    <2> QED BY ONLY <1>2, <2>1, FS_Subset
  <1>10. \A S \in SUBSET In : onward[S] = S \cup ({next[n] : n \in S} \ {NULL})
    BY ONLY <1>3, <1>9
  <1>11. \A S \in SUBSET In : onward[S] \in SUBSET In
    <2>1. ASSUME NEW S \in SUBSET In
          PROVE  S \cup ({next[n] : n \in S} \ {NULL}) \in SUBSET In
      <3> HIDE DEF In
      <3> QED BY ONLY <1>6, <2>1
    <2> HIDE DEF onward, In
    <2> QED BY ONLY <1>10, <2>1
  <1>12. start \in SUBSET In
    BY ONLY <1>5
  <1>13. /\ reached \in [Nat -> SUBSET In] /\ reached[0] = start
         /\ \A k \in Nat : reached[k + 1] = onward[reached[k]]
    <2> DEFINE Sets == SUBSET In
    <2>1. start \in Sets /\ \A s \in Sets : onward[s] \in Sets
      BY ONLY <1>11, <1>12
    <2> HIDE DEF onward, start, Sets
    <2>2. Loops(StatesOf(onward, start), Sets, onward, start)
      BY ONLY <2>1, StatesOfLoop
    <2> QED BY ONLY <2>2 DEF Sets, Loops
  <1>14. Listed(c) = reached[Cardinality(Blocks)]
    BY ONLY Zenon DEF Listed
  <1> HIDE DEF reached, onward, In, head, start
  <1> DEFINE Above(n) == {m \in In : rank[n] < rank[m]}
             Deep == {k \in Nat : \A n \in In : Cardinality(Above(n)) <= k => n \in reached[k]}
  <1>15. \A n \in In : IsFiniteSet(Above(n)) /\ Cardinality(Above(n)) \in Nat
    <2>1. \A n \in In : Above(n) \in SUBSET In
      OBVIOUS
    <2> HIDE DEF Above
    <2> QED BY ONLY <1>9, <2>1, FS_Subset, FS_CardinalityType
  <1>16. ASSUME NEW n \in In, n # head
         PROVE  \E p \in In : next[p] = n /\ Cardinality(Above(p)) < Cardinality(Above(n))
    <2>1. PICK p \in In : next[p] = n /\ rank[n] < rank[p]
      BY ONLY <1>7, <1>16
    <2>2. \A m \in In : rank[m] \in Int
      BY ONLY <1>2, <1>9, rank \in [Nat -> Int]
    <2>3. Above(p) \in SUBSET Above(n)
      <3>1. ASSUME NEW m \in In, rank[p] < rank[m] PROVE rank[n] < rank[m]
        <4>1. rank[p] \in Int /\ rank[m] \in Int /\ rank[n] \in Int
          BY ONLY <2>2, <1>16, <3>1, p \in In
        <4> QED BY ONLY <2>1, <3>1, <4>1
      <3> QED BY ONLY <3>1
    <2>4. p \in Above(n) /\ p \notin Above(p)
      <3>1. rank[p] \in Int
        BY ONLY <2>2, p \in In
      <3> QED BY ONLY <2>1, <3>1, p \in In
    <2> HIDE DEF Above
    <2>5. IsFiniteSet(Above(n)) /\ Cardinality(Above(n)) \in Nat /\ Cardinality(Above(p)) \in Nat
      BY ONLY <1>15, <1>16, p \in In
    <2>6. Cardinality(Above(p)) <= Cardinality(Above(n)) /\ Cardinality(Above(p)) # Cardinality(Above(n))
      BY ONLY <2>3, <2>4, <2>5, FS_Subset
    <2> QED BY ONLY <2>1, <2>5, <2>6, p \in In
  <1> HIDE DEF Above
  <1>17. 0 \in Deep
    <2>1. ASSUME NEW n \in In, Cardinality(Above(n)) <= 0 PROVE n = head
      BY ONLY <1>15, <1>16, <2>1
    <2>2. In # {} => head \in reached[0]
      BY ONLY <1>8, <1>13 DEF start
    <2> QED BY ONLY <2>1, <2>2
  <1>18. ASSUME NEW k \in Nat, k \in Deep PROVE k + 1 \in Deep
    <2>1. ASSUME NEW i \in Nat
          PROVE  /\ reached[i] \in SUBSET In
                 /\ reached[i + 1] = reached[i] \cup ({next[n] : n \in reached[i]} \ {NULL})
      BY ONLY <1>10, <1>13, <2>1
    <2>2. In # {} => head \in reached[k]
      <3> DEFINE Has == {i \in Nat : In # {} => head \in reached[i]}
      <3>1. 0 \in Has
        BY ONLY <1>8, <1>13 DEF start
      <3>2. ASSUME NEW i \in Nat, i \in Has PROVE i + 1 \in Has
        BY ONLY <2>1, <3>2
      <3>3. Nat \subseteq Has
        <4> HIDE DEF Has
        <4> QED BY <3>1, <3>2, NatSetInduction
      <3> QED BY <3>3
    <2>3. ASSUME NEW n \in In, Cardinality(Above(n)) <= k + 1 PROVE n \in reached[k + 1]
      <3>1. CASE n = head
        BY ONLY <2>1, <2>2, <2>3, <3>1, k \in Nat
      <3>2. CASE n # head
        <4>1. PICK p \in In : next[p] = n /\ Cardinality(Above(p)) < Cardinality(Above(n))
          BY ONLY <1>16, <2>3, <3>2
        <4>2. Cardinality(Above(p)) \in Nat /\ Cardinality(Above(n)) \in Nat
          BY ONLY <1>15, <2>3, p \in In
        <4>3. Cardinality(Above(p)) <= k
          BY ONLY <2>3, <4>1, <4>2, k \in Nat
        <4>4. p \in reached[k]
          BY ONLY <1>18, <4>3, p \in In
        <4>5. n # NULL
          <5>1. n \in Nat
            BY ONLY <1>2, <1>9, <2>3
          <5> QED BY ONLY <5>1 DEF NULL
        <4> QED BY ONLY <2>1, <4>1, <4>4, <4>5, k \in Nat
      <3> QED BY ONLY <3>1, <3>2
    <2> QED BY ONLY <2>3, k \in Nat
  <1>19. \A k \in Nat : k \in Deep
    <2>1. Nat \subseteq Deep
      <3> HIDE DEF Deep
      <3> QED BY <1>17, <1>18, NatSetInduction
    <2> QED BY ONLY <2>1
  <1>20. PICK size \in Nat : size = Cardinality(Blocks)
    BY FS_CardinalityType
  <1>21. ASSUME NEW n \in In PROVE Cardinality(Above(n)) <= size
    <2>1. Above(n) \in SUBSET Blocks
      BY ONLY <1>9, F \subseteq Blocks DEF Above
    <2> QED BY ONLY <1>20, <2>1, IsFiniteSet(Blocks), FS_Subset
  <1>22. reached[size] = In
    <2>1. reached[size] \in SUBSET In
      BY ONLY <1>13, size \in Nat
    <2>2. \A n \in In : n \in reached[size]
      BY ONLY <1>19, <1>21, size \in Nat
    <2> QED BY ONLY <2>1, <2>2
  <1>23. Listed(c) = {h \in F : mapping(context.at[h].size) = c}
    BY ONLY <1>3, <1>14, <1>20, <1>22 DEF In
  <1>24. context.block[c] # NULL => context.at[context.block[c]].prev_free = NULL
    BY ONLY <1>3, <1>5, <1>9 DEF head
  <1>25. \A h \in F : context.at[h].next_free # NULL =>
                        context.at[context.at[h].next_free].prev_free = h
    <2>1. \A h \in F : next[h] # NULL => next[h] \in F /\ prev[next[h]] = h
      BY ONLY <1>4 DEF NodeLinked
    <2> QED BY ONLY <1>3, <2>1
  <1> QED BY ONLY <1>23, <1>24, <1>25


-----------------------------------------------------------------------------
(* Theorems                                                                *)

LEMMA TagsOf ==
  ASSUME Sound(context, {}, {}, live)
  PROVE  BoundaryTags
  <1>1. context \in Contexts /\ Shape(context) /\ Tags(context, {}, {}) /\ Match(context, live)
    BY DEF Sound
  <1>2. Sentinel = End(context) /\ Blocks = BlocksOf(context) /\ FreeBlocks = FreeOf(context)
    BY ONLY Zenon DEF Sentinel, Blocks, FreeBlocks, End, BlocksOf, FreeOf
  <1>3. context.size \in Nat /\ context.size > 0
    BY ONLY <1>1, HeapAssumption DEF Shape
  <1>4. /\ 0 \in DOMAIN context.at /\ Sentinel \in DOMAIN context.at
        /\ context.at[Sentinel].size = 0 /\ ~context.at[Sentinel].free
        /\ ~context.at[0].prev_is_free
    BY ONLY <1>1, <1>2 DEF Shape, Tags
  <1>5. ASSUME NEW h \in Blocks, NEW next, next = block_next(context, h)
        PROVE  /\ context.at[h].size >= BLOCK_SIZE_MIN
               /\ next \in DOMAIN context.at
               /\ \A g \in DOMAIN context.at : g > h => g >= next
               /\ context.at[next].prev_is_free <=> context.at[h].free
               /\ context.at[h].free => context.at[next].prev = h /\ ~context.at[next].free
    <2>1. /\ context.at[h].size >= 3 /\ next \in DOMAIN context.at
          /\ \A g \in DOMAIN context.at : g > h => g >= next
      BY ONLY <1>1, <1>2, <1>5 DEF Shape
    <2>2. Tag(context, h, {}, {})
      BY ONLY <1>1, <1>2, <1>5 DEF Tags
    <2>3. /\ context.at[next].prev_is_free = context.at[h].free
          /\ context.at[h].free => context.at[next].prev = h /\ ~context.at[next].free
      BY ONLY <1>5, <2>2 DEF Tag
    <2> QED BY ONLY <2>1, <2>3 DEF BLOCK_SIZE_MIN
  <1>6. Blocks \ FreeBlocks = {b.ptr - 1 : b \in live}
    <2>1. \A b \in live : b.ptr - 1 \in Blocks /\ ~context.at[b.ptr - 1].free
      BY ONLY <1>1, <1>2 DEF Match
    <2>2. \A a \in Blocks : ~context.at[a].free => \E b \in live : b.ptr - 1 = a
      BY ONLY <1>1, <1>2 DEF Match
    <2> QED BY ONLY <2>1, <2>2 DEF FreeBlocks
  <1>7. \A b \in live : b.len <= context.at[b.ptr - 1].size
    BY ONLY <1>1 DEF Match
  <1>8. context.size = 0 <=> DOMAIN context.at = {}
    BY ONLY <1>3, <1>4
  <1> QED BY ONLY <1>4, <1>5, <1>6, <1>7, <1>8 DEF BoundaryTags

LEMMA TagsOfNone ==
  ASSUME Empty(context, live)
  PROVE  BoundaryTags
  <1>1. context.size = 0 /\ DOMAIN context.at = {} /\ live = {}
    BY DEF Empty
  <1>2. Blocks = {} /\ FreeBlocks = {} /\ ~(context.size > 0)
    BY ONLY <1>1 DEF Blocks, FreeBlocks
  <1> QED BY ONLY <1>1, <1>2 DEF BoundaryTags

\* The row of headers is what g_malloc and g_free find their way by, whatever the
\* order of the calls, the sizes asked for and the size of the memory: each header is
\* right about its block and about the one before it, and two neighbours are never
\* both free (block_split, block_merge_prev and block_merge_next, arena_grow and
\* arena_shrink).
THEOREM HeapBoundaryTags ==
  ASSUME HeapBounds
  PROVE  Spec => []BoundaryTags
  <1>1. IInv => BoundaryTags
    BY TagsOf, TagsOfNone DEF IInv, Settled
  <1> QED BY <1>1, Invariance, PTL

LEMMA ListsCoherent ==
  ASSUME context \in Contexts, Listing(context, FreeBlocks), IsFiniteSet(Blocks)
  PROVE  FreeListsCoherent
  <1>1. FreeBlocks \subseteq Blocks
    BY DEF FreeBlocks
  <1>2. context.sl = {c \in Classes : context.block[c] # NULL} /\ context.fl = {c[1] : c \in context.sl}
    BY DEF Listing
  <1>3. ASSUME NEW c \in Classes
        PROVE  /\ Listed(c) = {h \in FreeBlocks : mapping(context.at[h].size) = c}
               /\ context.block[c] # NULL => context.at[context.block[c]].prev_free = NULL
               /\ \A h \in FreeBlocks : context.at[h].next_free # NULL =>
                                          context.at[context.at[h].next_free].prev_free = h
    BY ONLY context \in Contexts, Listing(context, FreeBlocks), IsFiniteSet(Blocks), <1>1,
            c \in Classes, ListedIs
  <1>4. ASSUME NEW c \in Classes
        PROVE  /\ Listed(c) = {h \in FreeBlocks : mapping(context.at[h].size) = c}
               /\ c \in context.sl <=> context.block[c] # NULL
               /\ context.block[c] # NULL => context.at[context.block[c]].prev_free = NULL
               /\ \A h \in Listed(c) :
                    context.at[h].next_free # NULL => context.at[context.at[h].next_free].prev_free = h
    BY ONLY <1>2, <1>3, c \in Classes
  <1> QED BY ONLY <1>2, <1>4 DEF FreeListsCoherent

\* The lists of remove_free_block and insert_free_block hold the free blocks, each in the
\* list of its size, and no others; they can be walked in both directions, and the two
\* bitmaps that block_find_suitable searches say which lists are empty.
THEOREM HeapFreeListsCoherent ==
  ASSUME HeapBounds
  PROVE  Spec => []FreeListsCoherent
  <1>1. ASSUME Sound(context, {}, {}, live) PROVE FreeListsCoherent
    <2>1. context \in Contexts /\ Shape(context) /\ Listing(context, FreeOf(context) \ {})
      BY ONLY <1>1 DEF Sound
    <2>2. FreeOf(context) \ {} = FreeBlocks
      BY ONLY Zenon DEF FreeOf, FreeBlocks, BlocksOf, Blocks, End, Sentinel
    <2>3. IsFiniteSet(Blocks)
      <3>1. IsFiniteSet(DOMAIN context.at)
        BY ONLY <2>1, ShapeFacts
      <3>2. Blocks \in SUBSET DOMAIN context.at
        BY DEF Blocks
      <3> QED BY ONLY <3>1, <3>2, FS_Subset
    <2> QED BY ONLY <2>1, <2>2, <2>3, ListsCoherent
  <1>2. ASSUME Empty(context, live) PROVE FreeListsCoherent
    <2>1. context \in Contexts /\ Listing(context, {}) /\ DOMAIN context.at = {}
      BY ONLY <1>2 DEF Empty
    <2>2. Blocks = {} /\ FreeBlocks = {}
      BY ONLY <2>1 DEF Blocks, FreeBlocks
    <2> QED BY ONLY <2>1, <2>2, FS_EmptySet, ListsCoherent
  <1>3. IInv => FreeListsCoherent
    BY <1>1, <1>2 DEF IInv, Settled
  <1> QED BY <1>3, Invariance, PTL

\* When the client has given back every block, the memory is empty: g_free merges the
\* last blocks into one, whatever the order they come in, and gives it back.
THEOREM HeapAllFreeAgain ==
  ASSUME HeapBounds
  PROVE  Spec => []AllFreeAgain
  <1>1. IInv => AllFreeAgain
    BY DEF IInv, Settled, Empty, AllFreeAgain
  <1> QED BY <1>1, Invariance, PTL

\* g_malloc calls arena_grow only when every free block is smaller than the rounded
\* request, and no other call makes the memory larger.
THEOREM HeapGrowsOnlyIfNeeded ==
  ASSUME HeapBounds
  PROVE  Spec => GrowsOnlyIfNeeded
  <1> USE HeapBounds
  <1> DEFINE A == context'.size > context.size =>
                    \E b \in live' \ live :
                      \A h \in FreeBlocks : context.at[h].size < round_block_size(adjust_size(b.len))
  <1>1. ASSUME IInv, [Next]_vars PROVE [A]_vars
    <2>1. context \in Contexts /\ context.size \in Nat
      <3>1. context \in Contexts
        BY ONLY IInv DEF IInv, Settled, Empty, Sound
      <3> QED BY ONLY <3>1, ContextIs
    <2>2. CASE Release
      BY <2>1, <2>2, EmptyContextIs DEF Release, Empty
    <2>3. ASSUME NEW words \in Requests, MallocFinds(words) PROVE A
      <3>1. context'.size = context.size
        BY <1>1, <2>3, FindStep
      <3> QED BY ONLY <2>1, <3>1
    <2>4. ASSUME NEW words \in Requests, MallocGrows(words) PROVE A
      <3>1. /\ block_find_suitable(context, mapping(round_block_size(adjust_size(words)))) = << >>
            /\ \E b : live' = live \cup {b} /\ b \notin live /\ b.len = words
        BY <1>1, <2>4, GrowStep
      <3>2. PICK b : live' = live \cup {b} /\ b \notin live /\ b.len = words
        BY ONLY <3>1
      <3>3. \A h \in FreeBlocks : context.at[h].size < round_block_size(adjust_size(words))
        <4>1. CASE Sound(context, {}, {}, live)
          <5>1. SUFFICES ASSUME NEW h \in FreeBlocks
                         PROVE  context.at[h].size < round_block_size(adjust_size(words))
            OBVIOUS
          <5>2. h \in FreeOf(context) /\ h \in DOMAIN context.at
            BY ONLY <5>1 DEF FreeOf, FreeBlocks, BlocksOf, Blocks, End, Sentinel
          <5>3. ~(round_block_size(adjust_size(words)) <= context.at[h].size)
            BY ONLY HeapBounds, words \in Requests, <3>1, <4>1, <5>2, FindsLarge
          <5>4. context.at[h].size \in Nat /\ round_block_size(adjust_size(words)) \in Nat
            BY ONLY HeapBounds, words \in Requests, <2>1, <5>2, ContextIs, RequestIs
          <5> QED BY ONLY <5>3, <5>4
        <4>2. CASE Empty(context, live)
          <5>1. FreeBlocks = {}
            BY ONLY <4>2 DEF Empty, FreeBlocks, Blocks
          <5> QED BY ONLY <5>1
        <4> QED BY ONLY <4>1, <4>2, IInv DEF IInv, Settled
      <3> QED BY ONLY <3>2, <3>3
    <2>5. ASSUME NEW b \in live, Free(b) PROVE A
      <3>1. context'.size <= context.size /\ Sound(context', {}, {}, live')
        BY <1>1, <2>5, FreeStep
      <3>2. context'.size \in Nat
        <4>1. PICK t \in Contexts : t = context'
          BY ONLY <3>1 DEF Sound
        <4>2. t.size \in Nat
          BY ONLY t \in Contexts, ContextIs
        <4> QED BY ONLY <4>1, <4>2
      <3> QED BY ONLY <2>1, <3>1, <3>2
    <2>6. ASSUME NEW b \in live, FreeShrinks(b) PROVE A
      <3>1. context'.size <= context.size /\ Settled(context', live')
        BY <1>1, <2>6, ShrinkStep
      <3>2. context'.size \in Nat
        <4>1. PICK t \in Contexts : t = context'
          BY ONLY <3>1 DEF Settled, Empty, Sound
        <4>2. t.size \in Nat
          BY ONLY t \in Contexts, ContextIs
        <4> QED BY ONLY <4>1, <4>2
      <3> QED BY ONLY <2>1, <3>1, <3>2
    <2> QED BY ONLY <2>2, <2>3, <2>4, <2>5, <2>6, [Next]_vars DEF Next
  <1>2. IInv /\ [Next]_vars => [A]_vars
    BY <1>1
  <1> QED BY <1>2, Invariance, PTL DEF Spec, GrowsOnlyIfNeeded

\* Two blocks of the client lie one behind the other, and below the sentinel.
LEMMA LiveApart ==
  ASSUME NEW t, NEW L, Sound(t, {}, {}, L), NEW b \in L
  PROVE  /\ b.ptr - 1 \in Nat /\ b.len \in Nat /\ b.ptr - 1 + (b.len + 1) <= MaxSize
         /\ \A d \in L : b # d => \/ b.ptr - 1 + (b.len + 1) <= d.ptr - 1
                                  \/ d.ptr - 1 + (d.len + 1) <= b.ptr - 1
  <1>1. t \in Contexts /\ Shape(t) /\ Match(t, L)
    BY DEF Sound
  <1>2. ASSUME NEW d \in L
        PROVE  /\ d.ptr - 1 \in BlocksOf(t) /\ d.ptr - 1 \in Nat /\ d.ptr \in Nat /\ d.len \in Nat
               /\ d.ptr - 1 + (d.len + 1) <= block_next(t, d.ptr - 1)
               /\ block_next(t, d.ptr - 1) \in Nat /\ block_next(t, d.ptr - 1) < MaxSize
    <2>1. PICK a : a = d.ptr - 1
      OBVIOUS
    <2>2. d \in [ptr : Nat, len : Nat] /\ a \in BlocksOf(t) /\ d.len <= t.at[a].size
      BY ONLY <1>1, <1>2, <2>1 DEF Match
    <2>3. /\ a \in Nat /\ t.at[a].size \in Nat /\ block_next(t, a) = a + 1 + t.at[a].size
          /\ block_next(t, a) \in Nat /\ block_next(t, a) <= End(t) /\ End(t) \in Nat /\ End(t) < MaxSize
      BY ONLY <1>1, <2>2, ShapeFacts
    <2>4. d.ptr \in Nat /\ d.len \in Nat
      BY ONLY <2>2
    <2>5. a + (d.len + 1) <= block_next(t, a) /\ block_next(t, a) < MaxSize
      BY ONLY <2>2, <2>3, <2>4, HeapAssumption
    <2> QED BY ONLY <2>1, <2>2, <2>3, <2>4, <2>5
  <1>3. ASSUME NEW d \in L, b # d
        PROVE  \/ b.ptr - 1 + (b.len + 1) <= d.ptr - 1
               \/ d.ptr - 1 + (d.len + 1) <= b.ptr - 1
    <2>1. PICK a, g : a = b.ptr - 1 /\ g = d.ptr - 1
      OBVIOUS
    <2>2. b.ptr # d.ptr
      BY ONLY <1>1, <1>3, b \in L DEF Match
    <2>3. /\ a \in BlocksOf(t) /\ a \in Nat /\ b.ptr \in Nat /\ b.len \in Nat
          /\ a + (b.len + 1) <= block_next(t, a) /\ block_next(t, a) \in Nat
          /\ g \in BlocksOf(t) /\ g \in Nat /\ d.ptr \in Nat /\ d.len \in Nat
          /\ g + (d.len + 1) <= block_next(t, g) /\ block_next(t, g) \in Nat
      BY ONLY <1>2, <1>3, <2>1, b \in L
    <2>4. a < g \/ g < a
      <3>1. b.ptr = a + 1 /\ d.ptr = g + 1
        BY ONLY <2>1, <2>3
      <3>2. a # g
        BY ONLY <2>2, <3>1
      <3> QED BY ONLY <2>3, <3>2
    <2>5. /\ a < g => block_next(t, a) <= g
          /\ g < a => block_next(t, g) <= a
      BY ONLY <1>1, <2>3, ShapeFacts
    <2> QED BY ONLY <2>1, <2>3, <2>4, <2>5
  <1>4. b.ptr - 1 + (b.len + 1) <= MaxSize
    <2>1. /\ b.ptr - 1 \in Nat /\ b.len \in Nat
          /\ b.ptr - 1 + (b.len + 1) <= block_next(t, b.ptr - 1)
          /\ block_next(t, b.ptr - 1) \in Nat /\ block_next(t, b.ptr - 1) < MaxSize
      BY ONLY <1>2, b \in L
    <2> QED BY ONLY <2>1, HeapAssumption
  <1> QED BY ONLY <1>2, <1>3, <1>4, b \in L

HeldRegions == {[ptr |-> b.ptr - 1, len |-> b.len + 1] : b \in live}

LEMMA MallocRefines ==
  ASSUME Sound(context', {}, {}, live'), NEW b, live' = live \cup {b}, b \notin live
  PROVE  Regions!Next
  <1>1. PICK t : t = context'
    OBVIOUS
  <1>2. PICK L : L = live'
    OBVIOUS
  <1>3. Sound(t, {}, {}, L) /\ b \in L /\ L = live \cup {b}
    BY ONLY <1>1, <1>2, Sound(context', {}, {}, live'), live' = live \cup {b}
  <1>4. PICK r : r = [ptr |-> b.ptr - 1, len |-> b.len + 1]
    OBVIOUS
  <1>5. r.ptr = b.ptr - 1 /\ r.len = b.len + 1
    BY ONLY <1>4
  <1>6. /\ b.ptr - 1 \in Nat /\ b.len \in Nat /\ b.ptr - 1 + (b.len + 1) <= MaxSize
        /\ \A d \in L : b # d => \/ b.ptr - 1 + (b.len + 1) <= d.ptr - 1
                                 \/ d.ptr - 1 + (d.len + 1) <= b.ptr - 1
    BY ONLY <1>3, LiveApart
  <1>7. HeldRegions' = HeldRegions \cup {r}
    BY ONLY <1>4, live' = live \cup {b} DEF HeldRegions
  <1>8. r \in Regions!Region /\ Regions!InRange(r)
    <2>1. r \in [ptr : 0..MaxSize, len : 0..MaxSize]
      <3>1. b.ptr - 1 \in 0..MaxSize /\ b.len + 1 \in 0..MaxSize
        BY ONLY <1>6, HeapAssumption
      <3> QED BY ONLY <1>4, <3>1
    <2> QED BY ONLY <1>5, <1>6, <2>1 DEF Regions!Region, Regions!InRange
  <1>9. \A s \in HeldRegions : Regions!Apart(r, s)
    <2>1. SUFFICES ASSUME NEW d \in live
                   PROVE  \A s : s = [ptr |-> d.ptr - 1, len |-> d.len + 1] => Regions!Apart(r, s)
      BY DEF HeldRegions
    <2>2. TAKE s
    <2>3. HAVE s = [ptr |-> d.ptr - 1, len |-> d.len + 1]
    <2>4. s.ptr = d.ptr - 1 /\ s.len = d.len + 1
      BY ONLY <2>3
    <2>5. d \in L /\ b # d
      BY ONLY <1>3, <2>1, b \notin live
    <2>6. \/ b.ptr - 1 + (b.len + 1) <= d.ptr - 1
          \/ d.ptr - 1 + (d.len + 1) <= b.ptr - 1
      BY ONLY <1>6, <2>5
    <2> QED BY ONLY <1>5, <2>4, <2>6 DEF Regions!Apart
  <1>10. Regions!Allocate
    <2>1. r \in HeldRegions'
      BY ONLY <1>7
    <2> QED BY ONLY <1>7, <1>8, <1>9, <2>1 DEF Regions!Allocate, HeldRegions
  <1> QED BY ONLY <1>10 DEF Regions!Next

LEMMA FreeRefines ==
  ASSUME live' \subseteq live
  PROVE  Regions!Next
  <1>1. HeldRegions' \subseteq HeldRegions
    BY DEF HeldRegions
  <1> QED BY <1>1 DEF Regions!Next, Regions!Release, HeldRegions

\* The heap is a region allocator: what g_malloc returns shares no word, its header
\* included, with a block that the client holds, and lies in the memory that the arena
\* has reserved.
THEOREM HeapImplementsRegions ==
  ASSUME HeapBounds
  PROVE  Spec => ImplementsRegions
  <1> USE HeapBounds
  <1>1. Init => Regions!Init
    BY DEF Init, Regions!Init
  <1>2. ASSUME IInv, [Next]_vars PROVE [Regions!Next]_HeldRegions
    <2>1. CASE Release
      <3>1. live' \subseteq live
        BY ONLY <2>1 DEF Release
      <3> QED BY ONLY <3>1, FreeRefines
    <2>2. ASSUME NEW words \in Requests, MallocFinds(words) PROVE Regions!Next
      <3>1. Sound(context', {}, {}, live') /\ \E b : live' = live \cup {b} /\ b \notin live
        BY <1>2, <2>2, FindStep
      <3> QED BY ONLY <3>1, MallocRefines
    <2>3. ASSUME NEW words \in Requests, MallocGrows(words) PROVE Regions!Next
      <3>1. Sound(context', {}, {}, live') /\ \E b : live' = live \cup {b} /\ b \notin live
        BY <1>2, <2>3, GrowStep
      <3> QED BY ONLY <3>1, MallocRefines
    <2>4. ASSUME NEW b \in live, Free(b) PROVE Regions!Next
      <3>1. live' \subseteq live
        BY ONLY <2>4 DEF Free
      <3> QED BY ONLY <3>1, FreeRefines
    <2>5. ASSUME NEW b \in live, FreeShrinks(b) PROVE Regions!Next
      <3>1. live' \subseteq live
        BY ONLY <2>5 DEF FreeShrinks
      <3> QED BY ONLY <3>1, FreeRefines
    <2>6. CASE UNCHANGED vars
      <3>1. HeldRegions' = HeldRegions
        BY ONLY <2>6 DEF vars, HeldRegions
      <3> QED BY ONLY <3>1
    <2> QED BY ONLY <2>1, <2>2, <2>3, <2>4, <2>5, <2>6, [Next]_vars DEF Next
  <1>3. IInv /\ [Next]_vars => [Regions!Next]_HeldRegions
    BY <1>2
  <1> QED BY <1>1, <1>3, Invariance, PTL DEF Spec, ImplementsRegions, Regions!Spec, HeldRegions

=============================================================================
