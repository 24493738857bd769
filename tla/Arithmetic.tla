----------------------------- MODULE Arithmetic -----------------------------
(***************************************************************************)
(* Facts about numbers that the proofs of several allocators rest on:      *)
(* quotients, remainders, alignment, the least element of a set, induction *)
(* and the states of a loop.                                               *)
(***************************************************************************)
EXTENDS Integers, Iteration, WellFoundedInduction, TLAPS

LEMMA DivFacts ==
  ASSUME NEW b \in Nat, NEW w \in Nat \ {0}
  PROVE  /\ b \div w \in Nat
         /\ w * (b \div w) <= b
         /\ b < w * (b \div w) + w
  BY SMT

LEMMA DivUnique ==
  ASSUME NEW b \in Nat, NEW w \in Nat \ {0}, NEW q \in Nat,
         w * q <= b, b < w * q + w
  PROVE  b \div w = q
  <1> DEFINE p == b \div w
  <1>1. p \in Nat /\ w * p <= b /\ b < w * p + w
    BY DivFacts
  <1> HIDE DEF p
  <1>2. ~ (p < q)
    <2> SUFFICES ASSUME p + 1 <= q PROVE FALSE
      BY <1>1
    <2>1. w * (p + 1) <= w * q
      BY <1>1, SMT
    <2> QED BY <2>1, <1>1, SMT
  <1>3. ~ (q < p)
    <2> SUFFICES ASSUME q + 1 <= p PROVE FALSE
      BY <1>1
    <2>1. w * (q + 1) <= w * p
      BY <1>1, SMT
    <2> QED BY <2>1, <1>1, SMT
  <1>4. p = q
    BY <1>1, <1>2, <1>3
  <1> QED BY <1>4 DEF p

LEMMA DivExact ==
  ASSUME NEW b \in Nat, NEW w \in Nat \ {0}
  PROVE  (b * w) \div w = b
  BY SMT

\* A set of numbers that is not empty has a least element.
LEMMA LeastExists ==
  ASSUME NEW S \in SUBSET Nat, S # {}
  PROVE  \E x \in S : \A y \in S : x <= y
  <1> DEFINE R == OpToRel(<, Nat)
  <1>1. IsWellFoundedOn(R, Nat)
    BY NatLessThanWellFounded
  <1>2. \A x, y \in Nat : x < y => <<x, y>> \in R
    BY DEF OpToRel
  <1> HIDE DEF R
  <1>3. PICK x \in S : \A y \in S : ~(<<y, x>> \in R)
    BY <1>1, WFMin
  <1>4. ASSUME NEW y \in S
        PROVE  x <= y
    <2>1. x \in Nat /\ y \in Nat
      OBVIOUS
    <2>2. ~(y < x)
      BY <1>2, <1>3, <2>1
    <2> QED BY <2>1, <2>2, SMT
  <1> QED BY <1>3, <1>4

\* Induction, for a set of numbers.
LEMMA NatSetInduction ==
  ASSUME NEW P, 0 \in P, \A n \in Nat : n \in P => n + 1 \in P
  PROVE  Nat \subseteq P
  <1> DEFINE S == Nat \ P
  <1> SUFFICES ASSUME S # {} PROVE FALSE
    OBVIOUS
  <1>1. PICK x \in S : \A y \in S : x <= y
    <2>1. S \in SUBSET Nat
      OBVIOUS
    <2> HIDE DEF S
    <2> QED BY <2>1, LeastExists
  <1>2. x # 0 /\ x \in Nat
    BY <1>1
  <1>3. x - 1 \in Nat /\ x - 1 \in P
    BY <1>1, <1>2
  <1>4. (x - 1) + 1 \in P
    BY <1>3
  <1> QED BY <1>1, <1>2, <1>4

\* at is the function from the number of turns to the state.
Loops(at, S, turn, start) ==
  /\ at \in [Nat -> S] /\ at[0] = start
  /\ \A n \in Nat : at[n + 1] = turn[at[n]]

\* The states of a loop that starts in S and whose turns stay in S.
LEMMA StatesOfLoop ==
  ASSUME NEW S, NEW turn, \A s \in S : turn[s] \in S, NEW start \in S
  PROVE  Loops(StatesOf(turn, start), S, turn, start)
  <1> DEFINE Goes(f, n) == /\ f \in [0..n -> S] /\ f[0] = start
                           /\ \A k \in 0..n-1 : f[k + 1] = turn[f[k]]
             Begins == {n \in Nat : \E f \in [0..n -> S] : Goes(f, n)}
  <1>1. Nat \subseteq Begins
    <2>1. 0 \in Begins
      <3> DEFINE f == [k \in 0..0 |-> start]
      <3>1. Goes(f, 0)
        OBVIOUS
      <3> QED BY <3>1
    <2>2. ASSUME NEW n \in Nat, n \in Begins
          PROVE  n + 1 \in Begins
      <3>1. PICK f \in [0..n -> S] : Goes(f, n)
        BY <2>2
      <3> DEFINE g == [k \in 0..(n + 1) |-> IF k = n + 1 THEN turn[f[n]] ELSE f[k]]
      <3>2. g \in [0..(n + 1) -> S]
        BY <3>1
      <3>3. g[0] = start
        BY <3>1
      <3>4. ASSUME NEW k \in 0..n PROVE g[k + 1] = turn[g[k]]
        <4>1. CASE k = n
          BY <4>1
        <4>2. CASE k # n
          <5>1. k \in 0..n-1 /\ k + 1 # n + 1 /\ k # n + 1 /\ k + 1 \in 0..(n + 1)
            BY <4>2
          <5> QED BY <5>1, <3>1
        <4> QED BY <4>1, <4>2
      <3> QED BY <3>2, <3>3, <3>4, SMTT(60)
    <2> HIDE DEF Begins
    <2> QED BY <2>1, <2>2, NatSetInduction
  <1>2. ASSUME NEW m \in Nat, NEW n \in Nat, m <= n, NEW f, NEW g, Goes(f, m), Goes(g, n)
        PROVE  f[m] = g[m]
    <2> DEFINE Same == {k \in Nat : k <= m => f[k] = g[k]}
    <2>1. 0 \in Same
      BY <1>2
    <2>2. ASSUME NEW k \in Nat, k \in Same PROVE k + 1 \in Same
      BY <1>2, <2>2
    <2>3. Nat \subseteq Same
      <3> HIDE DEF Same
      <3> QED BY <2>1, <2>2, NatSetInduction
    <2> QED BY <2>3
  <1> DEFINE Run(n) == CHOOSE f \in [0..n -> S] : Goes(f, n)
  <1>3. ASSUME NEW n \in Nat
        PROVE  Goes(Run(n), n)
    <2>1. \E f \in [0..n -> S] : Goes(f, n)
      BY <1>1
    <2> HIDE DEF Goes
    <2> QED BY <2>1
  <1> HIDE DEF Run
  <1> DEFINE it == [n \in Nat |-> Run(n)[n]]
             Loop(f) == f = [n \in Nat |-> IF n = 0 THEN start ELSE turn[f[n - 1]]]
  <1>4. it \in [Nat -> S] /\ it[0] = start
    BY <1>3
  <1>5. ASSUME NEW n \in Nat PROVE it[n + 1] = turn[it[n]]
    <2>1. it[n] = Run(n)[n] /\ it[n + 1] = Run(n + 1)[n + 1]
      OBVIOUS
    <2>2. Goes(Run(n), n) /\ Goes(Run(n + 1), n + 1)
      BY <1>3
    <2>3. Run(n)[n] = Run(n + 1)[n]
      <3>1. n + 1 \in Nat /\ n <= n + 1
        OBVIOUS
      <3> HIDE DEF Goes
      <3> QED BY <2>2, <3>1, <1>2
    <2>4. Run(n + 1)[n + 1] = turn[Run(n + 1)[n]]
      <3>1. n \in 0..(n + 1) - 1
        OBVIOUS
      <3> QED BY <2>2, <3>1
    <2> HIDE DEF it, Goes
    <2> QED BY <2>1, <2>3, <2>4
  <1>6. Loop(it)
    <2>1. ASSUME NEW n \in Nat \ {0} PROVE it[n] = turn[it[n - 1]]
      <3>1. n - 1 \in Nat /\ (n - 1) + 1 = n
        OBVIOUS
      <3> HIDE DEF it
      <3> QED BY <3>1, <1>5
    <2> HIDE DEF it
    <2> QED BY <1>4, <2>1
  <1>7. Loop(StatesOf(turn, start))
    <2>1. StatesOf(turn, start) = CHOOSE f : Loop(f)
      BY DEF StatesOf
    <2> HIDE DEF Loop, it
    <2> QED BY <1>6, <2>1
  <1> DEFINE st == StatesOf(turn, start)
  <1>8. st = it
    <2>1. ASSUME NEW f, Loop(f) PROVE Nat \subseteq {n \in Nat : f[n] = it[n]}
      <3> DEFINE Same == {n \in Nat : f[n] = it[n]}
      <3> HIDE DEF it
      <3>1. 0 \in Same
        BY <1>4, <2>1
      <3>2. ASSUME NEW n \in Nat, n \in Same PROVE n + 1 \in Same
        <4>1. f[n + 1] = turn[f[n]]
          BY <2>1
        <4> QED BY <4>1, <3>2, <1>5
      <3>3. Nat \subseteq Same
        <4> HIDE DEF Same
        <4> QED BY <3>1, <3>2, NatSetInduction
      <3> QED BY <3>3
    <2>2. \A n \in Nat : st[n] = it[n]
      <3> HIDE DEF it, st, Loop
      <3> QED BY <1>7, <2>1 DEF st
    <2>3. DOMAIN st = Nat /\ st = [n \in Nat |-> st[n]]
      BY <1>7
    <2> HIDE DEF st
    <2> QED BY <2>2, <2>3, <1>4
  <1> HIDE DEF it
  <1> QED BY <1>4, <1>5, <1>8 DEF Loops

LEMMA DivMod ==
  ASSUME NEW b \in Nat, NEW w \in Nat \ {0}
  PROVE  b = w * (b \div w) + (b % w) /\ b % w \in 0..w-1
  BY SMT

LEMMA DivModUnique ==
  ASSUME NEW w \in Nat \ {0}, NEW q \in Nat, NEW r \in 0..w-1, NEW b, b = w * q + r
  PROVE  b \in Nat /\ b \div w = q /\ b % w = r
  <1>1. w * q \in Nat /\ b \in Nat /\ w * q <= b /\ b < w * q + w
    BY SMT
  <1>2. b \div w = q
    BY <1>1, DivUnique
  <1>3. b = w * (b \div w) + (b % w) /\ b % w \in 0..w-1
    BY <1>1, DivMod
  <1>4. b = w * q + (b % w)
    BY <1>2, <1>3
  <1> QED BY <1>1, <1>2, <1>3, <1>4

\* A number below the modulus is its own remainder.
LEMMA ModSmall ==
  ASSUME NEW m \in Nat \ {0}, NEW x \in 0..m-1
  PROVE  x % m = x
  BY SMT

\* A number without remainder is a multiple.
LEMMA Multiple ==
  ASSUME NEW a \in Nat \ {0}, NEW x \in Nat, x % a = 0
  PROVE  \E k \in Nat : x = k * a
  <1>1. x \div a \in Nat /\ x = a * (x \div a)
    BY SMT
  <1>2. x = (x \div a) * a
    BY <1>1, SMT
  <1> QED BY <1>1, <1>2

LEMMA ProductAssociates ==
  ASSUME NEW i \in Nat, NEW k \in Nat, NEW a \in Nat
  PROVE  i * (k * a) = (i * k) * a /\ i * k \in Nat
  BY SMT

LEMMA MultipleHasNoRest ==
  ASSUME NEW a \in Nat \ {0}, NEW m \in Nat
  PROVE  (m * a) % a = 0
  <1>1. (m * a) \div a = m /\ m * a \in Nat
    BY DivExact, SMT
  <1>2. m * a = (a * ((m * a) \div a)) + ((m * a) % a) /\ (m * a) % a \in Nat
    <2> DEFINE x == m * a
    <2>1. x \in Nat
      BY <1>1
    <2> HIDE DEF x
    <2>2. x = (a * (x \div a)) + (x % a) /\ x % a \in Nat
      BY <2>1, SMT
    <2> QED BY <2>2 DEF x
  <1>3. m * a = a * m
    BY SMT
  <1> QED BY <1>1, <1>2, <1>3, SMT

\* Rounding up to a multiple.
LEMMA RoundUp ==
  ASSUME NEW a \in Nat \ {0}, NEW x \in Nat
  PROVE  /\ ((x + a - 1) \div a) * a \in Nat
         /\ x <= ((x + a - 1) \div a) * a
         /\ x % a = 0 => ((x + a - 1) \div a) * a = x
  <1> DEFINE q == (x + a - 1) \div a
  <1>1. x + a - 1 \in Nat
    OBVIOUS
  <1>2. q \in Nat /\ a * q <= x + a - 1 /\ x + a - 1 < a * q + a
    BY <1>1, DivFacts
  <1>3. ASSUME x % a = 0
        PROVE  q * a = x
    <2>1. PICK k \in Nat : x = k * a
      BY <1>3, Multiple
    <2>2. a * k = k * a
      BY SMT
    <2>3. a * k <= x + a - 1 /\ x + a - 1 < a * k + a
      BY <2>1, <2>2
    <2>4. q = k
      BY <1>1, <2>3, DivUnique
    <2> QED BY <2>1, <2>4
  <1> HIDE DEF q
  <1>4. q * a = a * q /\ q * a \in Nat
    BY <1>2, SMT
  <1>5. x <= q * a
    BY <1>2, <1>4, SMT
  <1> QED BY <1>3, <1>4, <1>5 DEF q

-----------------------------------------------------------------------------
(* Powers of two                                                           *)

\* 2^k for the exponents of 32 bits.  The provers know the power only of a number.
Power == [k \in 0..31 |-> 2^k]

LEMMA PowerIs ==
  ASSUME NEW k \in 0..31
  PROVE  2^k = Power[k]
  BY Zenon DEF Power

LEMMA Powers ==
  /\ Power[0] = 1 /\ Power[1] = 2 /\ Power[2] = 4 /\ Power[3] = 8
  /\ Power[4] = 16 /\ Power[5] = 32 /\ Power[6] = 64 /\ Power[7] = 128
  /\ Power[8] = 256 /\ Power[9] = 512 /\ Power[10] = 1024 /\ Power[11] = 2048
  /\ Power[12] = 4096 /\ Power[13] = 8192 /\ Power[14] = 16384 /\ Power[15] = 32768
  /\ Power[16] = 65536 /\ Power[17] = 131072 /\ Power[18] = 262144 /\ Power[19] = 524288
  /\ Power[20] = 1048576 /\ Power[21] = 2097152 /\ Power[22] = 4194304 /\ Power[23] = 8388608
  /\ Power[24] = 16777216 /\ Power[25] = 33554432 /\ Power[26] = 67108864 /\ Power[27] = 134217728
  /\ Power[28] = 268435456 /\ Power[29] = 536870912 /\ Power[30] = 1073741824 /\ Power[31] = 2147483648
  <1>1. /\ 2^0 = 1 /\ 2^1 = 2 /\ 2^2 = 4 /\ 2^3 = 8 /\ 2^4 = 16 /\ 2^5 = 32
        /\ 2^6 = 64 /\ 2^7 = 128 /\ 2^8 = 256 /\ 2^9 = 512 /\ 2^10 = 1024 /\ 2^11 = 2048
        /\ 2^12 = 4096 /\ 2^13 = 8192 /\ 2^14 = 16384 /\ 2^15 = 32768 /\ 2^16 = 65536 /\ 2^17 = 131072
        /\ 2^18 = 262144 /\ 2^19 = 524288 /\ 2^20 = 1048576 /\ 2^21 = 2097152 /\ 2^22 = 4194304 /\ 2^23 = 8388608
        /\ 2^24 = 16777216 /\ 2^25 = 33554432 /\ 2^26 = 67108864 /\ 2^27 = 134217728 /\ 2^28 = 268435456 /\ 2^29 = 536870912
        /\ 2^30 = 1073741824 /\ 2^31 = 2147483648
    OBVIOUS
  <1>2. /\ 0 \in 0..31 /\ 1 \in 0..31 /\ 2 \in 0..31 /\ 3 \in 0..31 /\ 4 \in 0..31 /\ 5 \in 0..31
        /\ 6 \in 0..31 /\ 7 \in 0..31 /\ 8 \in 0..31 /\ 9 \in 0..31 /\ 10 \in 0..31 /\ 11 \in 0..31
        /\ 12 \in 0..31 /\ 13 \in 0..31 /\ 14 \in 0..31 /\ 15 \in 0..31 /\ 16 \in 0..31 /\ 17 \in 0..31
        /\ 18 \in 0..31 /\ 19 \in 0..31 /\ 20 \in 0..31 /\ 21 \in 0..31 /\ 22 \in 0..31 /\ 23 \in 0..31
        /\ 24 \in 0..31 /\ 25 \in 0..31 /\ 26 \in 0..31 /\ 27 \in 0..31 /\ 28 \in 0..31 /\ 29 \in 0..31
        /\ 30 \in 0..31 /\ 31 \in 0..31
    OBVIOUS
  <1>3. \A k \in 0..31 : Power[k] = 2^k
    BY Zenon DEF Power
  <1>4. /\ Power[0] = 2^0 /\ Power[1] = 2^1 /\ Power[2] = 2^2 /\ Power[3] = 2^3 /\ Power[4] = 2^4
        /\ Power[5] = 2^5 /\ Power[6] = 2^6 /\ Power[7] = 2^7 /\ Power[8] = 2^8 /\ Power[9] = 2^9
        /\ Power[10] = 2^10 /\ Power[11] = 2^11 /\ Power[12] = 2^12 /\ Power[13] = 2^13 /\ Power[14] = 2^14
        /\ Power[15] = 2^15 /\ Power[16] = 2^16 /\ Power[17] = 2^17 /\ Power[18] = 2^18 /\ Power[19] = 2^19
        /\ Power[20] = 2^20 /\ Power[21] = 2^21 /\ Power[22] = 2^22 /\ Power[23] = 2^23 /\ Power[24] = 2^24
        /\ Power[25] = 2^25 /\ Power[26] = 2^26 /\ Power[27] = 2^27 /\ Power[28] = 2^28 /\ Power[29] = 2^29
        /\ Power[30] = 2^30 /\ Power[31] = 2^31
    BY <1>2, <1>3, Zenon
  <1> QED BY <1>1, <1>4

LEMMA PowerDoubles ==
  /\ Power \in [0..31 -> Nat \ {0}]
  /\ \A k \in 0..30 : Power[k + 1] = 2 * Power[k]
  <1> DEFINE P == Power
  <1>1. DOMAIN P = 0..31 /\ P = [k \in 0..31 |-> P[k]]
    BY Zenon DEF Power
  <1>2. /\ P[0] = 1 /\ P[1] = 2 /\ P[2] = 4 /\ P[3] = 8
        /\ P[4] = 16 /\ P[5] = 32 /\ P[6] = 64 /\ P[7] = 128
        /\ P[8] = 256 /\ P[9] = 512 /\ P[10] = 1024 /\ P[11] = 2048
        /\ P[12] = 4096 /\ P[13] = 8192 /\ P[14] = 16384 /\ P[15] = 32768
        /\ P[16] = 65536 /\ P[17] = 131072 /\ P[18] = 262144 /\ P[19] = 524288
        /\ P[20] = 1048576 /\ P[21] = 2097152 /\ P[22] = 4194304 /\ P[23] = 8388608
        /\ P[24] = 16777216 /\ P[25] = 33554432 /\ P[26] = 67108864 /\ P[27] = 134217728
        /\ P[28] = 268435456 /\ P[29] = 536870912 /\ P[30] = 1073741824 /\ P[31] = 2147483648
    BY Powers
  <1> HIDE DEF P
  <1>3. ASSUME NEW k \in 0..31 PROVE P[k] \in Nat \ {0}
    BY <1>2
  <1>4. ASSUME NEW k \in 0..30 PROVE P[k + 1] = 2 * P[k]
    BY <1>2
  <1>5. P \in [0..31 -> Nat \ {0}]
    BY <1>1, <1>3
  <1> QED BY <1>4, <1>5 DEF P

LEMMA FirstPower == Power[0] = 1
  BY Powers, SMT

\* Different powers are at least a factor of two apart.
LEMMA PowerOrder ==
  ASSUME NEW a \in 0..31, NEW b \in 0..31, a < b
  PROVE  2 * Power[a] <= Power[b]
  <1> DEFINE P == Power
             Far == {n \in Nat : a + n + 1 <= 31 => 2 * P[a] <= P[a + n + 1]}
  <1>1. P \in [0..31 -> Nat \ {0}] /\ \A k \in 0..30 : P[k + 1] = 2 * P[k]
    BY PowerDoubles
  <1> HIDE DEF P
  <1>2. 0 \in Far
    BY <1>1
  <1>3. ASSUME NEW n \in Nat, n \in Far PROVE n + 1 \in Far
    <2>1. SUFFICES ASSUME a + n + 2 <= 31 PROVE 2 * P[a] <= P[a + n + 2]
      OBVIOUS
    <2>2. 2 * P[a] <= P[a + n + 1] /\ a + n + 1 \in 0..30
      BY <1>3, <2>1
    <2>3. P[(a + n + 1) + 1] = 2 * P[a + n + 1] /\ (a + n + 1) + 1 = a + n + 2
      BY <1>1, <2>2
    <2> QED BY <1>1, <2>2, <2>3
  <1>4. Nat \subseteq Far
    <2> HIDE DEF Far
    <2> QED BY <1>2, <1>3, NatSetInduction
  <1>5. PICK n \in Nat : b = a + n + 1
    <2>1. b - a - 1 \in Nat /\ b = a + (b - a - 1) + 1
      OBVIOUS
    <2> QED BY <2>1
  <1>6. a + n + 1 <= 31 => 2 * P[a] <= P[a + n + 1]
    BY <1>4
  <1> HIDE DEF Far
  <1>7. 2 * P[a] <= P[b]
    BY <1>5, <1>6
  <1> QED BY <1>7 DEF P

LEMMA PowerProduct ==
  ASSUME NEW a \in 0..31, NEW b \in 0..31, a + b <= 31
  PROVE  Power[a + b] = Power[a] * Power[b]
  <1> DEFINE P == Power
             Mult == {n \in Nat : a + n <= 31 => P[a + n] = P[a] * P[n]}
  <1>1. P \in [0..31 -> Nat \ {0}] /\ \A k \in 0..30 : P[k + 1] = 2 * P[k]
    BY PowerDoubles
  <1>2. P[0] = 1
    BY FirstPower
  <1> HIDE DEF P
  <1>3. 0 \in Mult
    BY <1>1, <1>2
  <1>4. ASSUME NEW n \in Nat, n \in Mult PROVE n + 1 \in Mult
    <2>1. SUFFICES ASSUME a + n + 1 <= 31 PROVE P[a + n + 1] = P[a] * P[n + 1]
      OBVIOUS
    <2>2. /\ P[a + n] = P[a] * P[n] /\ a + n \in 0..30 /\ n \in 0..30
          /\ P[a] \in Nat /\ P[n] \in Nat
      BY <1>1, <1>4, <2>1
    <2>3. P[(a + n) + 1] = 2 * (P[a] * P[n]) /\ P[n + 1] = 2 * P[n]
      BY <1>1, <2>2
    <2>4. 2 * (P[a] * P[n]) = P[a] * (2 * P[n])
      BY <2>2
    <2> QED BY <2>3, <2>4
  <1>5. Nat \subseteq Mult
    <2> HIDE DEF Mult
    <2> QED BY <1>3, <1>4, NatSetInduction
  <1>6. b \in Mult
    BY <1>5
  <1> QED BY <1>6 DEF P

\* The highest bit of a number of at most 31 bits.
LEMMA LeadingPower ==
  ASSUME NEW x \in Nat \ {0}, x < 2 * Power[30]
  PROVE  \E k \in 0..30 : Power[k] <= x /\ x \div Power[k] = 1
  <1> DEFINE S == {k \in 0..30 : x < Power[k + 1]}
  <1>1. 30 \in S
    BY PowerDoubles
  <1>2. PICK k \in S : \A j \in S : k <= j
    <2>1. S \in SUBSET Nat /\ S # {}
      BY <1>1
    <2> HIDE DEF S
    <2> QED BY <2>1, LeastExists
  <1>3. k \in 0..30 /\ x < 2 * Power[k] /\ Power[k] \in Nat \ {0}
    BY <1>2, PowerDoubles
  <1>4. Power[k] <= x
    <2>1. CASE k = 0
      BY <2>1, FirstPower
    <2>2. CASE k > 0
      <3>1. k - 1 \in 0..30 /\ (k - 1) + 1 = k
        BY <1>3, <2>2
      <3>2. k - 1 \notin S
        BY <1>2, <1>3, <2>2
      <3> QED BY <1>3, <3>1, <3>2
    <2> QED BY <1>3, <2>1, <2>2
  <1>5. x \div Power[k] = 1
    <2>1. x \in Nat /\ 1 \in Nat /\ Power[k] * 1 <= x /\ x < Power[k] * 1 + Power[k]
      BY <1>3, <1>4
    <2> QED BY <1>3, <2>1, DivUnique
  <1> QED BY <1>3, <1>4, <1>5

=============================================================================
