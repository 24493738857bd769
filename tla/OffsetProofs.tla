---------------------------- MODULE OffsetProofs ----------------------------
(***************************************************************************)
(* Proofs about BinFloat and Offset, for every number of mantissa bits,    *)
(* every range and every number of nodes.                                  *)
(***************************************************************************)
EXTENDS Offset, Arithmetic, FiniteSetTheorems, TLAPS

-----------------------------------------------------------------------------
(* Bins                                                                    *)

LEMMA Mantissa ==
  /\ MantissaBits \in 1..30
  /\ MantissaValue = Power[MantissaBits] /\ MantissaValue \in Nat /\ MantissaValue >= 2
  <1>1. MantissaBits \in 1..30 /\ MantissaBits \in 0..31
    BY MantissaAssumption
  <1>2. MantissaValue = Power[MantissaBits]
    BY <1>1, PowerIs, Zenon DEF MantissaValue
  <1>3. 2 * Power[0] <= Power[MantissaBits] /\ Power[0] = 1 /\ Power[MantissaBits] \in Nat
    <2>1. 0 \in 0..31 /\ 0 < MantissaBits
      BY <1>1
    <2> QED BY <1>1, <2>1, PowerOrder, PowerDoubles, FirstPower
  <1> QED BY <1>1, <1>2, <1>3

LEMMA MaxSizeIs == MaxSize \in Nat /\ MaxSize < 2 * Power[30]
  BY Powers, SMT DEF MaxSize

LEMMA HighestSetBitIs ==
  ASSUME NEW x \in 1..MaxSize
  PROVE  /\ HighestSetBit(x) \in 0..30
         /\ Power[HighestSetBit(x)] <= x /\ x < 2 * Power[HighestSetBit(x)]
  <1> DEFINE Is(k) == 2^k <= x /\ Shr(x, k) = 1
  <1>1. ASSUME NEW k \in 0..30
        PROVE  Is(k) <=> Power[k] <= x /\ x \div Power[k] = 1
    <2>1. k \in 0..31
      OBVIOUS
    <2>2. 2^k = Power[k]
      BY <2>1, PowerIs
    <2> QED BY <2>2, Zenon DEF Shr
  <1>2. \E k \in 0..30 : Is(k)
    <2>1. \E k \in 0..30 : Power[k] <= x /\ x \div Power[k] = 1
      <3>1. x \in Nat \ {0} /\ x < 2 * Power[30]
        BY MaxSizeIs, PowerDoubles
      <3> QED BY <3>1, LeadingPower
    <2> HIDE DEF Is
    <2> QED BY <1>1, <2>1
  <1>3. HighestSetBit(x) \in 0..30 /\ Is(HighestSetBit(x))
    BY <1>2, Zenon DEF HighestSetBit
  <1> HIDE DEF Is
  <1>4. PICK h \in 0..30 : h = HighestSetBit(x) /\ Power[h] <= x /\ x \div Power[h] = 1
    BY <1>1, <1>3
  <1>5. x < 2 * Power[h]
    <2>1. Power[h] \in Nat \ {0} /\ x \in Nat
      BY PowerDoubles, MaxSizeIs
    <2>2. x < Power[h] * (x \div Power[h]) + Power[h]
      BY <2>1, DivFacts
    <2> QED BY <1>4, <2>1, <2>2
  <1> QED BY <1>4, <1>5

\* A size as s and q: s is the shift and q its quotient, which has MantissaBits + 1
\* bits when the size is normalized.
HasForm(x, s, q) ==
  /\ s \in 0..30 /\ q \in Nat
  /\ Power[s] * q <= x /\ x < Power[s] * q + Power[s]
  /\ q < 2 * MantissaValue /\ (s = 0 \/ MantissaValue <= q)
  /\ U32ToF32RoundDown(x) = s * MantissaValue + q
  /\ U32ToF32RoundUp(x) = s * MantissaValue + q + (IF Power[s] * q = x THEN 0 ELSE 1)

LEMMA FormExists ==
  ASSUME NEW x \in 0..MaxSize
  PROVE  \E s, q \in Nat : HasForm(x, s, q)
  <1> DEFINE V == MantissaValue
  <1>1. V \in Nat /\ V >= 2 /\ x \in Nat
    BY Mantissa, MaxSizeIs
  <1>2. CASE x < V
    <2>1. U32ToF32RoundDown(x) = x /\ U32ToF32RoundUp(x) = x
      BY <1>2 DEF U32ToF32RoundDown, U32ToF32RoundUp
    <2>2. Power[0] = 1
      BY FirstPower
    <2> HIDE DEF V
    <2>3. 0 * V = 0
      BY <1>1
    <2>4. HasForm(x, 0, x)
      BY <1>1, <1>2, <2>1, <2>2, <2>3 DEF HasForm, V
    <2> QED BY <1>1, <2>4
  <1>3. CASE V <= x
    <2>1. PICK h \in 0..30 : h = HighestSetBit(x) /\ Power[h] <= x /\ x < 2 * Power[h]
      BY <1>1, <1>3, HighestSetBitIs
    <2>2. MantissaBits <= h
      <3>1. CASE h < MantissaBits
        <4>1. 2 * Power[h] <= V
          BY <3>1, Mantissa, PowerOrder
        <4>2. Power[h] \in Nat
          BY PowerDoubles
        <4> QED BY <1>1, <1>3, <2>1, <4>1, <4>2
      <3> QED BY <3>1, Mantissa
    <2>3. PICK s \in 0..30 : s = MantissaStartBit(x) /\ h = MantissaBits + s
      <3>1. h - MantissaBits \in 0..30 /\ h = MantissaBits + (h - MantissaBits)
        BY <2>2, Mantissa
      <3> QED BY <2>1, <3>1 DEF MantissaStartBit
    <2>4. PICK P \in Nat \ {0} : P = Power[s] /\ P = 2^s /\ Power[h] = V * P
      <3>1. s \in 0..31 /\ MantissaBits \in 0..31 /\ MantissaBits + s <= 31
        BY <2>3, Mantissa
      <3>2. Power[s] \in Nat \ {0} /\ Power[h] = V * Power[s]
        BY <2>3, <3>1, Mantissa, PowerProduct, PowerDoubles
      <3>3. Power[s] = 2^s
        BY <3>1, PowerIs
      <3> HIDE DEF V
      <3> QED BY <3>2, <3>3, Zenon
    <2>5. PICK q \in Nat : q = x \div P /\ P * q <= x /\ x < P * q + P
      BY <1>1, DivFacts
    <2>6. V <= q /\ q < 2 * V
      <3>1. V * P <= x /\ x < 2 * (V * P)
        BY <2>1, <2>4
      <3> HIDE DEF V
      <3>2. ASSUME q + 1 <= V PROVE FALSE
        <4>1. P * (q + 1) <= P * V /\ P * (q + 1) = P * q + P /\ P * V = V * P
          BY <1>1, <3>2
        <4> QED BY <1>1, <2>5, <3>1, <4>1
      <3>3. ASSUME 2 * V <= q PROVE FALSE
        <4>1. P * (2 * V) <= P * q /\ P * (2 * V) = 2 * (V * P)
          BY <1>1, <3>3
        <4> QED BY <1>1, <2>5, <3>1, <4>1
      <3> QED BY <1>1, <3>2, <3>3
    <2>7. LowBits(Shr(x, s), MantissaBits) = q - V
      <3>1. Shr(x, s) = q
        BY <2>4, <2>5 DEF Shr
      <3>2. q % V = q - V
        <4> HIDE DEF V
        <4>1. V \in Nat \ {0} /\ V * 1 <= q /\ q < V * 1 + V
          BY <1>1, <2>6
        <4>2. q \div V = 1
          BY <4>1, DivUnique
        <4>3. q = V * (q \div V) + (q % V) /\ q % V \in 0..V - 1
          BY <4>1, DivMod
        <4>4. V * (q \div V) = V
          BY <4>1, <4>2
        <4> QED BY <4>1, <4>3, <4>4
      <3> QED BY <3>1, <3>2 DEF LowBits, MantissaValue
    <2>8. LowBits(x, s) = 0 <=> P * q = x
      <3>1. x = P * q + (x % P) /\ x % P \in Nat
        BY <1>1, <2>5, DivMod
      <3>2. P * q \in Nat
        BY <1>1
      <3>3. x % P = 0 <=> P * q = x
        BY <1>1, <3>1, <3>2
      <3> QED BY <2>4, <3>3 DEF LowBits
    <2>9. (s + 1) * V + (q - V) = s * V + q /\ s * V \in Nat
      <3> HIDE DEF V
      <3>1. (s + 1) * V = s * V + V /\ s * V \in Nat
        BY <1>1
      <3> QED BY <1>1, <3>1
    <2>10. U32ToF32RoundDown(x) = (s + 1) * V + (q - V)
      BY <1>1, <1>3, <2>3, <2>7 DEF U32ToF32RoundDown
    <2>11. U32ToF32RoundUp(x) = (s + 1) * V + (q - V) + (IF P * q = x THEN 0 ELSE 1)
      BY <1>1, <1>3, <2>3, <2>7, <2>8 DEF U32ToF32RoundUp
    <2> HIDE DEF V
    <2>12. HasForm(x, s, q)
      BY <1>1, <2>3, <2>4, <2>5, <2>6, <2>9, <2>10, <2>11 DEF HasForm, V
    <2> QED BY <2>12
  <1> QED BY <1>1, <1>2, <1>3

\* More shift means more size, and a larger bin.
LEMMA FormsOrdered ==
  ASSUME NEW x \in 0..MaxSize, NEW y \in 0..MaxSize, NEW s \in Nat, NEW q \in Nat, NEW t \in Nat, NEW r \in Nat,
         HasForm(x, s, q), HasForm(y, t, r), s < t
  PROVE  /\ x < Power[t] * MantissaValue /\ Power[t] * MantissaValue <= y
         /\ U32ToF32RoundDown(x) < U32ToF32RoundDown(y)
         /\ U32ToF32RoundDown(x) < t * MantissaValue + MantissaValue
         /\ U32ToF32RoundUp(x) <= t * MantissaValue + MantissaValue
  <1> DEFINE V == MantissaValue
  <1>1. V \in Nat /\ V >= 2 /\ x \in Nat /\ y \in Nat
    BY Mantissa, MaxSizeIs
  <1>2. PICK P \in Nat \ {0}, R \in Nat \ {0} : P = Power[s] /\ R = Power[t] /\ 2 * P <= R
    <2>1. s \in 0..31 /\ t \in 0..31
      BY DEF HasForm
    <2> QED BY <2>1, PowerOrder, PowerDoubles
  <1>3. /\ P * q <= x /\ x < P * q + P /\ q < 2 * V
        /\ U32ToF32RoundDown(x) = s * V + q
        /\ U32ToF32RoundUp(x) = s * V + q + (IF P * q = x THEN 0 ELSE 1)
    BY <1>1, <1>2 DEF HasForm
  <1>4. R * r <= y /\ V <= r /\ U32ToF32RoundDown(y) = t * V + r
    BY <1>1, <1>2 DEF HasForm
  <1> HIDE DEF V
  <1>5. s * V \in Nat /\ t * V \in Nat /\ (s + 1) * V = s * V + V /\ (s + 1) * V <= t * V
    BY <1>1
  <1>6. x < R * V
    <2>1. P * (q + 1) <= P * (2 * V) /\ P * (q + 1) = P * q + P /\ P * (2 * V) = (2 * P) * V
      BY <1>1, <1>3
    <2>2. (2 * P) * V <= R * V /\ R * V \in Nat /\ P * q \in Nat /\ (2 * P) * V \in Nat
      BY <1>1, <1>2
    <2> QED BY <1>1, <1>3, <2>1, <2>2
  <1>7. R * V <= R * r /\ R * V \in Nat /\ R * r \in Nat
    BY <1>1, <1>4
  <1>8. PICK low \in Nat, high \in Nat : /\ low = s * V /\ high = t * V /\ low + V <= high
    BY <1>5
  <1>9. /\ U32ToF32RoundDown(x) < high + V /\ U32ToF32RoundUp(x) <= high + V
        /\ U32ToF32RoundDown(x) < U32ToF32RoundDown(y)
    <2>1. /\ U32ToF32RoundDown(x) = low + q /\ U32ToF32RoundDown(y) = high + r
          /\ U32ToF32RoundUp(x) = low + q \/ U32ToF32RoundUp(x) = low + q + 1
      BY <1>3, <1>4, <1>8
    <2>2. /\ low + q < high + V /\ low + q + 1 <= high + V /\ low + q < high + r
      BY <1>1, <1>3, <1>4, <1>8
    <2>3. low + q \in Nat /\ high + V \in Nat /\ high + r \in Nat
      BY <1>1
    <2> QED BY <2>1, <2>2, <2>3
  <1>10. R * V <= y
    BY <1>1, <1>4, <1>7
  <1> QED BY <1>2, <1>6, <1>8, <1>9, <1>10 DEF V

LEMMA SameShift ==
  ASSUME NEW x \in 0..MaxSize, NEW y \in 0..MaxSize, NEW s \in Nat, NEW q \in Nat, NEW r \in Nat,
         HasForm(x, s, q), HasForm(y, s, r), q < r
  PROVE  x < y /\ x < Power[s] * r
  <1>1. PICK P \in Nat \ {0} : P = Power[s]
    BY PowerDoubles DEF HasForm
  <1>2. x < P * q + P /\ P * r <= y /\ P * (q + 1) <= P * r /\ P * (q + 1) = P * q + P
    BY <1>1 DEF HasForm
  <1>3. P * q \in Nat /\ P * r \in Nat /\ x \in Nat /\ y \in Nat
    BY MaxSizeIs
  <1> QED BY <1>1, <1>2, <1>3

\* A larger size is in the same bin or in one behind it.
LEMMA RoundDownMonotone ==
  ASSUME NEW x \in 0..MaxSize, NEW y \in 0..MaxSize, x <= y
  PROVE  /\ U32ToF32RoundDown(x) \in Nat
         /\ U32ToF32RoundDown(x) <= U32ToF32RoundDown(y)
         /\ U32ToF32RoundDown(x) <= U32ToF32RoundUp(x)
  <1>1. PICK s \in Nat, q \in Nat : HasForm(x, s, q)
    BY FormExists
  <1>2. PICK t \in Nat, r \in Nat : HasForm(y, t, r)
    BY FormExists
  <1>3. x \in Nat /\ y \in Nat /\ MantissaValue \in Nat
    BY Mantissa, MaxSizeIs
  <1>4. s * MantissaValue \in Nat /\ t * MantissaValue \in Nat
    BY <1>3
  <1>5. /\ U32ToF32RoundDown(x) = s * MantissaValue + q
        /\ U32ToF32RoundDown(y) = t * MantissaValue + r
        /\ U32ToF32RoundUp(x) = s * MantissaValue + q + (IF Power[s] * q = x THEN 0 ELSE 1)
    BY <1>1, <1>2 DEF HasForm
  <1>6. U32ToF32RoundDown(x) <= U32ToF32RoundDown(y)
    <2>1. CASE s < t
      BY <1>1, <1>2, <1>4, <1>5, <2>1, FormsOrdered
    <2>2. CASE t < s
      <3>1. y < x
        <4>1. y < Power[s] * MantissaValue /\ Power[s] * MantissaValue <= x
          BY <1>1, <1>2, <2>2, FormsOrdered
        <4>2. Power[s] * MantissaValue \in Nat
          BY <1>1, <1>3, PowerDoubles DEF HasForm
        <4> QED BY <1>3, <4>1, <4>2
      <3> QED BY <1>3, <3>1
    <2>3. CASE s = t
      <3>1. ~(r < q)
        BY <1>1, <1>2, <1>3, <2>3, SameShift
      <3> QED BY <1>4, <1>5, <2>3, <3>1
    <2> QED BY <2>1, <2>2, <2>3
  <1> QED BY <1>4, <1>5, <1>6

\* What is in the bin of a request or behind it is large enough.
LEMMA RoundUpServes ==
  ASSUME NEW total \in 0..MaxSize, NEW size \in 0..MaxSize,
         U32ToF32RoundUp(size) <= U32ToF32RoundDown(total)
  PROVE  size <= total
  <1> SUFFICES ASSUME total < size PROVE FALSE
    BY MaxSizeIs
  <1>1. PICK s \in Nat, q \in Nat : HasForm(size, s, q)
    BY FormExists
  <1>2. PICK t \in Nat, r \in Nat : HasForm(total, t, r)
    BY FormExists
  <1>3. size \in Nat /\ total \in Nat /\ MantissaValue \in Nat
    BY Mantissa, MaxSizeIs
  <1>4. s * MantissaValue \in Nat /\ t * MantissaValue \in Nat
    BY <1>3
  <1>5. /\ U32ToF32RoundDown(total) = t * MantissaValue + r
        /\ U32ToF32RoundUp(size) = s * MantissaValue + q + (IF Power[s] * q = size THEN 0 ELSE 1)
    BY <1>1, <1>2 DEF HasForm
  <1>6. /\ U32ToF32RoundDown(total) <= U32ToF32RoundDown(size)
        /\ U32ToF32RoundDown(size) <= U32ToF32RoundUp(size)
        /\ U32ToF32RoundDown(size) = s * MantissaValue + q
    BY <1>1, <1>3, RoundDownMonotone DEF HasForm
  <1>7. Power[s] * q = size /\ t * MantissaValue + r = s * MantissaValue + q
    BY <1>4, <1>5, <1>6
  <1>8. ~(s < t) /\ ~(t < s)
    <2>1. s < t => U32ToF32RoundDown(size) < U32ToF32RoundDown(total)
      BY <1>1, <1>2, FormsOrdered
    <2>2. t < s => U32ToF32RoundDown(total) < U32ToF32RoundDown(size)
      BY <1>1, <1>2, FormsOrdered
    <2> QED BY <1>4, <1>5, <1>6, <1>7, <2>1, <2>2
  <1>9. s = t /\ q = r
    BY <1>4, <1>7, <1>8
  <1>10. size <= total
    BY <1>2, <1>7, <1>9 DEF HasForm
  <1> QED BY <1>3, <1>10

LEMMA FloatValue ==
  ASSUME NEW s \in 0..30, NEW q \in Nat, q <= 2 * MantissaValue, s = 0 \/ MantissaValue <= q,
         NEW f, f = s * MantissaValue + q
  PROVE  F32ToU32(f) = Power[s] * q
  <1> DEFINE V == MantissaValue
  <1>1. V \in Nat \ {0}
    BY Mantissa
  <1>2. Shr(f, MantissaBits) = f \div V /\ LowBits(f, MantissaBits) = f % V
    BY DEF Shr, LowBits, MantissaValue
  <1>3. Power[s] \in Nat /\ Power[s] = 2^s /\ Power[s + 1] = 2 * Power[s] /\ Power[s + 1] = 2^(s + 1)
    <2>1. s \in 0..31 /\ s + 1 \in 0..31
      OBVIOUS
    <2> QED BY <2>1, PowerDoubles, PowerIs
  <1>4. ASSUME NEW e \in Nat, NEW m \in 0..V - 1, f = V * e + m
        PROVE  F32ToU32(f) = IF e = 0 THEN m ELSE (m + V) * 2^(e - 1)
    <2>1. f \div V = e /\ f % V = m
      BY <1>1, <1>4, DivModUnique
    <2> HIDE DEF V
    <2> QED BY <1>2, <2>1 DEF F32ToU32, V
  <1> HIDE DEF V
  <1>5. CASE q < V
    <2>1. V * 0 = 0 /\ s = 0 /\ 0 * V = 0
      BY <1>1, <1>5 DEF V
    <2>2. f = V * 0 + q
      BY <1>1, <2>1 DEF V
    <2>3. F32ToU32(f) = q
      BY <1>1, <1>4, <1>5, <2>2
    <2> QED BY <2>1, <2>3, FirstPower
  <1>6. CASE V <= q /\ q < 2 * V
    <2>1. V * (s + 1) = V * s + V /\ V * s = s * V /\ V * s \in Nat
      BY <1>1
    <2>2. f = V * (s + 1) + (q - V) /\ q - V \in 0..V - 1 /\ s + 1 \in Nat
      BY <1>1, <1>6, <2>1 DEF V
    <2>3. F32ToU32(f) = IF s + 1 = 0 THEN q - V ELSE ((q - V) + V) * 2^((s + 1) - 1)
      BY <1>4, <2>2
    <2>4. s + 1 # 0 /\ (q - V) + V = q /\ (s + 1) - 1 = s
      BY <1>1
    <2>5. F32ToU32(f) = q * Power[s]
      BY <1>3, <2>3, <2>4, Zenon
    <2> QED BY <1>3, <2>5
  <1>7. CASE q = 2 * V
    <2>1. V * (s + 2) = V * s + 2 * V /\ V * s = s * V /\ V * s \in Nat
      BY <1>1
    <2>2. f = V * (s + 2) + 0 /\ 0 \in 0..V - 1 /\ s + 2 \in Nat
      BY <1>1, <1>7, <2>1 DEF V
    <2>3. F32ToU32(f) = IF s + 2 = 0 THEN 0 ELSE (0 + V) * 2^((s + 2) - 1)
      BY <1>4, <2>2
    <2>4. s + 2 # 0 /\ 0 + V = V /\ (s + 2) - 1 = s + 1
      BY <1>1
    <2>5. F32ToU32(f) = V * Power[s + 1]
      BY <1>3, <2>3, <2>4, Zenon
    <2>6. V * (2 * Power[s]) = Power[s] * (2 * V)
      BY <1>1, <1>3
    <2> QED BY <1>3, <1>7, <2>5, <2>6
  <1> QED BY <1>1, <1>5, <1>6, <1>7 DEF V

\* What is in front of the bin of a request is smaller than all the bin has.
LEMMA RoundUpIsTight ==
  ASSUME NEW total \in 0..MaxSize, NEW size \in 0..MaxSize,
         U32ToF32RoundDown(total) < U32ToF32RoundUp(size)
  PROVE  total < F32ToU32(U32ToF32RoundUp(size))
  <1> DEFINE V == MantissaValue
  <1>1. PICK s \in Nat, q \in Nat : HasForm(size, s, q)
    BY FormExists
  <1>2. PICK t \in Nat, r \in Nat : HasForm(total, t, r)
    BY FormExists
  <1>3. size \in Nat /\ total \in Nat /\ V \in Nat /\ s * V \in Nat /\ t * V \in Nat
    BY Mantissa, MaxSizeIs
  <1>4. PICK up \in Nat : /\ U32ToF32RoundUp(size) = s * V + up
                          /\ q <= up /\ up <= 2 * V
    <2>1. U32ToF32RoundUp(size) = s * V + q \/ U32ToF32RoundUp(size) = s * V + (q + 1)
      BY <1>1, <1>3 DEF HasForm
    <2>2. q < 2 * V
      BY <1>1 DEF HasForm
    <2> QED BY <1>3, <2>1, <2>2
  <1>5. PICK P \in Nat \ {0} : P = Power[s]
    BY <1>1, PowerDoubles DEF HasForm
  <1>6. F32ToU32(U32ToF32RoundUp(size)) = P * up
    <2>1. s \in 0..30 /\ (s = 0 \/ V <= up)
      BY <1>1, <1>3, <1>4 DEF HasForm
    <2> QED BY <1>4, <1>5, <2>1, FloatValue
  <1>7. U32ToF32RoundDown(total) = t * V + r
    BY <1>2 DEF HasForm
  <1>8. CASE s = t
    <2>1. r < up
      BY <1>3, <1>4, <1>7, <1>8
    <2>2. total < P * r + P
      BY <1>2, <1>5, <1>8 DEF HasForm
    <2>3. P * (r + 1) <= P * up /\ P * (r + 1) = P * r + P /\ P * r \in Nat /\ P * up \in Nat
      BY <2>1
    <2> QED BY <1>3, <1>6, <2>2, <2>3
  <1>9. CASE t < s
    <2>1. total < P * V
      BY <1>1, <1>2, <1>5, <1>9, FormsOrdered
    <2>2. V <= q
      BY <1>1, <1>9 DEF HasForm
    <2> HIDE DEF V
    <2>3. P * V <= P * up /\ P * V \in Nat /\ P * up \in Nat
      BY <1>3, <1>4, <2>2
    <2> QED BY <1>3, <1>6, <2>1, <2>3
  <1>10. CASE s < t
    <2>1. U32ToF32RoundUp(size) <= t * V + V
      BY <1>1, <1>2, <1>10, FormsOrdered
    <2>2. V <= r
      BY <1>2, <1>10 DEF HasForm
    <2> QED BY <1>3, <1>4, <1>7, <2>1, <2>2
  <1> QED BY <1>8, <1>9, <1>10

\* The groups are intervals of bins.
LEMMA TopAndLeaf ==
  ASSUME NEW a \in Nat, NEW b \in Nat
  PROVE  /\ TopOf(a) \in Nat /\ LeafOf(a) \in Nat
         /\ TopOf(a) < TopOf(b) => a < b
         /\ TopOf(a) = TopOf(b) => (a <= b <=> LeafOf(a) <= LeafOf(b))
  <1> DEFINE V == MantissaValue
             c == a \div V
             d == b \div V
  <1>1. V \in Nat \ {0}
    BY Mantissa
  <1>2. /\ TopOf(a) = c /\ LeafOf(a) = a % V
        /\ TopOf(b) = d /\ LeafOf(b) = b % V
    BY DEF TopOf, LeafOf, Shr, LowBits, MantissaValue
  <1>3. /\ c \in Nat /\ d \in Nat
        /\ a = V * c + (a % V) /\ a % V \in 0..V - 1
        /\ b = V * d + (b % V) /\ b % V \in 0..V - 1
    BY <1>1, DivFacts, DivMod
  <1> HIDE DEF V, c, d
  <1>4. c < d => V * c + V <= V * d
    <2>1. c < d => V * (c + 1) <= V * d
      BY <1>1, <1>3
    <2>2. V * (c + 1) = V * c + V
      BY <1>1, <1>3
    <2> QED BY <2>1, <2>2
  <1>5. V * c \in Nat /\ V * d \in Nat
    BY <1>1, <1>3
  <1>6. c < d => a < b
    BY <1>1, <1>3, <1>4, <1>5
  <1>7. c = d => (a <= b <=> a % V <= b % V)
    BY <1>1, <1>3, <1>5
  <1> QED BY <1>2, <1>3, <1>6, <1>7

-----------------------------------------------------------------------------
(* The state of the allocator, field by field                              *)

Link == Nodes \cup {NIL}
Node == [dataOffset : Int, dataSize : Int,
         binListPrev : Link \cup {CLEARED}, binListNext : Link \cup {CLEARED}]
Neighbor == [prev : Link, next : Link]

State ==
  [ m_freeStorage  : Int,
    m_usedBinsTop  : SUBSET Tops,
    m_usedBins     : SUBSET Bins,
    m_binIndices   : [Bins -> Link],
    m_nodes        : [Nodes -> Node],
    m_neighbors    : [Nodes -> Neighbor],
    m_nodeUsed     : SUBSET Nodes,
    m_freeIndex    : 0..MaxAllocs,
    m_freeListHead : Link,
    m_freeOffset   : 0..MaxAllocs-1 ]

\* Where a node is: in one of the lists that have a head (the spare nodes and the
\* bins), allocated, never used so far, or between two of these.
SPARE  == -1
USED   == -2
UNUSED == -3
LIMBO  == -4
Heads  == {SPARE} \cup Bins
Places == Heads \cup {USED, UNUSED, LIMBO}

NextOf(s)   == [n \in Nodes |-> s.m_nodes[n].binListNext]
PrevOf(s)   == [n \in Nodes |-> s.m_nodes[n].binListPrev]
OffsetOf(s) == [n \in Nodes |-> s.m_nodes[n].dataOffset]
SizeOf(s)   == [n \in Nodes |-> s.m_nodes[n].dataSize]
LeftOf(s)   == [n \in Nodes |-> s.m_neighbors[n].prev]
RightOf(s)  == [n \in Nodes |-> s.m_neighbors[n].next]
HeadOf(s)   == [l \in Heads |-> IF l = SPARE THEN s.m_freeListHead ELSE s.m_binIndices[l]]

SameTile(s, t, n) ==
  /\ OffsetOf(t)[n] = OffsetOf(s)[n] /\ SizeOf(t)[n] = SizeOf(s)[n]
  /\ LeftOf(t)[n] = LeftOf(s)[n] /\ RightOf(t)[n] = RightOf(s)[n]

LEMMA Numbers ==
  /\ Size \in Nat \ {0} /\ Size <= MaxSize /\ 0..Size \subseteq 0..MaxSize
  /\ MaxAllocs \in Nat /\ MaxAllocs >= 2 /\ Nodes = 0..MaxAllocs-1 /\ NIL \notin Nodes
  /\ CLEARED \notin Nodes /\ NIL = -1
  BY OffsetAssumption, MaxSizeIs DEF Nodes, NIL, CLEARED

\* The bin a free region is filed under exists.
LEMMA BinOf ==
  /\ Bins \subseteq Nat /\ Bins # {}
  /\ \A size \in 0..Size : U32ToF32RoundDown(size) \in Bins
  /\ SPARE \notin Bins /\ USED \notin Heads /\ UNUSED \notin Heads /\ LIMBO \notin Heads
  <1>1. ASSUME NEW size \in 0..Size
        PROVE  U32ToF32RoundDown(size) \in Nat /\ U32ToF32RoundDown(size) <= U32ToF32RoundDown(Size)
    <2>1. size \in 0..MaxSize /\ Size \in 0..MaxSize /\ size <= Size
      BY Numbers
    <2> QED BY <2>1, RoundDownMonotone
  <1>2. U32ToF32RoundDown(Size) \in Nat
    <2>1. Size \in 0..Size
      BY Numbers
    <2> QED BY <1>1, <2>1
  <1>3. Bins \subseteq Nat
    BY <1>2 DEF Bins
  <1>4. Bins # {}
    <2>1. 0 \in Bins
      BY <1>2 DEF Bins
    <2> QED BY <2>1
  <1> QED BY <1>1, <1>2, <1>3, <1>4 DEF Bins, SPARE, USED, UNUSED, LIMBO, Heads

LEMMA SetPrevIs ==
  ASSUME NEW nodes \in [Nodes -> Node], NEW k \in Link, NEW p \in Link
  PROVE  /\ SetPrev(nodes, k, p) \in [Nodes -> Node]
         /\ \A m \in Nodes :
              LET node == SetPrev(nodes, k, p)[m]
              IN  /\ node.dataOffset = nodes[m].dataOffset /\ node.dataSize = nodes[m].dataSize
                  /\ node.binListNext = nodes[m].binListNext
                  /\ node.binListPrev = IF m = k THEN p ELSE nodes[m].binListPrev
  <1>1. CASE k = NIL
    BY <1>1, Numbers DEF SetPrev, Node
  <1>2. CASE k # NIL
    <2>1. k \in Nodes
      BY <1>2 DEF Link
    <2>2. SetPrev(nodes, k, p) = [nodes EXCEPT ![k] = [nodes[k] EXCEPT !.binListPrev = p]]
      BY <1>2 DEF SetPrev
    <2>3. nodes[k] \in Node /\ [nodes[k] EXCEPT !.binListPrev = p] \in Node
      BY <2>1 DEF Node
    <2> QED BY <2>1, <2>2, <2>3 DEF Node
  <1> QED BY <1>1, <1>2

-----------------------------------------------------------------------------
(* Doubly linked lists                                                     *)

NodeLinked(next, prev, head, list, rank, n) ==
  /\ next[n] # NIL => /\ next[n] \in Nodes /\ list[next[n]] = list[n]
                      /\ prev[next[n]] = n /\ rank[next[n]] < rank[n]
  /\ prev[n] # NIL => /\ prev[n] \in Nodes /\ list[prev[n]] = list[n]
                      /\ next[prev[n]] = n
  /\ prev[n] = NIL => head[list[n]] = n

\* Every node whose place is a list is in it: from its head on, and down in rank.
Linked(next, prev, head, list, rank) ==
  /\ \A l \in Heads : head[l] # NIL => /\ head[l] \in Nodes /\ list[head[l]] = l
                                       /\ prev[head[l]] = NIL
  /\ \A n \in Nodes : list[n] \in Heads => NodeLinked(next, prev, head, list, rank, n)

Linkable(next, prev, head, list) ==
  \E rank \in [Nodes -> Int] : Linked(next, prev, head, list, rank)

\* A node that is put in front of a list.
LEMMA PushLinks ==
  ASSUME NEW next, NEW prev, NEW head, NEW list, Linkable(next, prev, head, list),
         NEW next2, NEW prev2, NEW head2, NEW list2,
         NEW n \in Nodes, NEW l \in Heads, list[n] \notin Heads,
         next2[n] = head[l], prev2[n] = NIL, head2[l] = n, list2[n] = l,
         \A m \in Nodes \ {n} :
           /\ next2[m] = next[m] /\ list2[m] = list[m]
           /\ prev2[m] = IF m = head[l] THEN n ELSE prev[m],
         \A k \in Heads \ {l} : head2[k] = head[k]
  PROVE  Linkable(next2, prev2, head2, list2)
  <1>0. PICK rank \in [Nodes -> Int] : Linked(next, prev, head, list, rank)
    BY DEF Linkable
  <1> DEFINE rank2 == [m \in Nodes |-> IF m # n THEN rank[m]
                                       ELSE IF head[l] # NIL THEN rank[head[l]] + 1 ELSE 0]
  <1>1. head[l] # NIL => /\ head[l] \in Nodes /\ list[head[l]] = l /\ prev[head[l]] = NIL
                         /\ head[l] # n
    BY <1>0 DEF Linked
  <1>2. rank2 \in [Nodes -> Int]
    BY <1>1
  <1>3. /\ rank2[n] = IF head[l] # NIL THEN rank[head[l]] + 1 ELSE 0
        /\ \A m \in Nodes \ {n} : rank2[m] = rank[m]
    OBVIOUS
  <1> HIDE DEF rank2
  <1>4. ASSUME NEW k \in Heads, head2[k] # NIL
        PROVE  head2[k] \in Nodes /\ list2[head2[k]] = k /\ prev2[head2[k]] = NIL
    <2>1. CASE k = l
      BY <2>1
    <2>2. CASE k # l
      <3>1. /\ head2[k] = head[k] /\ head[k] \in Nodes /\ list[head[k]] = k
            /\ prev[head[k]] = NIL
        BY <1>0, <1>4, <2>2 DEF Linked
      <3>2. head[k] # n /\ head[k] # head[l]
        BY <1>1, <2>2, <3>1, Numbers
      <3> QED BY <3>1, <3>2
    <2> QED BY <2>1, <2>2
  <1>5. NodeLinked(next2, prev2, head2, list2, rank2, n)
    <2>1. head[l] # NIL => rank[head[l]] < rank2[n] /\ rank2[head[l]] = rank[head[l]]
      BY <1>1, <1>3
    <2> QED BY <1>1, <2>1, Numbers DEF NodeLinked
  <1>6. ASSUME NEW m \in Nodes, m # n, list[m] \in Heads
        PROVE  NodeLinked(next2, prev2, head2, list2, rank2, m)
    <2>1. NodeLinked(next, prev, head, list, rank, m)
      BY <1>0, <1>6 DEF Linked
    <2>2. next2[m] = next[m] /\ list2[m] = list[m] /\ rank2[m] = rank[m]
      BY <1>3, <1>6
    <2>3. next[m] # NIL => /\ next[m] # n /\ next[m] # head[l]
                           /\ prev2[next[m]] = m /\ list2[next[m]] = list[m]
                           /\ rank2[next[m]] = rank[next[m]]
      <3>1. next[m] # NIL => /\ next[m] \in Nodes /\ list[next[m]] = list[m]
                             /\ prev[next[m]] = m /\ prev[next[m]] # NIL
        BY <2>1, Numbers DEF NodeLinked
      <3>2. next[m] # NIL => next[m] # n /\ next[m] # head[l]
        BY <1>1, <1>6, <3>1
      <3> QED BY <1>3, <3>1, <3>2
    <2>4. CASE m = head[l]
      <3>1. prev2[m] = n /\ next2[n] = m /\ list2[n] = list[m]
        BY <1>1, <1>6, <2>4, Numbers
      <3> QED BY <2>1, <2>2, <2>3, <3>1, Numbers DEF NodeLinked
    <2>5. CASE m # head[l]
      <3>1. prev2[m] = prev[m]
        BY <1>6, <2>5
      <3>2. prev[m] # NIL => prev[m] # n /\ next2[prev[m]] = m /\ list2[prev[m]] = list[m]
        BY <1>6, <2>1 DEF NodeLinked
      <3>3. prev[m] = NIL => list[m] # l /\ head2[list[m]] = m
        BY <1>6, <2>1, <2>5 DEF NodeLinked
      <3> QED BY <2>1, <2>2, <2>3, <3>1, <3>2, <3>3 DEF NodeLinked
    <2> QED BY <2>4, <2>5
  <1>7. Linked(next2, prev2, head2, list2, rank2)
    BY <1>4, <1>5, <1>6 DEF Linked
  <1> QED BY <1>2, <1>7 DEF Linkable

\* A node that leaves its list.
LEMMA RemoveLinks ==
  ASSUME NEW next, NEW prev, NEW head, NEW list, Linkable(next, prev, head, list),
         NEW next2, NEW prev2, NEW head2, NEW list2,
         NEW n \in Nodes, NEW l \in Heads, list[n] = l, list2[n] \notin Heads,
         \A m \in Nodes \ {n} :
           /\ list2[m] = list[m]
           /\ next2[m] = IF m = prev[n] THEN next[n] ELSE next[m]
           /\ prev2[m] = IF m = next[n] THEN prev[n] ELSE prev[m],
         head2[l] = IF prev[n] = NIL THEN next[n] ELSE head[l],
         \A k \in Heads \ {l} : head2[k] = head[k]
  PROVE  Linkable(next2, prev2, head2, list2)
  <1>0. PICK rank \in [Nodes -> Int] : Linked(next, prev, head, list, rank)
    BY DEF Linkable
  <1>1. NodeLinked(next, prev, head, list, rank, n)
    BY <1>0 DEF Linked
  <1>2. /\ next[n] # NIL => next[n] \in Nodes \ {n} /\ list[next[n]] = l
        /\ prev[n] # NIL => prev[n] \in Nodes \ {n} /\ list[prev[n]] = l
    <2>1. next[n] # NIL => rank[next[n]] < rank[n] /\ next[n] # n
      BY <1>1 DEF NodeLinked
    <2>2. prev[n] # NIL => prev[n] # n
      <3>1. ASSUME prev[n] = n, prev[n] # NIL PROVE FALSE
        BY <1>1, <2>1, <3>1 DEF NodeLinked
      <3> QED BY <3>1
    <2> QED BY <1>1, <2>1, <2>2 DEF NodeLinked
  <1>3. ASSUME NEW k \in Heads, head2[k] # NIL
        PROVE  head2[k] \in Nodes /\ list2[head2[k]] = k /\ prev2[head2[k]] = NIL
    <2>1. CASE k # l
      <3>1. /\ head2[k] = head[k] /\ head[k] \in Nodes /\ list[head[k]] = k
            /\ prev[head[k]] = NIL
        BY <1>0, <1>3, <2>1 DEF Linked
      <3>2. head[k] # n /\ head[k] # next[n]
        BY <1>2, <2>1, <3>1, Numbers
      <3> QED BY <3>1, <3>2
    <2>2. CASE k = l /\ prev[n] = NIL
      <3>1. head2[k] = next[n] /\ next[n] \in Nodes \ {n} /\ list[next[n]] = l
        BY <1>2, <1>3, <2>2
      <3> QED BY <2>2, <3>1
    <2>3. CASE k = l /\ prev[n] # NIL
      <3>1. head2[k] = head[l] /\ head[l] \in Nodes /\ list[head[l]] = l /\ prev[head[l]] = NIL
        BY <1>0, <1>3, <2>3 DEF Linked
      <3>2. head[l] # n
        BY <2>3, <3>1
      <3>3. head[l] # next[n]
        <4>1. next[n] # NIL => prev[next[n]] = n
          BY <1>1 DEF NodeLinked
        <4> QED BY <3>1, <4>1, Numbers
      <3> QED BY <2>3, <3>1, <3>2, <3>3
    <2> QED BY <2>1, <2>2, <2>3
  <1>4. ASSUME NEW m \in Nodes, list2[m] \in Heads
        PROVE  NodeLinked(next2, prev2, head2, list2, rank, m)
    <2>1. m # n /\ list2[m] = list[m] /\ list[m] \in Heads
      BY <1>4
    <2>2. NodeLinked(next, prev, head, list, rank, m)
      BY <1>0, <2>1 DEF Linked
    <2>3. next2[m] # NIL => /\ next2[m] \in Nodes /\ list2[next2[m]] = list2[m]
                            /\ prev2[next2[m]] = m /\ rank[next2[m]] < rank[m]
      <3>1. CASE m = prev[n]
        <4>1. next2[m] = next[n] /\ list[m] = l
          BY <1>2, <2>1, <3>1, Numbers
        <4>2. next[n] # NIL => /\ list[next[n]] = l /\ rank[next[n]] < rank[n] /\ next[n] \in Nodes \ {n}
          BY <1>1, <1>2 DEF NodeLinked
        <4>3. next[m] = n /\ rank[n] < rank[m]
          <5>1. next[m] = n
            BY <1>1, <3>1, Numbers DEF NodeLinked
          <5> QED BY <2>2, <5>1, Numbers DEF NodeLinked
        <4>4. next[n] # NIL => rank[next[n]] \in Int /\ rank[n] \in Int /\ rank[m] \in Int
          BY <4>2
        <4>5. next[n] # NIL => prev2[next[n]] = m /\ list2[next[n]] = list[next[n]]
          BY <3>1, <4>2
        <4> QED BY <2>1, <4>1, <4>2, <4>3, <4>4, <4>5
      <3>2. CASE m # prev[n]
        <4>1. next2[m] = next[m]
          BY <2>1, <3>2
        <4>2. next[m] # NIL => /\ next[m] \in Nodes /\ next[m] # n /\ list[next[m]] = list[m]
                               /\ prev[next[m]] = m /\ rank[next[m]] < rank[m]
          BY <2>2, <3>2 DEF NodeLinked
        <4>3. next[m] # NIL => next[m] # next[n]
          <5>1. next[n] # NIL => prev[next[n]] = n
            BY <1>1 DEF NodeLinked
          <5> QED BY <2>1, <4>2, <5>1
        <4> QED BY <2>1, <4>1, <4>2, <4>3
      <3> QED BY <3>1, <3>2
    <2>4. /\ prev2[m] # NIL => /\ prev2[m] \in Nodes /\ list2[prev2[m]] = list2[m]
                               /\ next2[prev2[m]] = m
          /\ prev2[m] = NIL => head2[list2[m]] = m
      <3>1. CASE m = next[n]
        <4>1. prev2[m] = prev[n] /\ list[m] = l
          BY <1>2, <2>1, <3>1, Numbers
        <4>2. prev[n] # NIL => /\ prev[n] \in Nodes \ {n} /\ next2[prev[n]] = m
                               /\ list2[prev[n]] = l
          BY <1>2, <3>1
        <4>3. prev[n] = NIL => head2[l] = m
          BY <3>1
        <4> QED BY <2>1, <4>1, <4>2, <4>3
      <3>2. CASE m # next[n]
        <4>1. prev2[m] = prev[m]
          BY <2>1, <3>2
        <4>2. prev[m] # NIL => /\ prev[m] \in Nodes /\ prev[m] # n /\ list[prev[m]] = list[m]
                               /\ next[prev[m]] = m
          BY <2>2, <3>2 DEF NodeLinked
        <4>3. prev[m] # NIL => prev[m] # prev[n]
          <5>1. prev[n] # NIL => next[prev[n]] = n
            BY <1>1 DEF NodeLinked
          <5> QED BY <2>1, <4>2, <5>1
        <4>4. prev[m] = NIL => head[list[m]] = m
          BY <2>2 DEF NodeLinked
        <4>5. prev[m] = NIL => head2[list[m]] = m
          <5>1. CASE list[m] = l /\ prev[m] = NIL
            <6>1. prev[n] = NIL => head[l] = n
              BY <1>1 DEF NodeLinked
            <6> QED BY <2>1, <4>4, <5>1, <6>1
          <5>2. CASE list[m] # l
            BY <2>1, <4>4, <5>2
          <5> QED BY <5>1, <5>2
        <4> QED BY <2>1, <4>1, <4>2, <4>3, <4>5
      <3> QED BY <3>1, <3>2
    <2> QED BY <2>3, <2>4 DEF NodeLinked
  <1>5. Linked(next2, prev2, head2, list2, rank)
    BY <1>3, <1>4 DEF Linked
  <1> QED BY <1>5 DEF Linkable

-----------------------------------------------------------------------------
(* The nodes and their places                                              *)

Linking(s, list) == Linkable(NextOf(s), PrevOf(s), HeadOf(s), list)

\* list says of every node of s where it is.
Lists(s, list) ==
  /\ list \in [Nodes -> Places]
  /\ Linking(s, list)
  /\ s.m_nodeUsed = {n \in Nodes : list[n] = USED}
  /\ \A n \in Nodes : list[n] = UNUSED <=> s.m_freeIndex <= n
  /\ \A n \in Nodes : list[n] \in {SPARE, UNUSED} => OffsetOf(s)[n] = 0 /\ SizeOf(s)[n] = 0
  /\ \A n \in Nodes : list[n] \in Bins => /\ SizeOf(s)[n] \in 0..Size
                                          /\ U32ToF32RoundDown(SizeOf(s)[n]) = list[n]

\* The bitmaps name the bins with a node.
Bitmaps(s) ==
  /\ s.m_usedBins = {b \in Bins : s.m_binIndices[b] # NIL}
  /\ s.m_usedBinsTop = {TopOf(b) : b \in s.m_usedBins}


PlacedAt(list, list2, n, p) ==
  /\ list2 \in [Nodes -> Places] /\ list2[n] = p
  /\ \A m \in Nodes \ {n} : list2[m] = list[m]

LEMMA PushSpareIs ==
  ASSUME NEW s \in State, NEW n \in Nodes, n # s.m_freeListHead, NEW t, t = PushSpare(s, n)
  PROVE  /\ t \in State
         /\ t.m_freeListHead = n /\ t.m_nodeUsed = s.m_nodeUsed \ {n}
         /\ t.m_freeStorage = s.m_freeStorage /\ t.m_usedBinsTop = s.m_usedBinsTop
         /\ t.m_usedBins = s.m_usedBins /\ t.m_binIndices = s.m_binIndices
         /\ t.m_freeIndex = s.m_freeIndex /\ t.m_freeOffset = s.m_freeOffset
         /\ NextOf(t)[n] = s.m_freeListHead /\ PrevOf(t)[n] = NIL
         /\ OffsetOf(t)[n] = 0 /\ SizeOf(t)[n] = 0
         /\ \A m \in Nodes \ {n} :
              /\ NextOf(t)[m] = NextOf(s)[m] /\ SameTile(s, t, m)
              /\ PrevOf(t)[m] = IF m = s.m_freeListHead THEN n ELSE PrevOf(s)[m]
  <1> DEFINE head  == s.m_freeListHead
             fresh == [NoNode EXCEPT !.binListNext = head]
             nodes == [s.m_nodes EXCEPT ![n] = fresh]
             linked == SetPrev(nodes, head, n)
             around == [s.m_neighbors EXCEPT ![n] = NoNeighbor]
  <1>1. head \in Link /\ n \in Link
    BY DEF State, Link
  <1>2. /\ fresh \in Node /\ fresh.binListNext = head /\ fresh.binListPrev = NIL
        /\ fresh.dataOffset = 0 /\ fresh.dataSize = 0
    BY <1>1 DEF NoNode, Node, Link
  <1>3. /\ nodes \in [Nodes -> Node] /\ nodes[n] = fresh
        /\ \A m \in Nodes \ {n} : nodes[m] = s.m_nodes[m]
    <2> HIDE DEF fresh
    <2> QED BY <1>2 DEF State
  <1>4. /\ around \in [Nodes -> Neighbor] /\ \A m \in Nodes \ {n} : around[m] = s.m_neighbors[m]
    BY DEF State, Neighbor, NoNeighbor, Link
  <1>5. t = [s EXCEPT !.m_nodes = linked, !.m_neighbors = around,
                      !.m_nodeUsed = s.m_nodeUsed \ {n}, !.m_freeListHead = n]
    BY DEF PushSpare
  <1> HIDE DEF nodes, around, fresh
  <1>6. /\ linked \in [Nodes -> Node]
        /\ \A m \in Nodes :
             LET node == linked[m]
             IN  /\ node.dataOffset = nodes[m].dataOffset /\ node.dataSize = nodes[m].dataSize
                 /\ node.binListNext = nodes[m].binListNext
                 /\ node.binListPrev = IF m = head THEN n ELSE nodes[m].binListPrev
    BY <1>1, <1>3, SetPrevIs
  <1> HIDE DEF linked
  <1>7. t \in State /\ t.m_nodes = linked /\ t.m_neighbors = around
    BY <1>1, <1>4, <1>5, <1>6, ZenonT(60) DEF State
  <1>8. /\ t.m_freeListHead = n /\ t.m_nodeUsed = s.m_nodeUsed \ {n}
        /\ t.m_freeStorage = s.m_freeStorage /\ t.m_usedBinsTop = s.m_usedBinsTop
        /\ t.m_usedBins = s.m_usedBins /\ t.m_binIndices = s.m_binIndices
        /\ t.m_freeIndex = s.m_freeIndex /\ t.m_freeOffset = s.m_freeOffset
    BY <1>5 DEF State
  <1>9. /\ NextOf(t)[n] = head /\ PrevOf(t)[n] = NIL
        /\ OffsetOf(t)[n] = 0 /\ SizeOf(t)[n] = 0
    BY <1>2, <1>3, <1>6, <1>7 DEF NextOf, PrevOf, OffsetOf, SizeOf
  <1>10. ASSUME NEW m \in Nodes \ {n}
         PROVE  /\ NextOf(t)[m] = NextOf(s)[m] /\ SameTile(s, t, m)
                /\ PrevOf(t)[m] = IF m = head THEN n ELSE PrevOf(s)[m]
    BY <1>3, <1>4, <1>6, <1>7 DEF NextOf, PrevOf, OffsetOf, SizeOf, LeftOf, RightOf, SameTile
  <1> QED BY <1>7, <1>8, <1>9, <1>10

Pushed(s, list, n, t, list2) ==
  n # s.m_freeListHead /\ Lists(t, list2)

\* A node that is in no list goes to the freelist.
LEMMA PushSpareLists ==
  ASSUME NEW s \in State, NEW list, NEW n \in Nodes, Lists(s, list), list[n] \in {USED, LIMBO},
         NEW t, t = PushSpare(s, n), NEW list2, PlacedAt(list, list2, n, SPARE)
  PROVE  Pushed(s, list, n, t, list2)
  <1>1. PICK rank \in [Nodes -> Int] : Linked(NextOf(s), PrevOf(s), HeadOf(s), list, rank)
    BY DEF Lists, Linking, Linkable
  <1>2. list[n] \notin Heads
    BY BinOf
  <1>3. HeadOf(s)[SPARE] = s.m_freeListHead /\ SPARE \in Heads
    BY DEF HeadOf, Heads
  <1>4. n # s.m_freeListHead
    BY <1>1, <1>2, <1>3, Numbers DEF Linked
  <1>5. /\ t.m_freeListHead = n /\ t.m_nodeUsed = s.m_nodeUsed \ {n}
        /\ t.m_binIndices = s.m_binIndices
        /\ t.m_freeIndex = s.m_freeIndex
        /\ NextOf(t)[n] = s.m_freeListHead /\ PrevOf(t)[n] = NIL
        /\ OffsetOf(t)[n] = 0 /\ SizeOf(t)[n] = 0
        /\ \A m \in Nodes \ {n} :
             /\ NextOf(t)[m] = NextOf(s)[m] /\ SameTile(s, t, m)
             /\ PrevOf(t)[m] = IF m = s.m_freeListHead THEN n ELSE PrevOf(s)[m]
    BY <1>4, PushSpareIs
  <1>6. HeadOf(t)[SPARE] = n /\ \A k \in Heads \ {SPARE} : HeadOf(t)[k] = HeadOf(s)[k]
    BY <1>5 DEF HeadOf, Heads
  <1>7. list2[n] = SPARE /\ \A m \in Nodes \ {n} : list2[m] = list[m]
    BY DEF PlacedAt
  <1>8. Linkable(NextOf(t), PrevOf(t), HeadOf(t), list2)
    <2>1. /\ NextOf(t)[n] = HeadOf(s)[SPARE] /\ PrevOf(t)[n] = NIL /\ HeadOf(t)[SPARE] = n
          /\ \A k \in Heads \ {SPARE} : HeadOf(t)[k] = HeadOf(s)[k]
      BY <1>3, <1>5, <1>6
    <2>2. \A m \in Nodes \ {n} :
            /\ NextOf(t)[m] = NextOf(s)[m] /\ list2[m] = list[m]
            /\ PrevOf(t)[m] = IF m = HeadOf(s)[SPARE] THEN n ELSE PrevOf(s)[m]
      BY <1>3, <1>5, <1>7
    <2>3. /\ n \in Nodes /\ SPARE \in Heads /\ list2[n] = SPARE
          /\ Linkable(NextOf(s), PrevOf(s), HeadOf(s), list)
      BY <1>3, <1>7 DEF Lists, Linking
    <2> QED BY ONLY <1>2, <2>1, <2>2, <2>3, PushLinks
  <1>9. t.m_nodeUsed = {m \in Nodes : list2[m] = USED}
    BY <1>5, <1>7 DEF Lists, SPARE, USED
  <1>10. \A m \in Nodes : list2[m] = UNUSED <=> t.m_freeIndex <= m
    BY <1>5, <1>7 DEF Lists, SPARE, USED, UNUSED, LIMBO
  <1>11. \A m \in Nodes : list2[m] \in {SPARE, UNUSED} => OffsetOf(t)[m] = 0 /\ SizeOf(t)[m] = 0
    BY <1>5, <1>7 DEF Lists, SameTile
  <1>12. \A m \in Nodes : list2[m] \in Bins => /\ SizeOf(t)[m] \in 0..Size
                                               /\ U32ToF32RoundDown(SizeOf(t)[m]) = list2[m]
    BY <1>5, <1>7, BinOf DEF Lists, SameTile
  <1> QED BY <1>4, <1>8, <1>9, <1>10, <1>11, <1>12 DEF Lists, Linking, PlacedAt, Pushed

\* The first node of a list.
LEMMA HeadFacts ==
  ASSUME NEW s \in State, NEW list, Lists(s, list), NEW l \in Heads, NEW n,
         n = HeadOf(s)[l], n # NIL
  PROVE  /\ n \in Nodes /\ list[n] = l /\ PrevOf(s)[n] = NIL
         /\ NextOf(s)[n] \in Link /\ NextOf(s)[n] # n
         /\ NextOf(s)[n] # NIL => list[NextOf(s)[n]] = l
  <1>1. PICK rank \in [Nodes -> Int] : Linked(NextOf(s), PrevOf(s), HeadOf(s), list, rank)
    BY DEF Lists, Linking, Linkable
  <1>2. n \in Nodes /\ list[n] = l /\ PrevOf(s)[n] = NIL
    BY <1>1 DEF Linked
  <1>3. NodeLinked(NextOf(s), PrevOf(s), HeadOf(s), list, rank, n)
    BY <1>1, <1>2 DEF Linked
  <1> QED BY <1>2, <1>3 DEF NodeLinked, Link

\* The links of a node in a list.
LEMMA LinkFacts ==
  ASSUME NEW s \in State, NEW list, Lists(s, list), NEW n \in Nodes, list[n] \in Heads
  PROVE  /\ NextOf(s)[n] \in Link /\ PrevOf(s)[n] \in Link
         /\ NextOf(s)[n] # n /\ PrevOf(s)[n] # n
         /\ NextOf(s)[n] # NIL => NextOf(s)[n] # PrevOf(s)[n]
         /\ NextOf(s)[n] # NIL => list[NextOf(s)[n]] = list[n]
         /\ PrevOf(s)[n] # NIL => list[PrevOf(s)[n]] = list[n] /\ NextOf(s)[PrevOf(s)[n]] = n
         /\ PrevOf(s)[n] = NIL => HeadOf(s)[list[n]] = n
  <1>1. PICK rank \in [Nodes -> Int] : Linked(NextOf(s), PrevOf(s), HeadOf(s), list, rank)
    BY DEF Lists, Linking, Linkable
  <1>2. NodeLinked(NextOf(s), PrevOf(s), HeadOf(s), list, rank, n)
    BY <1>1 DEF Linked
  <1>3. NextOf(s)[n] # NIL => NextOf(s)[n] \in Nodes /\ rank[NextOf(s)[n]] < rank[n]
    BY <1>2 DEF NodeLinked
  <1>4. PrevOf(s)[n] # NIL => /\ PrevOf(s)[n] \in Nodes /\ rank[n] < rank[PrevOf(s)[n]]
                              /\ list[PrevOf(s)[n]] = list[n] /\ NextOf(s)[PrevOf(s)[n]] = n
    <2>1. PrevOf(s)[n] # NIL => /\ PrevOf(s)[n] \in Nodes /\ list[PrevOf(s)[n]] = list[n]
                                /\ NextOf(s)[PrevOf(s)[n]] = n
      BY <1>2 DEF NodeLinked
    <2>2. PrevOf(s)[n] # NIL => NodeLinked(NextOf(s), PrevOf(s), HeadOf(s), list, rank, PrevOf(s)[n])
      BY <1>1, <2>1 DEF Linked
    <2> QED BY <2>1, <2>2, Numbers DEF NodeLinked
  <1>5. NextOf(s)[n] # n /\ PrevOf(s)[n] # n
    BY <1>3, <1>4, Numbers
  <1>6. NextOf(s)[n] # NIL => NextOf(s)[n] # PrevOf(s)[n]
    BY <1>3, <1>4
  <1> QED BY <1>2, <1>3, <1>4, <1>5, <1>6 DEF NodeLinked, Link

\* A spare node is taken.
LEMMA TakeSpareLists ==
  ASSUME NEW s \in State, NEW list, Lists(s, list), NEW c, c = SpareNode(s), c # NIL,
         NEW t, t = TakeSpare(s), NEW list2, PlacedAt(list, list2, c, LIMBO)
  PROVE  /\ c \in Nodes /\ list[c] \in {SPARE, UNUSED}
         /\ t \in State /\ Lists(t, list2)
         /\ t.m_freeStorage = s.m_freeStorage /\ t.m_usedBinsTop = s.m_usedBinsTop
         /\ t.m_usedBins = s.m_usedBins /\ t.m_binIndices = s.m_binIndices
         /\ t.m_freeOffset = s.m_freeOffset
         /\ \A m \in Nodes : SameTile(s, t, m)
  <1>1. /\ list \in [Nodes -> Places] /\ Linking(s, list)
        /\ s.m_nodeUsed = {n \in Nodes : list[n] = USED}
        /\ \A n \in Nodes : list[n] = UNUSED <=> s.m_freeIndex <= n
        /\ \A n \in Nodes : list[n] \in {SPARE, UNUSED} => OffsetOf(s)[n] = 0 /\ SizeOf(s)[n] = 0
        /\ \A n \in Nodes : list[n] \in Bins => /\ SizeOf(s)[n] \in 0..Size
                                                /\ U32ToF32RoundDown(SizeOf(s)[n]) = list[n]
    BY DEF Lists
  <1>2. list2 \in [Nodes -> Places] /\ list2[c] = LIMBO /\ \A m \in Nodes \ {c} : list2[m] = list[m]
    BY DEF PlacedAt
  <1>3. LIMBO \notin Heads /\ LIMBO # UNUSED /\ LIMBO # USED /\ LIMBO # SPARE /\ SPARE # UNUSED
        /\ SPARE # USED /\ UNUSED # USED /\ UNUSED \notin Heads /\ Bins \subseteq Heads
    BY BinOf DEF LIMBO, UNUSED, USED, SPARE, Heads
  <1>4. CASE s.m_freeListHead # NIL
    <2>1. c = s.m_freeListHead /\ c = HeadOf(s)[SPARE] /\ SPARE \in Heads
      BY <1>4 DEF SpareNode, HeadOf, Heads
    <2>2. /\ c \in Nodes /\ list[c] = SPARE /\ PrevOf(s)[c] = NIL
          /\ NextOf(s)[c] \in Link /\ NextOf(s)[c] # c
      BY <2>1, HeadFacts
    <2> DEFINE next == s.m_nodes[c].binListNext
               nodes == SetPrev(s.m_nodes, next, NIL)
    <2>3. next = NextOf(s)[c] /\ next \in Link /\ NIL \in Link
      BY <2>2 DEF NextOf, Link
    <2>4. /\ nodes \in [Nodes -> Node]
          /\ \A m \in Nodes :
              LET node == nodes[m]
              IN  /\ node.dataOffset = s.m_nodes[m].dataOffset /\ node.dataSize = s.m_nodes[m].dataSize
                  /\ node.binListNext = s.m_nodes[m].binListNext
                  /\ node.binListPrev = IF m = next THEN NIL ELSE s.m_nodes[m].binListPrev
      BY <2>3, SetPrevIs DEF State
    <2>5. t = [s EXCEPT !.m_freeListHead = next, !.m_nodes = nodes]
      BY <1>4, <2>1 DEF TakeSpare
    <2> HIDE DEF nodes, next
    <2>6. t \in State /\ t.m_nodes = nodes /\ t.m_freeListHead = next
      BY <2>3, <2>4, <2>5 DEF State
    <2>7. /\ t.m_freeStorage = s.m_freeStorage /\ t.m_usedBinsTop = s.m_usedBinsTop
          /\ t.m_usedBins = s.m_usedBins /\ t.m_binIndices = s.m_binIndices
          /\ t.m_freeOffset = s.m_freeOffset /\ t.m_neighbors = s.m_neighbors
          /\ t.m_nodeUsed = s.m_nodeUsed /\ t.m_freeIndex = s.m_freeIndex
      BY <2>5 DEF State
    <2>8. \A m \in Nodes : /\ SameTile(s, t, m) /\ NextOf(t)[m] = NextOf(s)[m]
                           /\ PrevOf(t)[m] = IF m = NextOf(s)[c] THEN PrevOf(s)[c] ELSE PrevOf(s)[m]
      BY <2>2, <2>3, <2>4, <2>6, <2>7 DEF NextOf, PrevOf, OffsetOf, SizeOf, LeftOf, RightOf, SameTile
    <2>9. /\ HeadOf(t)[SPARE] = IF PrevOf(s)[c] = NIL THEN NextOf(s)[c] ELSE HeadOf(s)[SPARE]
          /\ \A k \in Heads \ {SPARE} : HeadOf(t)[k] = HeadOf(s)[k]
      BY <2>1, <2>2, <2>3, <2>6, <2>7 DEF HeadOf, Heads
    <2>10. Linkable(NextOf(t), PrevOf(t), HeadOf(t), list2)
      <3>1. \A m \in Nodes \ {c} :
              /\ list2[m] = list[m]
              /\ NextOf(t)[m] = IF m = PrevOf(s)[c] THEN NextOf(s)[c] ELSE NextOf(s)[m]
              /\ PrevOf(t)[m] = IF m = NextOf(s)[c] THEN PrevOf(s)[c] ELSE PrevOf(s)[m]
        BY <1>2, <2>2, <2>8, Numbers
      <3>2. /\ c \in Nodes /\ SPARE \in Heads /\ list[c] = SPARE /\ list2[c] \notin Heads
            /\ Linkable(NextOf(s), PrevOf(s), HeadOf(s), list)
        BY <1>1, <1>2, <1>3, <2>1, <2>2 DEF Linking
      <3> QED BY ONLY <2>9, <3>1, <3>2, RemoveLinks
    <2>11. Lists(t, list2)
      <3>1. t.m_nodeUsed = {m \in Nodes : list2[m] = USED}
        BY <1>1, <1>2, <1>3, <2>2, <2>7
      <3>2. \A m \in Nodes : list2[m] = UNUSED <=> t.m_freeIndex <= m
        BY <1>1, <1>2, <1>3, <2>2, <2>7
      <3>3. \A m \in Nodes : list2[m] \in {SPARE, UNUSED} => OffsetOf(t)[m] = 0 /\ SizeOf(t)[m] = 0
        BY <1>1, <1>2, <1>3, <2>8 DEF SameTile
      <3>4. \A m \in Nodes : list2[m] \in Bins => /\ SizeOf(t)[m] \in 0..Size
                                                  /\ U32ToF32RoundDown(SizeOf(t)[m]) = list2[m]
        BY <1>1, <1>2, <1>3, <2>8 DEF SameTile
      <3> QED BY <1>2, <2>10, <3>1, <3>2, <3>3, <3>4 DEF Lists, Linking
    <2> QED BY <2>2, <2>6, <2>7, <2>8, <2>11
  <1>5. CASE s.m_freeListHead = NIL
    <2>1. c = s.m_freeIndex /\ s.m_freeIndex < MaxAllocs
      BY <1>5 DEF SpareNode
    <2>2. c \in Nodes /\ list[c] = UNUSED
      BY <1>1, <2>1, Numbers DEF State
    <2>3. t = [s EXCEPT !.m_freeIndex = s.m_freeIndex + 1]
      BY <1>5 DEF TakeSpare
    <2>4. t \in State /\ t.m_freeIndex = c + 1
      <3>1. c + 1 \in 0..MaxAllocs
        BY <2>1, <2>2, Numbers
      <3> QED BY <2>1, <2>3, <3>1 DEF State
    <2>5. /\ t.m_freeStorage = s.m_freeStorage /\ t.m_usedBinsTop = s.m_usedBinsTop
          /\ t.m_usedBins = s.m_usedBins /\ t.m_binIndices = s.m_binIndices
          /\ t.m_freeOffset = s.m_freeOffset /\ t.m_neighbors = s.m_neighbors
          /\ t.m_nodeUsed = s.m_nodeUsed /\ t.m_nodes = s.m_nodes /\ t.m_freeListHead = s.m_freeListHead
      BY <2>3 DEF State
    <2>6. /\ NextOf(t) = NextOf(s) /\ PrevOf(t) = PrevOf(s) /\ HeadOf(t) = HeadOf(s)
          /\ OffsetOf(t) = OffsetOf(s) /\ SizeOf(t) = SizeOf(s)
          /\ \A m \in Nodes : SameTile(s, t, m)
      BY <2>5 DEF NextOf, PrevOf, HeadOf, OffsetOf, SizeOf, LeftOf, RightOf, SameTile
    <2>7. Linkable(NextOf(t), PrevOf(t), HeadOf(t), list2)
      <3>1. PICK rank \in [Nodes -> Int] : Linked(NextOf(s), PrevOf(s), HeadOf(s), list, rank)
        BY <1>1 DEF Linking, Linkable
      <3>2. \A m \in Nodes : list[m] \in Heads => m # c /\ list2[m] = list[m]
        BY <1>2, <1>3, <2>2
      <3>3. \A m \in Nodes : list2[m] \in Heads => list[m] = list2[m]
        BY <1>2, <1>3, <2>2
      <3>4. Linked(NextOf(s), PrevOf(s), HeadOf(s), list2, rank)
        BY <3>1, <3>2, <3>3 DEF Linked, NodeLinked
      <3> QED BY <2>6, <3>4 DEF Linkable
    <2>8. Lists(t, list2)
      <3>1. t.m_nodeUsed = {m \in Nodes : list2[m] = USED}
        BY <1>1, <1>2, <1>3, <2>2, <2>5
      <3>2. \A m \in Nodes : list2[m] = UNUSED <=> t.m_freeIndex <= m
        BY <1>1, <1>2, <1>3, <2>1, <2>2, <2>4, Numbers
      <3>3. \A m \in Nodes : list2[m] \in {SPARE, UNUSED} => OffsetOf(t)[m] = 0 /\ SizeOf(t)[m] = 0
        BY <1>1, <1>2, <1>3, <2>6
      <3>4. \A m \in Nodes : list2[m] \in Bins => /\ SizeOf(t)[m] \in 0..Size
                                                  /\ U32ToF32RoundDown(SizeOf(t)[m]) = list2[m]
        BY <1>1, <1>2, <1>3, <2>6
      <3> QED BY <1>2, <2>7, <3>1, <3>2, <3>3, <3>4 DEF Lists, Linking
    <2> QED BY <2>2, <2>4, <2>5, <2>6, <2>8
  <1> QED BY <1>4, <1>5

Inserted(s, list, size, offset, c, t, list2) ==
  /\ c \in Nodes /\ list[c] \in {SPARE, UNUSED}
  /\ t \in State /\ Lists(t, list2) /\ Bitmaps(t)
  /\ t.m_freeStorage = s.m_freeStorage + size /\ t.m_freeOffset = s.m_freeOffset
  /\ OffsetOf(t)[c] = offset /\ SizeOf(t)[c] = size
  /\ LeftOf(t)[c] = NIL /\ RightOf(t)[c] = NIL
  /\ \A m \in Nodes \ {c} : SameTile(s, t, m)

\* A free region is filed.
LEMMA InsertLists ==
  ASSUME NEW s \in State, NEW list, Lists(s, list), Bitmaps(s),
         NEW size \in 0..Size, NEW offset \in Int, NEW c, c = SpareNode(s), c # NIL,
         NEW t, t = insertNodeIntoBin(s, size, offset),
         NEW list2, PlacedAt(list, list2, c, U32ToF32RoundDown(size))
  PROVE  Inserted(s, list, size, offset, c, t, list2)
  <1> DEFINE bin    == U32ToF32RoundDown(size)
             top    == s.m_binIndices[bin]
             marked == IF top = NIL THEN MarkBin(s, bin) ELSE s
             u      == TakeSpare(marked)
             list1  == [list EXCEPT ![c] = LIMBO]
             filled == [dataOffset |-> offset, dataSize |-> size,
                        binListPrev |-> NIL, binListNext |-> top]
             nodes  == [u.m_nodes EXCEPT ![c] = filled]
             linked == SetPrev(nodes, top, c)
             around == [u.m_neighbors EXCEPT ![c] = NoNeighbor]
             heads  == [u.m_binIndices EXCEPT ![bin] = c]
  <1>1. bin \in Bins /\ Bins \subseteq Heads /\ top \in Link
    BY BinOf DEF State, Heads
  <1>2. /\ marked \in State /\ SpareNode(marked) = c
        /\ marked.m_usedBins = s.m_usedBins \cup {bin}
        /\ marked.m_usedBinsTop = s.m_usedBinsTop \cup {TopOf(bin)}
        /\ marked.m_freeStorage = s.m_freeStorage /\ marked.m_freeOffset = s.m_freeOffset
        /\ marked.m_binIndices = s.m_binIndices /\ marked.m_nodeUsed = s.m_nodeUsed
        /\ marked.m_freeIndex = s.m_freeIndex /\ marked.m_nodes = s.m_nodes
        /\ marked.m_neighbors = s.m_neighbors /\ marked.m_freeListHead = s.m_freeListHead
    <2>1. CASE top = NIL
      <3>1. marked = [s EXCEPT !.m_usedBins = s.m_usedBins \cup {bin},
                               !.m_usedBinsTop = s.m_usedBinsTop \cup {TopOf(bin)}]
        BY <2>1 DEF MarkBin
      <3>2. s.m_usedBins \cup {bin} \in SUBSET Bins /\ s.m_usedBinsTop \cup {TopOf(bin)} \in SUBSET Tops
        BY <1>1 DEF State, Tops
      <3> HIDE DEF marked, bin
      <3> QED BY <3>1, <3>2 DEF State, SpareNode
    <2>2. CASE top # NIL
      <3>1. marked = s
        BY <2>2
      <3>2. bin \in s.m_usedBins /\ TopOf(bin) \in s.m_usedBinsTop
        BY <1>1, <2>2 DEF Bitmaps
      <3> HIDE DEF marked, bin
      <3> QED BY <3>1, <3>2
    <2> QED BY <2>1, <2>2
  <1> HIDE DEF marked
  <1>3. Lists(marked, list)
    <2>1. /\ NextOf(marked) = NextOf(s) /\ PrevOf(marked) = PrevOf(s) /\ HeadOf(marked) = HeadOf(s)
          /\ OffsetOf(marked) = OffsetOf(s) /\ SizeOf(marked) = SizeOf(s)
      BY <1>2 DEF NextOf, PrevOf, HeadOf, OffsetOf, SizeOf
    <2> QED BY <1>2, <2>1 DEF Lists, Linking
  <1>4. \A m \in Nodes : SameTile(s, marked, m)
    BY <1>2 DEF SameTile, OffsetOf, SizeOf, LeftOf, RightOf
  <1>5. c \in Nodes
    <2>1. SpareNode(s) # NIL => SpareNode(s) \in Nodes
      BY Numbers DEF SpareNode, State, Link
    <2> QED BY <2>1
  <1>6. PlacedAt(list, list1, c, LIMBO)
    BY <1>5 DEF PlacedAt, Lists, Places
  <1> HIDE DEF list1
  <1>7. /\ list[c] \in {SPARE, UNUSED}
        /\ u \in State /\ Lists(u, list1)
        /\ u.m_freeStorage = marked.m_freeStorage /\ u.m_usedBinsTop = marked.m_usedBinsTop
        /\ u.m_usedBins = marked.m_usedBins /\ u.m_binIndices = marked.m_binIndices
        /\ u.m_freeOffset = marked.m_freeOffset
        /\ \A m \in Nodes : SameTile(marked, u, m)
    BY <1>2, <1>3, <1>6, TakeSpareLists
  <1>8. t = [u EXCEPT !.m_nodes = linked, !.m_neighbors = around, !.m_nodeUsed = u.m_nodeUsed \ {c},
                      !.m_binIndices = heads, !.m_freeStorage = u.m_freeStorage + size]
    BY Zenon DEF insertNodeIntoBin, marked
  <1> HIDE DEF u, bin
  <1>9. filled \in Node
    BY <1>1 DEF Node, Link
  <1>10. /\ nodes \in [Nodes -> Node] /\ nodes[c] = filled
         /\ \A m \in Nodes \ {c} : nodes[m] = u.m_nodes[m]
    <2> HIDE DEF filled
    <2> QED BY <1>5, <1>7, <1>9 DEF State
  <1>11. /\ around \in [Nodes -> Neighbor] /\ around[c] = NoNeighbor
         /\ \A m \in Nodes \ {c} : around[m] = u.m_neighbors[m]
    BY <1>5, <1>7 DEF State, Neighbor, NoNeighbor, Link
  <1>12. /\ heads \in [Bins -> Link] /\ heads[bin] = c
         /\ \A b \in Bins \ {bin} : heads[b] = s.m_binIndices[b]
    BY <1>1, <1>2, <1>5, <1>7 DEF State, Link
  <1> HIDE DEF nodes, around, heads
  <1>13. /\ linked \in [Nodes -> Node]
         /\ \A m \in Nodes :
              LET node == linked[m]
              IN  /\ node.dataOffset = nodes[m].dataOffset /\ node.dataSize = nodes[m].dataSize
                  /\ node.binListNext = nodes[m].binListNext
                  /\ node.binListPrev = IF m = top THEN c ELSE nodes[m].binListPrev
    <2>1. c \in Link
      BY <1>5 DEF Link
    <2> HIDE DEF top
    <2> QED BY <1>1, <1>10, <2>1, SetPrevIs
  <1> HIDE DEF linked
  <1>14. /\ t \in State /\ t.m_nodes = linked /\ t.m_neighbors = around /\ t.m_binIndices = heads
         /\ t.m_nodeUsed = u.m_nodeUsed \ {c}
    <2>1. u.m_freeStorage + size \in Int /\ u.m_nodeUsed \ {c} \in SUBSET Nodes
      BY <1>7, Numbers DEF State
    <2>2. /\ u \in State /\ linked \in [Nodes -> Node] /\ around \in [Nodes -> Neighbor]
          /\ heads \in [Bins -> Link]
      BY <1>7, <1>11, <1>12, <1>13
    <2> QED BY ONLY <1>8, <2>1, <2>2 DEF State
  <1>15. /\ t.m_freeStorage = s.m_freeStorage + size /\ t.m_freeOffset = s.m_freeOffset
         /\ t.m_usedBins = s.m_usedBins \cup {bin}
         /\ t.m_usedBinsTop = s.m_usedBinsTop \cup {TopOf(bin)}
         /\ t.m_freeIndex = u.m_freeIndex /\ t.m_freeListHead = u.m_freeListHead
    BY <1>2, <1>7, <1>8 DEF State
  <1>16. top # c
    <2>1. top # NIL => list1[top] = bin
      <3>1. HeadOf(u)[bin] = top
        BY <1>1, <1>2, <1>7, BinOf DEF HeadOf
      <3> QED BY <1>1, <1>7, <3>1, HeadFacts
    <2> QED BY <1>1, <1>5, <1>6, <2>1, BinOf, Numbers DEF PlacedAt
  <1>17. /\ NextOf(t)[c] = top /\ PrevOf(t)[c] = NIL /\ OffsetOf(t)[c] = offset /\ SizeOf(t)[c] = size
         /\ LeftOf(t)[c] = NIL /\ RightOf(t)[c] = NIL
    BY <1>5, <1>10, <1>11, <1>13, <1>14, <1>16
    DEF NextOf, PrevOf, OffsetOf, SizeOf, LeftOf, RightOf, NoNeighbor
  <1>18. \A m \in Nodes \ {c} :
           /\ NextOf(t)[m] = NextOf(u)[m]
           /\ PrevOf(t)[m] = IF m = top THEN c ELSE PrevOf(u)[m]
           /\ SameTile(u, t, m)
    BY <1>10, <1>11, <1>13, <1>14 DEF NextOf, PrevOf, OffsetOf, SizeOf, LeftOf, RightOf, SameTile
  <1>19. \A m \in Nodes \ {c} : SameTile(s, t, m)
    BY <1>4, <1>7, <1>18 DEF SameTile
  <1>20. /\ HeadOf(u)[bin] = top /\ HeadOf(t)[bin] = c /\ bin \in Heads
         /\ \A k \in Heads \ {bin} : HeadOf(t)[k] = HeadOf(u)[k]
    <2>1. /\ u.m_binIndices = s.m_binIndices /\ t.m_binIndices = heads
          /\ t.m_freeListHead = u.m_freeListHead
      BY <1>2, <1>7, <1>14, <1>15
    <2>2. bin # SPARE /\ bin \in Heads
      BY <1>1, BinOf
    <2>3. HeadOf(u)[bin] = top /\ HeadOf(t)[bin] = c
      BY <1>12, <2>1, <2>2 DEF HeadOf
    <2>4. ASSUME NEW k \in Heads, k # bin PROVE HeadOf(t)[k] = HeadOf(u)[k]
      BY <1>12, <2>1, <2>4 DEF HeadOf, Heads
    <2> QED BY <2>2, <2>3, <2>4
  <1>21. /\ list2 \in [Nodes -> Places] /\ list2[c] = bin /\ list1[c] = LIMBO
         /\ \A m \in Nodes \ {c} : list2[m] = list1[m]
    BY <1>6 DEF PlacedAt, bin
  <1>22. Linkable(NextOf(t), PrevOf(t), HeadOf(t), list2)
    <2>1. \A m \in Nodes \ {c} :
            /\ NextOf(t)[m] = NextOf(u)[m] /\ list2[m] = list1[m]
            /\ PrevOf(t)[m] = IF m = HeadOf(u)[bin] THEN c ELSE PrevOf(u)[m]
      BY <1>18, <1>20, <1>21
    <2>2. /\ c \in Nodes /\ bin \in Heads /\ list1[c] \notin Heads /\ list2[c] = bin
          /\ Linkable(NextOf(u), PrevOf(u), HeadOf(u), list1)
          /\ NextOf(t)[c] = HeadOf(u)[bin] /\ PrevOf(t)[c] = NIL /\ HeadOf(t)[bin] = c
      BY <1>5, <1>7, <1>17, <1>20, <1>21, BinOf DEF Lists, Linking
    <2> QED BY ONLY <1>20, <2>1, <2>2, PushLinks
  <1>23. bin # USED /\ bin # UNUSED /\ bin # SPARE /\ LIMBO # USED /\ LIMBO # UNUSED /\ LIMBO \notin Bins
    BY <1>1, BinOf DEF LIMBO, USED, UNUSED, Heads
  <1>24. Lists(t, list2)
    <2>1. t.m_nodeUsed = {m \in Nodes : list2[m] = USED}
      BY <1>7, <1>14, <1>21, <1>23 DEF Lists
    <2>2. \A m \in Nodes : list2[m] = UNUSED <=> t.m_freeIndex <= m
      BY <1>7, <1>15, <1>21, <1>23 DEF Lists
    <2>3. \A m \in Nodes : list2[m] \in {SPARE, UNUSED} => OffsetOf(t)[m] = 0 /\ SizeOf(t)[m] = 0
      BY <1>7, <1>18, <1>21, <1>23 DEF Lists, SameTile
    <2>4. \A m \in Nodes : list2[m] \in Bins => /\ SizeOf(t)[m] \in 0..Size
                                                /\ U32ToF32RoundDown(SizeOf(t)[m]) = list2[m]
      <3>1. SizeOf(t)[c] \in 0..Size /\ U32ToF32RoundDown(SizeOf(t)[c]) = list2[c]
        BY <1>17, <1>21 DEF bin
      <3>2. ASSUME NEW m \in Nodes \ {c}, list2[m] \in Bins
            PROVE  SizeOf(t)[m] \in 0..Size /\ U32ToF32RoundDown(SizeOf(t)[m]) = list2[m]
        BY <1>7, <1>18, <1>21, <3>2 DEF Lists, SameTile
      <3> QED BY <3>1, <3>2
    <2> QED BY <1>21, <1>22, <2>1, <2>2, <2>3, <2>4 DEF Lists, Linking
  <1>25. Bitmaps(t)
    <2>1. t.m_usedBins = {b \in Bins : t.m_binIndices[b] # NIL}
      BY <1>1, <1>5, <1>12, <1>14, <1>15, Numbers DEF Bitmaps
    <2>2. t.m_usedBinsTop = {TopOf(b) : b \in t.m_usedBins}
      BY <1>15 DEF Bitmaps
    <2> QED BY <2>1, <2>2 DEF Bitmaps
  <1> QED BY <1>5, <1>7, <1>14, <1>15, <1>17, <1>19, <1>24, <1>25
  DEF Inserted

LEMMA UnmarkIs ==
  ASSUME NEW s \in State, NEW bin \in Bins, s.m_usedBinsTop = {TopOf(b) : b \in s.m_usedBins},
         NEW t, t = UnmarkBin(s, bin)
  PROVE  /\ t \in State /\ t.m_usedBins = s.m_usedBins \ {bin}
         /\ t.m_usedBinsTop = {TopOf(b) : b \in t.m_usedBins}
         /\ t.m_freeStorage = s.m_freeStorage /\ t.m_freeOffset = s.m_freeOffset
         /\ t.m_binIndices = s.m_binIndices /\ t.m_nodeUsed = s.m_nodeUsed
         /\ t.m_freeIndex = s.m_freeIndex /\ t.m_nodes = s.m_nodes
         /\ t.m_neighbors = s.m_neighbors /\ t.m_freeListHead = s.m_freeListHead
  <1> DEFINE left == s.m_usedBins \ {bin}
             tops == IF \E b \in left : TopOf(b) = TopOf(bin) THEN s.m_usedBinsTop
                     ELSE s.m_usedBinsTop \ {TopOf(bin)}
  <1>1. t = [s EXCEPT !.m_usedBins = left, !.m_usedBinsTop = tops]
    BY DEF UnmarkBin
  <1>2. left \in SUBSET Bins /\ tops \in SUBSET Tops
    BY DEF State
  <1>3. tops = {TopOf(b) : b \in left}
    <2>1. CASE \E b \in left : TopOf(b) = TopOf(bin)
      BY <2>1
    <2>2. CASE ~ \E b \in left : TopOf(b) = TopOf(bin)
      BY <2>2
    <2> QED BY <2>1, <2>2
  <1> HIDE DEF left, tops
  <1>4. /\ t \in State /\ t.m_usedBins = left /\ t.m_usedBinsTop = tops
        /\ t.m_freeStorage = s.m_freeStorage /\ t.m_freeOffset = s.m_freeOffset
        /\ t.m_binIndices = s.m_binIndices /\ t.m_nodeUsed = s.m_nodeUsed
        /\ t.m_freeIndex = s.m_freeIndex /\ t.m_nodes = s.m_nodes
        /\ t.m_neighbors = s.m_neighbors /\ t.m_freeListHead = s.m_freeListHead
    BY <1>1, <1>2 DEF State
  <1> QED BY <1>3, <1>4 DEF left

Removed(s, list, n, t, list2) ==
  /\ t \in State /\ Lists(t, list2) /\ Bitmaps(t)
  /\ t.m_freeStorage = s.m_freeStorage - SizeOf(s)[n] /\ t.m_freeOffset = s.m_freeOffset
  /\ \A m \in Nodes \ {n} : SameTile(s, t, m)

\* A free node goes to the freelist.
LEMMA RemoveLists ==
  ASSUME NEW s \in State, NEW list, Lists(s, list), Bitmaps(s), NEW n \in Nodes, list[n] \in Bins,
         NEW t, t = removeNodeFromBin(s, n), NEW list2, PlacedAt(list, list2, n, SPARE)
  PROVE  Removed(s, list, n, t, list2)
  <1> DEFINE node     == s.m_nodes[n]
             bin      == U32ToF32RoundDown(node.dataSize)
             q        == node.binListNext
             p        == node.binListPrev
             nodes    == SetPrev(s.m_nodes, q, p)
             unlinked == [s EXCEPT !.m_nodes = nodes]
             inMiddle == [unlinked EXCEPT !.m_nodes[p].binListNext = q]
             first    == [unlinked EXCEPT !.m_binIndices[bin] = q]
             removed  == CASE p # NIL -> inMiddle
                           [] p = NIL /\ q = NIL -> UnmarkBin(first, bin)
                           [] OTHER -> first
             list1    == [list EXCEPT ![n] = LIMBO]
  <1>1. /\ q = NextOf(s)[n] /\ p = PrevOf(s)[n] /\ node.dataSize = SizeOf(s)[n] /\ node \in Node
        /\ Bins \subseteq Heads
    BY DEF NextOf, PrevOf, SizeOf, State, Heads
  <1>2. /\ bin = list[n] /\ bin \in Bins /\ bin \in Heads /\ bin # SPARE
        /\ SizeOf(s)[n] \in 0..Size
    <2>1. bin = U32ToF32RoundDown(SizeOf(s)[n])
      BY <1>1
    <2> HIDE DEF bin
    <2>2. SizeOf(s)[n] \in 0..Size /\ U32ToF32RoundDown(SizeOf(s)[n]) = list[n]
      BY DEF Lists
    <2> QED BY <1>1, <2>1, <2>2, BinOf
  <1>3. /\ q \in Link /\ p \in Link /\ q # n /\ p # n
        /\ q # NIL => q # p /\ list[q] = bin
        /\ p # NIL => list[p] = bin /\ NextOf(s)[p] = n
        /\ p = NIL => HeadOf(s)[bin] = n
    BY <1>1, <1>2, LinkFacts
  <1>4. t = [PushSpare(removed, n) EXCEPT !.m_freeStorage = PushSpare(removed, n).m_freeStorage - node.dataSize]
    BY Zenon DEF removeNodeFromBin
  <1> HIDE DEF bin, q, p
  <1>5. /\ nodes \in [Nodes -> Node]
        /\ \A m \in Nodes :
             LET new == nodes[m]
             IN  /\ new.dataOffset = s.m_nodes[m].dataOffset /\ new.dataSize = s.m_nodes[m].dataSize
                 /\ new.binListNext = s.m_nodes[m].binListNext
                 /\ new.binListPrev = IF m = q THEN p ELSE s.m_nodes[m].binListPrev
    <2>1. s.m_nodes \in [Nodes -> Node]
      BY DEF State
    <2> QED BY <1>3, <2>1, SetPrevIs
  <1> HIDE DEF nodes
  <1>6. /\ unlinked \in State /\ unlinked.m_nodes = nodes
        /\ unlinked.m_freeStorage = s.m_freeStorage /\ unlinked.m_freeOffset = s.m_freeOffset
        /\ unlinked.m_binIndices = s.m_binIndices /\ unlinked.m_nodeUsed = s.m_nodeUsed
        /\ unlinked.m_freeIndex = s.m_freeIndex /\ unlinked.m_usedBins = s.m_usedBins
        /\ unlinked.m_neighbors = s.m_neighbors /\ unlinked.m_freeListHead = s.m_freeListHead
        /\ unlinked.m_usedBinsTop = s.m_usedBinsTop
    BY <1>5 DEF State
  <1> HIDE DEF unlinked
  <1>7. /\ removed \in State /\ Bitmaps(removed)
        /\ removed.m_freeStorage = s.m_freeStorage /\ removed.m_freeOffset = s.m_freeOffset
        /\ removed.m_nodeUsed = s.m_nodeUsed /\ removed.m_freeIndex = s.m_freeIndex
        /\ removed.m_neighbors = s.m_neighbors /\ removed.m_freeListHead = s.m_freeListHead
        /\ removed.m_binIndices[bin] = IF p = NIL THEN q ELSE s.m_binIndices[bin]
        /\ \A b \in Bins \ {bin} : removed.m_binIndices[b] = s.m_binIndices[b]
        /\ \A m \in Nodes :
             LET new == removed.m_nodes[m]
             IN  /\ new.dataOffset = nodes[m].dataOffset /\ new.dataSize = nodes[m].dataSize
                 /\ new.binListNext = (IF m = p THEN q ELSE nodes[m].binListNext)
                 /\ new.binListPrev = nodes[m].binListPrev
    <2>1. CASE p # NIL
      <3> DEFINE nodes2 == [nodes EXCEPT ![p].binListNext = q]
      <3>1. p \in Nodes
        BY <1>3, <2>1 DEF Link
      <3>2. removed = inMiddle /\ inMiddle = [unlinked EXCEPT !.m_nodes = nodes2]
        BY <1>6, <2>1
      <3>3. nodes2 \in [Nodes -> Node]
        <4>1. [nodes[p] EXCEPT !.binListNext = q] \in Node
          BY <1>3, <1>5, <3>1 DEF Node, Link
        <4>2. nodes2 = [nodes EXCEPT ![p] = [nodes[p] EXCEPT !.binListNext = q]]
          OBVIOUS
        <4> QED BY <1>5, <3>1, <4>1, <4>2
      <3>4. \A m \in Nodes :
              LET new == nodes2[m]
              IN  /\ new.dataOffset = nodes[m].dataOffset /\ new.dataSize = nodes[m].dataSize
                  /\ new.binListNext = (IF m = p THEN q ELSE nodes[m].binListNext)
                  /\ new.binListPrev = nodes[m].binListPrev
        BY <1>5, <3>1 DEF Node
      <3> HIDE DEF nodes2, inMiddle, removed
      <3>5. /\ removed \in State /\ removed.m_nodes = nodes2
            /\ removed.m_freeStorage = s.m_freeStorage /\ removed.m_freeOffset = s.m_freeOffset
            /\ removed.m_nodeUsed = s.m_nodeUsed /\ removed.m_freeIndex = s.m_freeIndex
            /\ removed.m_neighbors = s.m_neighbors /\ removed.m_freeListHead = s.m_freeListHead
            /\ removed.m_binIndices = s.m_binIndices /\ removed.m_usedBins = s.m_usedBins
            /\ removed.m_usedBinsTop = s.m_usedBinsTop
        BY <1>6, <3>2, <3>3 DEF State
      <3>6. Bitmaps(removed)
        BY <3>5 DEF Bitmaps
      <3> QED BY <2>1, <3>4, <3>5, <3>6
    <2>2. CASE p = NIL
      <3> DEFINE heads == [s.m_binIndices EXCEPT ![bin] = q]
      <3>1. /\ heads \in [Bins -> Link] /\ heads[bin] = q
            /\ \A b \in Bins \ {bin} : heads[b] = s.m_binIndices[b]
        BY <1>2, <1>3 DEF State
      <3>2. first = [unlinked EXCEPT !.m_binIndices = heads]
        BY <1>6
      <3> HIDE DEF heads, first
      <3>3. /\ first \in State /\ first.m_nodes = nodes /\ first.m_binIndices = heads
            /\ first.m_freeStorage = s.m_freeStorage /\ first.m_freeOffset = s.m_freeOffset
            /\ first.m_nodeUsed = s.m_nodeUsed /\ first.m_freeIndex = s.m_freeIndex
            /\ first.m_neighbors = s.m_neighbors /\ first.m_freeListHead = s.m_freeListHead
            /\ first.m_usedBins = s.m_usedBins
            /\ first.m_usedBinsTop = s.m_usedBinsTop
        BY <1>6, <3>1, <3>2 DEF State
      <3>4. s.m_binIndices[bin] = n /\ bin \in s.m_usedBins
        <4>1. s.m_binIndices[bin] = n
          BY <1>2, <1>3, <2>2 DEF HeadOf
        <4> QED BY <1>2, <4>1, Numbers DEF Bitmaps
      <3>5. CASE q = NIL
        <4>1. removed = UnmarkBin(first, bin)
          BY <2>2, <3>5
        <4> HIDE DEF removed
        <4>2. first.m_usedBinsTop = {TopOf(b) : b \in first.m_usedBins}
          BY <3>3 DEF Bitmaps
        <4>3. /\ removed \in State /\ removed.m_usedBins = s.m_usedBins \ {bin}
              /\ removed.m_usedBinsTop = {TopOf(b) : b \in removed.m_usedBins}
              /\ removed.m_nodes = nodes /\ removed.m_binIndices = heads
              /\ removed.m_freeStorage = s.m_freeStorage /\ removed.m_freeOffset = s.m_freeOffset
              /\ removed.m_nodeUsed = s.m_nodeUsed /\ removed.m_freeIndex = s.m_freeIndex
              /\ removed.m_neighbors = s.m_neighbors /\ removed.m_freeListHead = s.m_freeListHead
          BY <1>2, <3>3, <4>1, <4>2, UnmarkIs
        <4>4. Bitmaps(removed)
          BY <3>1, <3>5, <4>3 DEF Bitmaps
        <4> QED BY <2>2, <3>1, <4>3, <4>4, Numbers
      <3>6. CASE q # NIL
        <4>1. removed = first
          BY <2>2, <3>6
        <4> HIDE DEF removed
        <4>2. Bitmaps(removed)
          BY <3>1, <3>3, <3>4, <3>6, <4>1 DEF Bitmaps
        <4> QED BY <2>2, <3>1, <3>3, <4>1, <4>2, Numbers
      <3> QED BY <3>5, <3>6
    <2> QED BY <2>1, <2>2
  <1> HIDE DEF removed
  <1>8. PlacedAt(list, list1, n, LIMBO)
    BY DEF PlacedAt, Lists, Places
  <1> HIDE DEF list1
  <1>9. /\ list1 \in [Nodes -> Places] /\ list1[n] = LIMBO
        /\ \A m \in Nodes \ {n} : list1[m] = list[m]
    BY <1>8 DEF PlacedAt
  <1>10. /\ \A m \in Nodes : /\ SameTile(s, removed, m)
                             /\ NextOf(removed)[m] = IF m = p THEN q ELSE NextOf(s)[m]
                             /\ PrevOf(removed)[m] = IF m = q THEN p ELSE PrevOf(s)[m]
    BY <1>5, <1>7 DEF SameTile, OffsetOf, SizeOf, LeftOf, RightOf, NextOf, PrevOf
  <1>11. Lists(removed, list1)
    <2>1. Linkable(NextOf(removed), PrevOf(removed), HeadOf(removed), list1)
      <3>1. \A m \in Nodes \ {n} :
              /\ list1[m] = list[m]
              /\ NextOf(removed)[m] = IF m = PrevOf(s)[n] THEN NextOf(s)[n] ELSE NextOf(s)[m]
              /\ PrevOf(removed)[m] = IF m = NextOf(s)[n] THEN PrevOf(s)[n] ELSE PrevOf(s)[m]
        BY <1>1, <1>9, <1>10
      <3>2. /\ HeadOf(removed)[bin] = IF PrevOf(s)[n] = NIL THEN NextOf(s)[n] ELSE HeadOf(s)[bin]
            /\ \A k \in Heads \ {bin} : HeadOf(removed)[k] = HeadOf(s)[k]
        BY <1>1, <1>2, <1>7 DEF HeadOf, Heads
      <3>3. /\ n \in Nodes /\ bin \in Heads /\ list[n] = bin /\ list1[n] \notin Heads
            /\ Linkable(NextOf(s), PrevOf(s), HeadOf(s), list)
        BY <1>2, <1>9, BinOf DEF Lists, Linking
      <3> QED BY ONLY <3>1, <3>2, <3>3, RemoveLinks
    <2>2. LIMBO # USED /\ LIMBO # UNUSED /\ LIMBO # SPARE /\ LIMBO \notin Bins
          /\ list[n] # USED /\ list[n] # UNUSED /\ list[n] # SPARE
      BY <1>2, BinOf DEF LIMBO, USED, UNUSED, SPARE, Heads
    <2>3. removed.m_nodeUsed = {m \in Nodes : list1[m] = USED}
      BY <1>7, <1>9, <2>2 DEF Lists
    <2>4. \A m \in Nodes : list1[m] = UNUSED <=> removed.m_freeIndex <= m
      BY <1>7, <1>9, <2>2 DEF Lists
    <2>5. \A m \in Nodes : list1[m] \in {SPARE, UNUSED} => OffsetOf(removed)[m] = 0 /\ SizeOf(removed)[m] = 0
      BY <1>9, <1>10, <2>2 DEF Lists, SameTile
    <2>6. \A m \in Nodes : list1[m] \in Bins => /\ SizeOf(removed)[m] \in 0..Size
                                                /\ U32ToF32RoundDown(SizeOf(removed)[m]) = list1[m]
      BY <1>9, <1>10, <2>2 DEF Lists, SameTile
    <2> QED BY <1>9, <2>1, <2>3, <2>4, <2>5, <2>6 DEF Lists, Linking
  <1> DEFINE u == PushSpare(removed, n)
  <1>12. PlacedAt(list1, list2, n, SPARE)
    BY <1>9 DEF PlacedAt
  <1>13. n # removed.m_freeListHead /\ Lists(u, list2)
    BY <1>7, <1>9, <1>11, <1>12, PushSpareLists DEF Pushed
  <1>14. /\ u \in State
         /\ u.m_freeStorage = removed.m_freeStorage /\ u.m_usedBinsTop = removed.m_usedBinsTop
         /\ u.m_usedBins = removed.m_usedBins /\ u.m_binIndices = removed.m_binIndices
         /\ u.m_freeOffset = removed.m_freeOffset
         /\ \A m \in Nodes \ {n} : SameTile(removed, u, m)
    BY <1>7, <1>13, PushSpareIs
  <1> HIDE DEF u
  <1>15. t = [u EXCEPT !.m_freeStorage = u.m_freeStorage - SizeOf(s)[n]]
    BY <1>1, <1>4 DEF u
  <1>16. /\ t \in State /\ t.m_freeStorage = u.m_freeStorage - SizeOf(s)[n]
         /\ t.m_freeOffset = u.m_freeOffset /\ t.m_usedBins = u.m_usedBins
         /\ t.m_usedBinsTop = u.m_usedBinsTop /\ t.m_binIndices = u.m_binIndices
         /\ t.m_nodes = u.m_nodes /\ t.m_neighbors = u.m_neighbors /\ t.m_nodeUsed = u.m_nodeUsed
         /\ t.m_freeIndex = u.m_freeIndex /\ t.m_freeListHead = u.m_freeListHead
    <2>1. u.m_freeStorage - SizeOf(s)[n] \in Int
      BY <1>2, <1>14, Numbers DEF State
    <2> QED BY ONLY <1>14, <1>15, <2>1 DEF State
  <1>17. /\ NextOf(t) = NextOf(u) /\ PrevOf(t) = PrevOf(u) /\ HeadOf(t) = HeadOf(u)
         /\ OffsetOf(t) = OffsetOf(u) /\ SizeOf(t) = SizeOf(u)
         /\ LeftOf(t) = LeftOf(u) /\ RightOf(t) = RightOf(u)
    BY <1>16 DEF NextOf, PrevOf, HeadOf, OffsetOf, SizeOf, LeftOf, RightOf
  <1>18. Lists(t, list2)
    BY <1>13, <1>16, <1>17 DEF Lists, Linking
  <1>19. Bitmaps(t)
    BY <1>7, <1>14, <1>16 DEF Bitmaps
  <1>20. \A m \in Nodes \ {n} : SameTile(s, t, m)
    BY <1>10, <1>14, <1>17 DEF SameTile
  <1> QED BY <1>7, <1>14, <1>16, <1>18, <1>19, <1>20
  DEF Removed

Popped(s, list, bin, size, n, t, list2) ==
  /\ n \in Nodes /\ list[n] = bin
  /\ t \in State /\ Lists(t, list2) /\ Bitmaps(t)
  /\ t.m_freeStorage = s.m_freeStorage - SizeOf(s)[n] /\ t.m_freeOffset = s.m_freeOffset
  /\ SizeOf(t)[n] = size /\ OffsetOf(t)[n] = OffsetOf(s)[n]
  /\ LeftOf(t)[n] = LeftOf(s)[n] /\ RightOf(t)[n] = RightOf(s)[n]
  /\ \A m \in Nodes \ {n} : SameTile(s, t, m)

\* The first node of a bin is allocated.
LEMMA PopLists ==
  ASSUME NEW s \in State, NEW list, Lists(s, list), Bitmaps(s), NEW bin \in Bins, NEW size \in Int,
         NEW n, n = s.m_binIndices[bin], n # NIL,
         NEW t, t = PopNode(s, bin, size), NEW list2, PlacedAt(list, list2, n, USED)
  PROVE  Popped(s, list, bin, size, n, t, list2)
  <1> DEFINE next   == s.m_nodes[n].binListNext
             total  == s.m_nodes[n].dataSize
             nodes  == [s.m_nodes EXCEPT ![n].dataSize = size, ![n].binListNext = CLEARED,
                                         ![n].binListPrev = CLEARED]
             linked == SetPrev(nodes, next, NIL)
             heads  == [s.m_binIndices EXCEPT ![bin] = next]
             popped == [s EXCEPT !.m_nodes = linked, !.m_nodeUsed = s.m_nodeUsed \cup {n},
                                 !.m_binIndices = heads, !.m_freeStorage = s.m_freeStorage - total]
  <1>1. bin \in Heads /\ bin # SPARE /\ HeadOf(s)[bin] = n
    BY BinOf DEF Heads, HeadOf
  <1>2. /\ n \in Nodes /\ list[n] = bin /\ PrevOf(s)[n] = NIL
        /\ NextOf(s)[n] \in Link /\ NextOf(s)[n] # n
        /\ NextOf(s)[n] # NIL => list[NextOf(s)[n]] = bin
    BY <1>1, HeadFacts
  <1>3. next = NextOf(s)[n] /\ total = SizeOf(s)[n] /\ total \in Int
    BY <1>2 DEF NextOf, SizeOf, State, Node
  <1>4. t = IF next = NIL THEN UnmarkBin(popped, bin) ELSE popped
    BY DEF PopNode
  <1> HIDE DEF next, total
  <1>5. /\ nodes \in [Nodes -> Node] /\ \A m \in Nodes \ {n} : nodes[m] = s.m_nodes[m]
        /\ nodes[n].dataSize = size /\ nodes[n].dataOffset = s.m_nodes[n].dataOffset
    <2> DEFINE node == [s.m_nodes[n] EXCEPT !.dataSize = size, !.binListNext = CLEARED,
                                            !.binListPrev = CLEARED]
    <2>1. s.m_nodes[n] \in Node
      BY <1>2 DEF State
    <2>2. node \in Node /\ node.dataSize = size /\ node.dataOffset = s.m_nodes[n].dataOffset
      BY <2>1 DEF Node
    <2>3. nodes = [s.m_nodes EXCEPT ![n] = node]
      BY <1>2 DEF State
    <2> HIDE DEF node, nodes
    <2> QED BY <1>2, <2>2, <2>3 DEF State
  <1> HIDE DEF nodes
  <1>6. /\ linked \in [Nodes -> Node]
        /\ \A m \in Nodes :
             LET node == linked[m]
             IN  /\ node.dataOffset = nodes[m].dataOffset /\ node.dataSize = nodes[m].dataSize
                 /\ node.binListNext = nodes[m].binListNext
                 /\ node.binListPrev = IF m = next THEN NIL ELSE nodes[m].binListPrev
    <2>1. next \in Link /\ NIL \in Link
      BY <1>2, <1>3 DEF Link
    <2> QED BY <1>5, <2>1, SetPrevIs
  <1> HIDE DEF linked
  <1>7. /\ heads \in [Bins -> Link] /\ heads[bin] = next
        /\ \A b \in Bins \ {bin} : heads[b] = s.m_binIndices[b]
    BY <1>2, <1>3 DEF State
  <1> HIDE DEF heads
  <1>8. /\ popped \in State /\ popped.m_nodes = linked /\ popped.m_binIndices = heads
        /\ popped.m_nodeUsed = s.m_nodeUsed \cup {n}
        /\ popped.m_freeStorage = s.m_freeStorage - total /\ popped.m_freeOffset = s.m_freeOffset
        /\ popped.m_freeIndex = s.m_freeIndex /\ popped.m_usedBins = s.m_usedBins
        /\ popped.m_neighbors = s.m_neighbors /\ popped.m_freeListHead = s.m_freeListHead
        /\ popped.m_usedBinsTop = s.m_usedBinsTop
    <2>1. s.m_freeStorage - total \in Int /\ s.m_nodeUsed \cup {n} \in SUBSET Nodes
      BY <1>2, <1>3 DEF State
    <2>2. linked \in [Nodes -> Node] /\ heads \in [Bins -> Link]
      BY <1>6, <1>7
    <2> QED BY ONLY s \in State, <2>1, <2>2 DEF State
  <1> HIDE DEF popped
  <1>9. bin \in s.m_usedBins /\ s.m_usedBinsTop = {TopOf(b) : b \in s.m_usedBins}
    BY DEF Bitmaps
  <1>10. /\ t \in State /\ t.m_nodes = linked /\ t.m_binIndices = heads
         /\ t.m_nodeUsed = s.m_nodeUsed \cup {n}
         /\ t.m_freeStorage = s.m_freeStorage - total /\ t.m_freeOffset = s.m_freeOffset
         /\ t.m_freeIndex = s.m_freeIndex
         /\ t.m_neighbors = s.m_neighbors /\ t.m_freeListHead = s.m_freeListHead
         /\ t.m_usedBins = (IF next = NIL THEN s.m_usedBins \ {bin} ELSE s.m_usedBins)
         /\ t.m_usedBinsTop = {TopOf(b) : b \in t.m_usedBins}
    <2>1. CASE next = NIL
      <3>1. t = UnmarkBin(popped, bin) /\ popped.m_usedBinsTop = {TopOf(b) : b \in popped.m_usedBins}
        BY <1>4, <1>8, <1>9, <2>1
      <3> QED BY <1>8, <2>1, <3>1, UnmarkIs
    <2>2. CASE next # NIL
      BY <1>4, <1>8, <1>9, <2>2
    <2> QED BY <2>1, <2>2
  <1>11. Bitmaps(t)
    BY <1>7, <1>9, <1>10 DEF Bitmaps
  <1>12. /\ list2 \in [Nodes -> Places] /\ list2[n] = USED
         /\ \A m \in Nodes \ {n} : list2[m] = list[m]
    BY DEF PlacedAt
  <1>13. \A m \in Nodes \ {n} :
           /\ SameTile(s, t, m) /\ NextOf(t)[m] = NextOf(s)[m]
           /\ PrevOf(t)[m] = IF m = NextOf(s)[n] THEN PrevOf(s)[n] ELSE PrevOf(s)[m]
    <2>1. \A m \in Nodes \ {n} : SameTile(s, t, m)
      <3>1. ASSUME NEW m \in Nodes \ {n}
            PROVE  /\ t.m_nodes[m].dataOffset = s.m_nodes[m].dataOffset
                   /\ t.m_nodes[m].dataSize = s.m_nodes[m].dataSize
        BY <1>5, <1>6, <1>10
      <3>2. t.m_neighbors = s.m_neighbors
        BY <1>8, <1>10
      <3> QED BY ONLY <3>1, <3>2 DEF SameTile, OffsetOf, SizeOf, LeftOf, RightOf
    <2>2. \A m \in Nodes \ {n} :
            /\ NextOf(t)[m] = NextOf(s)[m]
            /\ PrevOf(t)[m] = IF m = NextOf(s)[n] THEN PrevOf(s)[n] ELSE PrevOf(s)[m]
      <3>1. ASSUME NEW m \in Nodes \ {n}
            PROVE  /\ t.m_nodes[m].binListNext = s.m_nodes[m].binListNext
                   /\ t.m_nodes[m].binListPrev = IF m = next THEN NIL ELSE s.m_nodes[m].binListPrev
        BY <1>5, <1>6, <1>10
      <3>2. next = NextOf(s)[n] /\ PrevOf(s)[n] = NIL
        BY <1>2, <1>3
      <3> QED BY ONLY <3>1, <3>2 DEF NextOf, PrevOf
    <2> QED BY ONLY <2>1, <2>2
  <1>14. /\ SizeOf(t)[n] = size /\ OffsetOf(t)[n] = OffsetOf(s)[n]
         /\ LeftOf(t)[n] = LeftOf(s)[n] /\ RightOf(t)[n] = RightOf(s)[n]
    BY <1>2, <1>5, <1>6, <1>10 DEF OffsetOf, SizeOf, LeftOf, RightOf
  <1>15. Linkable(NextOf(t), PrevOf(t), HeadOf(t), list2)
    <2>1. \A m \in Nodes \ {n} :
            /\ list2[m] = list[m]
            /\ NextOf(t)[m] = IF m = PrevOf(s)[n] THEN NextOf(s)[n] ELSE NextOf(s)[m]
            /\ PrevOf(t)[m] = IF m = NextOf(s)[n] THEN PrevOf(s)[n] ELSE PrevOf(s)[m]
      BY <1>2, <1>12, <1>13, Numbers
    <2>2. /\ HeadOf(t)[bin] = IF PrevOf(s)[n] = NIL THEN NextOf(s)[n] ELSE HeadOf(s)[bin]
          /\ \A k \in Heads \ {bin} : HeadOf(t)[k] = HeadOf(s)[k]
      BY <1>1, <1>2, <1>3, <1>7, <1>10 DEF HeadOf, Heads
    <2>3. /\ n \in Nodes /\ bin \in Heads /\ list[n] = bin /\ list2[n] \notin Heads
          /\ Linkable(NextOf(s), PrevOf(s), HeadOf(s), list)
      BY <1>1, <1>2, <1>12, BinOf DEF Lists, Linking
    <2> QED BY ONLY <2>1, <2>2, <2>3, RemoveLinks
  <1>16. Lists(t, list2)
    <2>1. USED # UNUSED /\ USED # SPARE /\ USED \notin Bins /\ bin # UNUSED /\ bin # USED
      BY <1>1, BinOf DEF USED, UNUSED, SPARE, Heads
    <2>2. t.m_nodeUsed = {m \in Nodes : list2[m] = USED}
      BY <1>2, <1>10, <1>12 DEF Lists
    <2>3. \A m \in Nodes : list2[m] = UNUSED <=> t.m_freeIndex <= m
      BY <1>2, <1>10, <1>12, <2>1 DEF Lists
    <2>4. \A m \in Nodes : list2[m] \in {SPARE, UNUSED} => OffsetOf(t)[m] = 0 /\ SizeOf(t)[m] = 0
      BY <1>12, <1>13, <2>1 DEF Lists, SameTile
    <2>5. \A m \in Nodes : list2[m] \in Bins => /\ SizeOf(t)[m] \in 0..Size
                                                /\ U32ToF32RoundDown(SizeOf(t)[m]) = list2[m]
      BY <1>12, <1>13, <2>1 DEF Lists, SameTile
    <2> QED BY <1>12, <1>15, <2>2, <2>3, <2>4, <2>5 DEF Lists, Linking
  <1> QED BY <1>2, <1>3, <1>10, <1>11, <1>13, <1>14, <1>16
  DEF Popped

\* The rest of a region is linked, and merging does nothing else to the places.
LEMMA SamePlaces ==
  ASSUME NEW s \in State, NEW list, Lists(s, list), Bitmaps(s), NEW t \in State,
         \A n \in Nodes :
           /\ t.m_nodes[n].binListNext = s.m_nodes[n].binListNext
           /\ t.m_nodes[n].binListPrev = s.m_nodes[n].binListPrev
           /\ list[n] # USED => /\ OffsetOf(t)[n] = OffsetOf(s)[n]
                                /\ SizeOf(t)[n] = SizeOf(s)[n],
         t.m_freeListHead = s.m_freeListHead, t.m_binIndices = s.m_binIndices,
         t.m_nodeUsed = s.m_nodeUsed, t.m_freeIndex = s.m_freeIndex,
         t.m_usedBins = s.m_usedBins, t.m_usedBinsTop = s.m_usedBinsTop
  PROVE  Lists(t, list) /\ Bitmaps(t)
  <1>1. NextOf(t) = NextOf(s) /\ PrevOf(t) = PrevOf(s) /\ HeadOf(t) = HeadOf(s)
    BY DEF NextOf, PrevOf, HeadOf
  <1>2. USED \notin Bins /\ USED # SPARE /\ USED # UNUSED
    BY BinOf DEF USED, SPARE, UNUSED, Heads
  <1>3. Lists(t, list)
    <2>1. list \in [Nodes -> Places] /\ Linking(t, list)
      BY <1>1 DEF Lists, Linking
    <2>2. t.m_nodeUsed = {n \in Nodes : list[n] = USED}
      BY DEF Lists
    <2>3. \A n \in Nodes : list[n] = UNUSED <=> t.m_freeIndex <= n
      BY DEF Lists
    <2>4. \A n \in Nodes : list[n] \in {SPARE, UNUSED} => OffsetOf(t)[n] = 0 /\ SizeOf(t)[n] = 0
      BY <1>2 DEF Lists
    <2>5. \A n \in Nodes : list[n] \in Bins => /\ SizeOf(t)[n] \in 0..Size
                                               /\ U32ToF32RoundDown(SizeOf(t)[n]) = list[n]
      BY <1>2 DEF Lists
    <2> QED BY <2>1, <2>2, <2>3, <2>4, <2>5 DEF Lists
  <1>4. Bitmaps(t)
    BY DEF Bitmaps
  <1> QED BY <1>3, <1>4

-----------------------------------------------------------------------------
(* What the search and the lists return                                    *)

\* The nodes that are reached from the head of a list are those of the list.
LEMMA ListIs ==
  ASSUME NEW list, self \in State, Lists(self, list), NEW l \in Heads
  PROVE  ListFrom(HeadOf(self)[l]) = {n \in Nodes : list[n] = l}
  <1> DEFINE next == NextOf(self)
             head == HeadOf(self)[l]
             onward == [nodes \in SUBSET Nodes |->
                          nodes \cup ({self.m_nodes[n].binListNext : n \in nodes} \cap Nodes)]
             reached == StatesOf(onward, {head})
             In == {n \in Nodes : list[n] = l}
  <1>1. PICK rank \in [Nodes -> Int] : Linked(NextOf(self), PrevOf(self), HeadOf(self), list, rank)
    BY DEF Lists, Linking, Linkable
  <1>2. \A n \in Nodes : next[n] = self.m_nodes[n].binListNext
    BY DEF NextOf
  <1>3. head # NIL => head \in In
    BY <1>1 DEF Linked
  <1>4. \A n \in In : next[n] # NIL => next[n] \in In
    BY <1>1 DEF Linked, NodeLinked
  <1>5. \A n \in In : n # head =>
          \E p \in In : next[p] = n /\ rank[n] < rank[p]
    <2>1. SUFFICES ASSUME NEW n \in In, n # head
                   PROVE  \E p \in In : next[p] = n /\ rank[n] < rank[p]
      OBVIOUS
    <2>2. NodeLinked(NextOf(self), PrevOf(self), HeadOf(self), list, rank, n)
      BY <1>1 DEF Linked
    <2>3. PrevOf(self)[n] # NIL
      BY <2>1, <2>2 DEF NodeLinked
    <2> DEFINE p == PrevOf(self)[n]
    <2>4. p \in In /\ next[p] = n
      BY <2>2, <2>3 DEF NodeLinked
    <2>5. NodeLinked(NextOf(self), PrevOf(self), HeadOf(self), list, rank, p)
      BY <1>1, <2>4 DEF Linked
    <2>6. rank[n] < rank[p]
      BY <2>4, <2>5, Numbers DEF NodeLinked
    <2> QED BY <2>4, <2>6
  <1>6. CASE head = NIL
    <2>1. In = {}
      <3>1. ASSUME NEW n \in In PROVE FALSE
        <4>1. \A m \in In : \E p \in In : rank[m] < rank[p]
          BY <1>5, <1>6, Numbers
        <4> DEFINE Far == {k \in Nat : \E m \in In : \E S \in SUBSET In :
                              /\ Cardinality(S) = k /\ IsFiniteSet(S)
                              /\ \A x \in S : rank[x] < rank[m]}
        <4>2. 0 \in Far
          BY <3>1, FS_EmptySet
        <4>3. ASSUME NEW k \in Nat, k \in Far PROVE k + 1 \in Far
          <5>1. PICK m \in In, S \in SUBSET In : /\ Cardinality(S) = k /\ IsFiniteSet(S)
                                                 /\ \A x \in S : rank[x] < rank[m]
            BY <4>3
          <5>2. PICK p \in In : rank[m] < rank[p]
            BY <4>1
          <5>3. m \notin S /\ S \cup {m} \in SUBSET In
            BY <5>1
          <5>4. Cardinality(S \cup {m}) = k + 1 /\ IsFiniteSet(S \cup {m})
            BY <5>1, <5>3, FS_AddElement
          <5>5. \A x \in S \cup {m} : rank[x] < rank[p]
            <6>1. ASSUME NEW x \in S PROVE rank[x] < rank[p]
              <7>1. x \in Nodes /\ rank[x] \in Int /\ rank[m] \in Int /\ rank[p] \in Int
                BY <5>1
              <7> QED BY <5>1, <5>2, <7>1
            <6> QED BY <5>2, <6>1
          <5> QED BY <5>3, <5>4, <5>5
        <4>4. MaxAllocs + 1 \in Far
          <5>1. Nat \subseteq Far
            <6> HIDE DEF Far
            <6> QED BY <4>2, <4>3, NatSetInduction
          <5> HIDE DEF Far
          <5> QED BY <5>1, Numbers
        <4>5. PICK S \in SUBSET In : Cardinality(S) = MaxAllocs + 1
          BY <4>4
        <4>6. IsFiniteSet(Nodes) /\ Cardinality(Nodes) = MaxAllocs
          BY Numbers, FS_Interval
        <4>7. Cardinality(S) <= Cardinality(Nodes)
          BY <4>5, <4>6, FS_Subset
        <4> QED BY <4>5, <4>6, <4>7, Numbers
      <3> QED BY <3>1
    <2> QED BY <1>6, <2>1 DEF ListFrom
  <1>7. CASE head # NIL
    <2>1. ListFrom(head) = reached[MaxAllocs]
      BY <1>7 DEF ListFrom
    <2>2. \A S \in SUBSET Nodes :
            onward[S] = S \cup ({next[n] : n \in S} \cap Nodes)
      BY <1>2
    <2>3. \A S \in SUBSET Nodes : onward[S] \in SUBSET Nodes
      BY <2>2
    <2>4. {head} \in SUBSET Nodes
      BY <1>3, <1>7
    <2>5. /\ reached \in [Nat -> SUBSET Nodes] /\ reached[0] = {head}
          /\ \A k \in Nat : reached[k + 1] = onward[reached[k]]
      <3> DEFINE Sets == SUBSET Nodes
                 first == {head}
      <3>1. first \in Sets /\ \A s \in Sets : onward[s] \in Sets
        BY <2>3, <2>4
      <3> HIDE DEF onward, first, Sets
      <3>2. Loops(StatesOf(onward, first), Sets, onward, first)
        BY <3>1, StatesOfLoop
      <3> QED BY <3>2 DEF first, Sets, Loops
    <2> HIDE DEF reached, onward, next, In
    <2>6. \A k \in Nat : reached[k] \subseteq In
      <3> DEFINE Good == {k \in Nat : reached[k] \subseteq In}
      <3>1. 0 \in Good
        BY <1>3, <1>7, <2>5
      <3>2. ASSUME NEW k \in Nat, k \in Good PROVE k + 1 \in Good
        <4>1. reached[k + 1] = reached[k] \cup ({next[n] : n \in reached[k]} \cap Nodes)
          BY <2>2, <2>5
        <4> QED BY <1>4, <3>2, <4>1, Numbers
      <3>3. Nat \subseteq Good
        <4> HIDE DEF Good
        <4> QED BY <3>1, <3>2, NatSetInduction
      <3> QED BY <3>3
    <2> DEFINE Above(n) == {m \in In : rank[n] < rank[m]}
               Deep == {k \in Nat : \A n \in In : Cardinality(Above(n)) <= k => n \in reached[k]}
    <2>7. IsFiniteSet(In) /\ In \subseteq Nodes /\ \A n \in In : IsFiniteSet(Above(n)) /\ Cardinality(Above(n)) \in Nat
      <3>1. IsFiniteSet(Nodes) /\ In \in SUBSET Nodes
        BY Numbers, FS_Interval DEF In
      <3>2. \A n \in In : Above(n) \in SUBSET Nodes
        BY <3>1
      <3> QED BY <3>1, <3>2, FS_Subset, FS_CardinalityType
    <2>8. ASSUME NEW n \in In, n # head
          PROVE  \E p \in In : next[p] = n /\ Cardinality(Above(p)) < Cardinality(Above(n))
      <3>1. PICK p \in In : next[p] = n /\ rank[n] < rank[p]
        BY <1>5, <2>8
      <3>2. Above(p) \in SUBSET Above(n)
        <4>1. ASSUME NEW m \in In, rank[p] < rank[m] PROVE rank[n] < rank[m]
          <5>1. rank[p] \in Int /\ rank[m] \in Int /\ rank[n] \in Int
            BY <2>7
          <5> QED BY <3>1, <4>1, <5>1
        <4> QED BY <4>1
      <3>3. p \in Above(n) /\ p \notin Above(p)
        BY <2>7, <3>1
      <3> HIDE DEF Above
      <3>4. Cardinality(Above(p)) <= Cardinality(Above(n)) /\ Cardinality(Above(p)) # Cardinality(Above(n))
        BY <2>7, <3>2, <3>3, FS_Subset
      <3> QED BY <2>7, <3>1, <3>4
    <2> HIDE DEF Above
    <2>9. 0 \in Deep
      <3>1. ASSUME NEW n \in In, Cardinality(Above(n)) <= 0 PROVE n = head
        BY <2>7, <2>8, <3>1
      <3> QED BY <2>5, <3>1
    <2>10. ASSUME NEW k \in Nat, k \in Deep PROVE k + 1 \in Deep
      <3>1. reached[k + 1] = reached[k] \cup ({next[n] : n \in reached[k]} \cap Nodes)
        BY <2>2, <2>5
      <3>2. head \in reached[k]
        <4> DEFINE Has == {i \in Nat : head \in reached[i]}
        <4>1. 0 \in Has
          BY <2>5
        <4>2. ASSUME NEW i \in Nat, i \in Has PROVE i + 1 \in Has
          <5>1. reached[i + 1] = reached[i] \cup ({next[n] : n \in reached[i]} \cap Nodes)
            BY <2>2, <2>5
          <5> QED BY <4>2, <5>1
        <4>3. Nat \subseteq Has
          <5> HIDE DEF Has
          <5> QED BY <4>1, <4>2, NatSetInduction
        <4> QED BY <4>3
      <3>3. ASSUME NEW n \in In, Cardinality(Above(n)) <= k + 1 PROVE n \in reached[k + 1]
        <4>1. CASE n = head
          BY <3>1, <3>2, <4>1
        <4>2. CASE n # head
          <5>1. PICK p \in In : next[p] = n /\ Cardinality(Above(p)) < Cardinality(Above(n))
            BY <2>8, <4>2
          <5>2. Cardinality(Above(p)) <= k
            BY <2>7, <3>3, <5>1
          <5>3. p \in reached[k]
            BY <2>10, <5>2
          <5> QED BY <2>7, <3>1, <5>1, <5>3
        <4> QED BY <4>1, <4>2
      <3> QED BY <3>3
    <2>11. MaxAllocs \in Deep
      <3>1. Nat \subseteq Deep
        <4> HIDE DEF Deep
        <4> QED BY <2>9, <2>10, NatSetInduction
      <3> QED BY <3>1, Numbers
    <2>12. ASSUME NEW n \in In PROVE Cardinality(Above(n)) <= MaxAllocs
      <3>1. IsFiniteSet(Nodes) /\ Cardinality(Nodes) = MaxAllocs
        BY Numbers, FS_Interval
      <3>2. Above(n) \in SUBSET Nodes
        BY <2>7 DEF Above
      <3> QED BY <3>1, <3>2, FS_Subset
    <2>13. reached[MaxAllocs] = In
      BY <2>6, <2>11, <2>12, Numbers
    <2> QED BY <2>1, <2>13 DEF In
  <1> QED BY <1>6, <1>7

\* The search returns the least used bin that serves the size.
LEMMA FindBinIs ==
  ASSUME NEW s \in State, Bitmaps(s), NEW size \in 0..MaxSize
  PROVE  \/ /\ FindBin(s, size) = NO_SPACE
            /\ \A b \in s.m_usedBins : b < BinFor(size)
         \/ /\ FindBin(s, size) \in s.m_usedBins /\ BinFor(size) <= FindBin(s, size)
            /\ \A b \in s.m_usedBins : BinFor(size) <= b => FindBin(s, size) <= b
  <1> DEFINE bin    == BinFor(size)
             same   == SameTop(s, bin)
             higher == HigherTops(s, bin)
             least  == LeastOf(higher)
             behind == {b \in s.m_usedBins : TopOf(b) = least}
  <1>1. bin \in Nat
    <2>1. U32ToF32RoundDown(size) <= U32ToF32RoundUp(size) /\ U32ToF32RoundDown(size) \in Nat
      <3>1. size \in Nat /\ size <= size
        BY MaxSizeIs
      <3> QED BY <3>1, RoundDownMonotone
    <2>2. PICK a \in Nat, q \in Nat : HasForm(size, a, q)
      BY FormExists
    <2>3. U32ToF32RoundUp(size) \in Int
      <3>1. MantissaValue \in Nat /\ a * MantissaValue \in Nat
        BY Mantissa
      <3> QED BY <2>2, <3>1 DEF HasForm
    <2> QED BY <2>1, <2>3 DEF BinFor
  <1>2. s.m_usedBins \in SUBSET Nat
    BY BinOf DEF State
  <1>3. /\ s.m_usedBinsTop = {TopOf(b) : b \in s.m_usedBins}
        /\ s.m_usedBinsTop \in SUBSET Nat
    BY <1>2, TopAndLeaf DEF Bitmaps
  <1>4. FindBin(s, size) = CASE same # {} -> LeastOf(same)
                             [] same = {} /\ higher # {} -> LeastOf(behind)
                             [] OTHER -> NO_SPACE
    BY DEF FindBin
  <1>5. ASSUME NEW S \in SUBSET Nat, S # {} PROVE LeastOf(S) \in S /\ \A y \in S : LeastOf(S) <= y
    <2>1. \E x \in S : \A y \in S : x <= y
      BY <1>5, LeastExists
    <2> QED BY <2>1, Zenon DEF LeastOf
  <1>6. same = {b \in s.m_usedBins : TopOf(b) = TopOf(bin) /\ bin <= b}
    <2>1. ASSUME NEW b \in s.m_usedBins, TopOf(b) = TopOf(bin)
          PROVE  TopOf(bin) \in s.m_usedBinsTop /\ (LeafOf(b) >= LeafOf(bin) <=> bin <= b)
      <3>1. bin <= b <=> LeafOf(bin) <= LeafOf(b)
        BY <1>1, <1>2, <2>1, TopAndLeaf
      <3>2. LeafOf(bin) \in Nat /\ LeafOf(b) \in Nat
        BY <1>1, <1>2, TopAndLeaf
      <3> QED BY <1>3, <2>1, <3>1, <3>2
    <2> HIDE DEF bin
    <2> QED BY <2>1 DEF SameTop
  <1>7. higher = {t \in s.m_usedBinsTop : t > TopOf(bin)}
    BY DEF HigherTops
  <1> HIDE DEF bin, same, higher
  <1>8. CASE same # {}
    <2>1. FindBin(s, size) = LeastOf(same)
      BY <1>4, <1>8
    <2>2. LeastOf(same) \in same /\ \A y \in same : LeastOf(same) <= y
      <3>1. same \in SUBSET Nat
        BY <1>2, <1>6
      <3> QED BY <1>5, <1>8, <3>1
    <2>3. ASSUME NEW b \in s.m_usedBins, bin <= b PROVE LeastOf(same) <= b
      <3>1. CASE TopOf(b) = TopOf(bin)
        BY <1>6, <2>2, <2>3, <3>1
      <3>2. CASE TopOf(b) # TopOf(bin)
        <4>1. TopOf(b) \in Nat /\ TopOf(bin) \in Nat /\ ~(TopOf(b) < TopOf(bin))
          <5>1. b \in Nat /\ bin \in Nat
            BY <1>1, <1>2
          <5>2. TopOf(b) < TopOf(bin) => b < bin
            BY <5>1, TopAndLeaf
          <5> QED BY <2>3, <5>1, <5>2, TopAndLeaf
        <4>2. PICK x : x = LeastOf(same) /\ x \in Nat /\ TopOf(x) = TopOf(bin)
          BY <1>2, <1>6, <2>2
        <4>3. TopOf(x) < TopOf(b)
          BY <3>2, <4>1, <4>2
        <4>4. x < b /\ b \in Nat
          BY <1>2, <4>2, <4>3, TopAndLeaf
        <4> QED BY <4>2, <4>4
      <3> QED BY <3>1, <3>2
    <2> QED BY <1>6, <2>1, <2>2, <2>3 DEF bin
  <1>9. CASE same = {} /\ higher # {}
    <2>1. FindBin(s, size) = LeastOf(behind)
      BY <1>4, <1>9
    <2>2. least \in higher /\ \A y \in higher : least <= y
      <3>1. higher \in SUBSET Nat
        BY <1>3, <1>7
      <3> QED BY <1>5, <1>9, <3>1
    <2> HIDE DEF least
    <2>3. least \in Nat /\ least > TopOf(bin) /\ TopOf(bin) \in Nat
      BY <1>1, <1>3, <1>7, <2>2, TopAndLeaf
    <2>4. behind # {} /\ behind \in SUBSET Nat
      BY <1>2, <1>3, <1>7, <2>2
    <2>5. LeastOf(behind) \in behind /\ \A y \in behind : LeastOf(behind) <= y
      BY <1>5, <2>4
    <2>6. PICK x : x = LeastOf(behind) /\ x \in s.m_usedBins /\ x \in Nat /\ TopOf(x) = least
      BY <1>2, <2>5
    <2>7. bin < x
      BY <1>1, <2>3, <2>6, TopAndLeaf
    <2>8. ASSUME NEW b \in s.m_usedBins, bin <= b PROVE x <= b
      <3>1. b \in Nat /\ TopOf(b) \in Nat
        BY <1>2, TopAndLeaf
      <3>2. TopOf(b) # TopOf(bin)
        BY <1>6, <1>9, <2>8
      <3>3. ~(TopOf(b) < TopOf(bin))
        <4>1. TopOf(b) < TopOf(bin) => b < bin
          BY <1>1, <3>1, TopAndLeaf
        <4> QED BY <1>1, <2>8, <3>1, <4>1
      <3>4. TopOf(b) > TopOf(bin) /\ TopOf(b) \in s.m_usedBinsTop
        BY <1>3, <2>3, <3>1, <3>2, <3>3
      <3>5. least <= TopOf(b)
        BY <1>7, <2>2, <3>4
      <3>6. CASE TopOf(b) = least
        BY <2>5, <2>6, <3>6
      <3>7. CASE least < TopOf(b)
        BY <2>6, <3>1, <3>7, TopAndLeaf
      <3> QED BY <2>3, <3>1, <3>5, <3>6, <3>7
    <2> QED BY <1>1, <2>1, <2>6, <2>7, <2>8 DEF bin
  <1>10. CASE same = {} /\ higher = {}
    <2>1. FindBin(s, size) = NO_SPACE
      BY <1>4, <1>10
    <2>2. ASSUME NEW b \in s.m_usedBins PROVE b < bin
      <3>1. b \in Nat /\ TopOf(b) \in Nat /\ TopOf(bin) \in Nat /\ TopOf(b) \in s.m_usedBinsTop
        BY <1>1, <1>2, <1>3, TopAndLeaf
      <3>2. ~(TopOf(b) > TopOf(bin))
        BY <1>7, <1>10, <3>1
      <3>3. CASE TopOf(b) = TopOf(bin)
        BY <1>1, <1>6, <1>10, <3>1, <3>3
      <3>4. CASE TopOf(b) < TopOf(bin)
        BY <1>1, <3>1, <3>4, TopAndLeaf
      <3> QED BY <3>1, <3>2, <3>3, <3>4
    <2> QED BY <2>1, <2>2 DEF bin
  <1> QED BY <1>8, <1>9, <1>10

-----------------------------------------------------------------------------
(* The tiling of the range                                                 *)

TileLinked(T, off, size, left, right, pos, n) ==
  /\ right[n] # NIL => /\ right[n] \in T /\ left[right[n]] = n /\ pos[n] < pos[right[n]]
                       /\ off[right[n]] = off[n] + size[n]
                       /\ \A m \in T : pos[m] <= pos[n] \/ pos[right[n]] <= pos[m]
  /\ right[n] = NIL => /\ off[n] + size[n] = Size
                       /\ \A m \in T : pos[m] <= pos[n]
  /\ left[n] # NIL => left[n] \in T /\ right[left[n]] = n
  /\ left[n] = NIL => off[n] = 0 /\ \A m \in T : pos[n] <= pos[m]

\* The nodes of T tile the range, in the order of pos.
Tiles(T, off, size, left, right, pos) ==
  /\ T \subseteq Nodes /\ T # {}
  /\ \A n \in T : off[n] \in Nat /\ size[n] \in Nat /\ off[n] + size[n] <= Size
  /\ \A m, n \in T : pos[m] = pos[n] => m = n
  /\ \A m, n \in T : pos[m] < pos[n] => off[m] + size[m] <= off[n]
  /\ \A n \in T : TileLinked(T, off, size, left, right, pos, n)

Tiled(T, off, size, left, right) ==
  \E pos \in [Nodes -> Int] : Tiles(T, off, size, left, right, pos)

\* What a tiling says without the order.
LEMMA TileFacts ==
  ASSUME NEW T, NEW off, NEW size, NEW left, NEW right, Tiled(T, off, size, left, right)
  PROVE  /\ T \subseteq Nodes /\ T # {}
         /\ \A n \in T :
              /\ off[n] \in Nat /\ size[n] \in Nat /\ off[n] + size[n] <= Size
              /\ right[n] # NIL => /\ right[n] \in T /\ left[right[n]] = n /\ right[n] # n
                                   /\ off[right[n]] = off[n] + size[n]
              /\ right[n] = NIL => off[n] + size[n] = Size
              /\ left[n] # NIL => left[n] \in T /\ right[left[n]] = n /\ left[n] # n
              /\ left[n] = NIL => off[n] = 0
              /\ left[n] # NIL => left[n] # right[n]
         /\ \A m, n \in T : m # n => off[m] + size[m] <= off[n] \/ off[n] + size[n] <= off[m]
         /\ \A m, n \in T : left[m] = NIL /\ left[n] = NIL => m = n
         /\ \A m, n \in T : left[n] = NIL /\ right[n] = NIL => m = n
  <1>1. PICK pos \in [Nodes -> Int] : Tiles(T, off, size, left, right, pos)
    BY DEF Tiled
  <1>2. T \subseteq Nodes /\ T # {} /\ \A n \in T : pos[n] \in Int
    BY <1>1 DEF Tiles
  <1>3. ASSUME NEW n \in T
        PROVE  /\ off[n] \in Nat /\ size[n] \in Nat /\ off[n] + size[n] <= Size
               /\ right[n] # NIL => /\ right[n] \in T /\ left[right[n]] = n /\ right[n] # n
                                    /\ off[right[n]] = off[n] + size[n] /\ pos[n] < pos[right[n]]
               /\ right[n] = NIL => off[n] + size[n] = Size
               /\ left[n] # NIL => left[n] \in T /\ right[left[n]] = n
               /\ left[n] = NIL => off[n] = 0
    BY <1>1, <1>2 DEF Tiles, TileLinked
  <1>4. ASSUME NEW n \in T, left[n] # NIL PROVE left[n] # n /\ left[n] # right[n]
    <2>1. left[n] \in T /\ right[left[n]] = n /\ n # NIL
      BY <1>2, <1>3, <1>4, Numbers
    <2>2. pos[left[n]] < pos[n]
      BY <1>3, <2>1
    <2>3. right[n] # NIL => pos[n] < pos[right[n]]
      BY <1>3
    <2> QED BY <1>2, <1>4, <2>1, <2>2, <2>3
  <1>5. ASSUME NEW m \in T, NEW n \in T, m # n
        PROVE  off[m] + size[m] <= off[n] \/ off[n] + size[n] <= off[m]
    <2>1. pos[m] < pos[n] \/ pos[n] < pos[m]
      BY <1>1, <1>2, <1>5 DEF Tiles
    <2> QED BY <1>1, <2>1 DEF Tiles
  <1>6. ASSUME NEW m \in T, NEW n \in T, left[m] = NIL, left[n] = NIL PROVE m = n
    <2>1. pos[m] <= pos[n] /\ pos[n] <= pos[m]
      BY <1>1, <1>6 DEF Tiles, TileLinked
    <2> QED BY <1>1, <1>2, <2>1 DEF Tiles
  <1>7. ASSUME NEW m \in T, NEW n \in T, left[n] = NIL, right[n] = NIL PROVE m = n
    <2>1. pos[m] <= pos[n] /\ pos[n] <= pos[m]
      BY <1>1, <1>7 DEF Tiles, TileLinked
    <2> QED BY <1>1, <1>2, <2>1 DEF Tiles
  <1> QED BY <1>2, <1>3, <1>4, <1>5, <1>6, <1>7

LEMMA SameTiles ==
  ASSUME NEW T, NEW off, NEW size, NEW left, NEW right, Tiled(T, off, size, left, right),
         NEW off2, NEW size2, NEW left2, NEW right2,
         \A n \in T : /\ off2[n] = off[n] /\ size2[n] = size[n]
                      /\ left2[n] = left[n] /\ right2[n] = right[n]
  PROVE  Tiled(T, off2, size2, left2, right2)
  <1>1. PICK pos \in [Nodes -> Int] : Tiles(T, off, size, left, right, pos)
    BY DEF Tiled
  <1>2. \A n \in T : TileLinked(T, off2, size2, left2, right2, pos, n)
    <2>1. SUFFICES ASSUME NEW n \in T PROVE TileLinked(T, off2, size2, left2, right2, pos, n)
      OBVIOUS
    <2>2. TileLinked(T, off, size, left, right, pos, n)
      BY <1>1 DEF Tiles
    <2> QED BY <2>2 DEF TileLinked
  <1>3. Tiles(T, off2, size2, left2, right2, pos)
    <2>1. /\ T \subseteq Nodes /\ T # {}
          /\ \A n \in T : off2[n] \in Nat /\ size2[n] \in Nat /\ off2[n] + size2[n] <= Size
          /\ \A m, n \in T : pos[m] = pos[n] => m = n
          /\ \A m, n \in T : pos[m] < pos[n] => off2[m] + size2[m] <= off2[n]
      BY <1>1 DEF Tiles
    <2> QED BY <1>2, <2>1 DEF Tiles
  <1> QED BY <1>3 DEF Tiled

\* A region is split: c takes what is behind its first k units.
LEMMA SplitTiles ==
  ASSUME NEW T, NEW off, NEW size, NEW left, NEW right, Tiled(T, off, size, left, right),
         NEW n \in T, NEW c \in Nodes, c \notin T, NEW k \in 0..size[n],
         NEW off2, NEW size2, NEW left2, NEW right2,
         off2[n] = off[n], size2[n] = k, left2[n] = left[n], right2[n] = c,
         off2[c] = off[n] + k, size2[c] = size[n] - k, left2[c] = n, right2[c] = right[n],
         \A m \in T \ {n} : /\ off2[m] = off[m] /\ size2[m] = size[m] /\ right2[m] = right[m]
                            /\ left2[m] = IF m = right[n] THEN c ELSE left[m]
  PROVE  Tiled(T \cup {c}, off2, size2, left2, right2)
  <1>1. PICK pos \in [Nodes -> Int] : Tiles(T, off, size, left, right, pos)
    BY DEF Tiled
  <1> DEFINE T2 == T \cup {c}
             pos2 == [m \in Nodes |-> IF m = c THEN pos[n] + 1
                                      ELSE IF pos[m] > pos[n] THEN pos[m] + 1 ELSE pos[m]]
  <1>2. /\ T \subseteq Nodes /\ T # {} /\ \A m \in T : pos[m] \in Int
        /\ \A m \in T : off[m] \in Nat /\ size[m] \in Nat /\ off[m] + size[m] <= Size
        /\ \A m, i \in T : pos[m] = pos[i] => m = i
        /\ \A m, i \in T : pos[m] < pos[i] => off[m] + size[m] <= off[i]
        /\ \A m \in T : TileLinked(T, off, size, left, right, pos, m)
    BY <1>1 DEF Tiles
  <1>3. /\ pos2 \in [Nodes -> Int] /\ pos2[c] = pos[n] + 1 /\ pos2[n] = pos[n]
        /\ \A m \in T : pos2[m] = IF pos[m] > pos[n] THEN pos[m] + 1 ELSE pos[m]
    BY <1>2
  <1> HIDE DEF pos2
  <1>4. n # c /\ n # NIL /\ c # NIL /\ n \in Nodes
    BY <1>2, Numbers
  <1>5. \A m \in T2 : off2[m] \in Nat /\ size2[m] \in Nat /\ off2[m] + size2[m] <= Size
    <2>1. off2[c] \in Nat /\ size2[c] \in Nat /\ off2[c] + size2[c] = off[n] + size[n]
      BY <1>2
    <2>2. off2[n] \in Nat /\ size2[n] \in Nat /\ off2[n] + size2[n] <= Size
      BY <1>2, Numbers
    <2> QED BY <1>2, <2>1, <2>2
  <1>6. \A m, i \in T2 : pos2[m] = pos2[i] => m = i
    BY <1>2, <1>3
  <1>7. ASSUME NEW m \in T2, NEW i \in T2, pos2[m] < pos2[i]
        PROVE  off2[m] + size2[m] <= off2[i]
    <2>1. CASE m = c
      <3>1. i \in T /\ pos[n] < pos[i] /\ i # n
        BY <1>2, <1>3, <1>7, <2>1
      <3>2. off[n] + size[n] <= off[i]
        BY <1>2, <3>1
      <3> QED BY <1>2, <2>1, <3>1, <3>2
    <2>2. CASE i = c
      <3>1. m \in T /\ (m = n \/ pos[m] < pos[n])
        BY <1>2, <1>3, <1>7, <2>2
      <3>2. CASE m = n
        BY <1>2, <2>2, <3>2
      <3>3. CASE m # n
        <4>1. off[m] + size[m] <= off[n]
          BY <1>2, <3>1, <3>3
        <4> QED BY <1>2, <2>2, <3>1, <3>3, <4>1
      <3> QED BY <3>2, <3>3
    <2>3. CASE m # c /\ i # c
      <3>1. m \in T /\ i \in T /\ pos[m] < pos[i] /\ m # i
        BY <1>2, <1>3, <1>7, <2>3
      <3>2. off[m] + size[m] <= off[i]
        BY <1>2, <3>1
      <3>3. off2[m] + size2[m] <= off[m] + size[m] /\ off2[i] = off[i]
        BY <1>2, <3>1
      <3> QED BY <1>2, <1>5, <3>1, <3>2, <3>3
    <2> QED BY <2>1, <2>2, <2>3
  <1>8. TileLinked(T2, off2, size2, left2, right2, pos2, c)
    <2>1. TileLinked(T, off, size, left, right, pos, n)
      BY <1>2
    <2>2. right[n] # NIL => /\ right[n] \in T /\ right[n] # n /\ left2[right[n]] = c
                            /\ pos2[right[n]] = pos[right[n]] + 1 /\ pos[n] < pos[right[n]]
                            /\ off2[right[n]] = off[n] + size[n]
      BY <1>2, <1>3, <2>1 DEF TileLinked
    <2>3. right[n] # NIL => \A m \in T2 : pos2[m] <= pos2[c] \/ pos2[right[n]] <= pos2[m]
      <3>1. SUFFICES ASSUME right[n] # NIL, NEW m \in T2
                     PROVE  pos2[m] <= pos2[c] \/ pos2[right[n]] <= pos2[m]
        OBVIOUS
      <3>2. CASE m = c
        BY <1>2, <1>3, <3>2
      <3>3. CASE m # c
        <4>1. m \in T /\ (pos[m] <= pos[n] \/ pos[right[n]] <= pos[m])
          BY <2>1, <3>1, <3>3 DEF TileLinked
        <4> QED BY <1>2, <1>3, <2>2, <3>1, <4>1
      <3> QED BY <3>2, <3>3
    <2>4. right[n] = NIL => \A m \in T2 : pos2[m] <= pos2[c]
      <3>1. right[n] = NIL => \A m \in T : pos[m] <= pos[n]
        BY <2>1 DEF TileLinked
      <3> QED BY <1>2, <1>3, <3>1
    <2>5. off2[c] + size2[c] = off[n] + size[n] /\ (right[n] = NIL => off[n] + size[n] = Size)
      BY <1>2, <2>1 DEF TileLinked
    <2>6. right[n] # NIL => /\ right[n] \in T2 /\ pos2[c] < pos2[right[n]]
      BY <1>2, <1>3, <2>2
    <2> QED BY <1>4, <2>2, <2>3, <2>4, <2>5, <2>6 DEF TileLinked
  <1>9. TileLinked(T2, off2, size2, left2, right2, pos2, n)
    <2>1. TileLinked(T, off, size, left, right, pos, n)
      BY <1>2
    <2>2. \A m \in T2 : pos2[m] <= pos2[n] \/ pos2[c] <= pos2[m]
      BY <1>2, <1>3
    <2>3. left[n] # NIL => left[n] \in T2 /\ right2[left[n]] = n
      <3>1. left[n] # NIL => left[n] \in T /\ right[left[n]] = n
        BY <2>1 DEF TileLinked
      <3>2. left[n] # NIL => left[n] # n
        BY TileFacts
      <3> QED BY <3>1, <3>2
    <2>4. left[n] = NIL => off2[n] = 0 /\ \A m \in T2 : pos2[n] <= pos2[m]
      <3>1. left[n] = NIL => off[n] = 0 /\ \A m \in T : pos[n] <= pos[m]
        BY <2>1 DEF TileLinked
      <3> QED BY <1>2, <1>3, <3>1
    <2>5. pos2[n] < pos2[c] /\ off2[c] = off2[n] + size2[n]
      BY <1>2, <1>3
    <2> QED BY <1>4, <2>2, <2>3, <2>4, <2>5 DEF TileLinked
  <1>10. ASSUME NEW m \in T, m # n
         PROVE  TileLinked(T2, off2, size2, left2, right2, pos2, m)
    <2>1. TileLinked(T, off, size, left, right, pos, m)
      BY <1>2
    <2>2. right[m] # NIL => /\ right[m] \in T2 /\ left2[right[m]] = m /\ pos2[m] < pos2[right[m]]
                            /\ off2[right[m]] = off2[m] + size2[m]
      <3>1. right[m] # NIL => /\ right[m] \in T /\ left[right[m]] = m /\ pos[m] < pos[right[m]]
                              /\ off[right[m]] = off[m] + size[m]
        BY <2>1 DEF TileLinked
      <3>2. right[m] # NIL => right[m] # right[n]
        <4>1. right[n] # NIL => left[right[n]] = n
          BY <1>2 DEF TileLinked
        <4> QED BY <1>10, <3>1, <4>1
      <3>3. right[m] # NIL => /\ left2[right[m]] = m /\ off2[right[m]] = off[right[m]]
        <4>1. CASE right[m] = n
          <5>1. left2[n] = left[n]
            OBVIOUS
          <5> QED BY <3>1, <4>1, <5>1
        <4>2. CASE right[m] # n
          BY <3>1, <3>2, <4>2
        <4> QED BY <4>1, <4>2
      <3>4. right[m] # NIL => pos2[m] < pos2[right[m]]
        BY <1>2, <1>3, <3>1
      <3> QED BY <1>10, <3>1, <3>3, <3>4
    <2>3. right[m] # NIL => \A i \in T2 : pos2[i] <= pos2[m] \/ pos2[right[m]] <= pos2[i]
      <3>1. SUFFICES ASSUME right[m] # NIL, NEW i \in T2
                     PROVE  pos2[i] <= pos2[m] \/ pos2[right[m]] <= pos2[i]
        OBVIOUS
      <3>2. right[m] \in T /\ pos[m] < pos[right[m]] /\ \A j \in T : pos[j] <= pos[m] \/ pos[right[m]] <= pos[j]
        BY <2>1, <3>1 DEF TileLinked
      <3>3. CASE i # c
        BY <1>2, <1>3, <3>2, <3>3
      <3>4. CASE i = c
        <4>1. pos[n] <= pos[m] \/ pos[right[m]] <= pos[n]
          BY <3>2
        <4>2. pos[n] # pos[m]
          BY <1>2, <1>10
        <4> QED BY <1>2, <1>3, <3>2, <3>4, <4>1, <4>2
      <3> QED BY <3>3, <3>4
    <2>4. right[m] = NIL => off2[m] + size2[m] = Size /\ \A i \in T2 : pos2[i] <= pos2[m]
      <3>1. right[m] = NIL => off[m] + size[m] = Size /\ \A i \in T : pos[i] <= pos[m]
        BY <2>1 DEF TileLinked
      <3>2. pos[n] # pos[m]
        BY <1>2, <1>10
      <3> QED BY <1>2, <1>3, <1>10, <3>1, <3>2
    <2>5. left2[m] # NIL => left2[m] \in T2 /\ right2[left2[m]] = m
      <3>1. CASE m = right[n]
        BY <1>10, <3>1
      <3>2. CASE m # right[n]
        <4>1. left2[m] = left[m]
          BY <1>10, <3>2
        <4>2. left[m] # NIL => left[m] \in T /\ right[left[m]] = m
          BY <2>1 DEF TileLinked
        <4>3. left[m] # NIL => left[m] # n
          BY <3>2, <4>2
        <4> QED BY <4>1, <4>2, <4>3
      <3> QED BY <3>1, <3>2
    <2>6. left2[m] = NIL => off2[m] = 0 /\ \A i \in T2 : pos2[m] <= pos2[i]
      <3>1. left2[m] = NIL => left[m] = NIL
        BY <1>4, <1>10
      <3>2. left[m] = NIL => off[m] = 0 /\ \A i \in T : pos[m] <= pos[i]
        BY <2>1 DEF TileLinked
      <3> QED BY <1>2, <1>3, <1>10, <3>1, <3>2
    <2>7. right2[m] = right[m]
      BY <1>10
    <2> QED BY <2>2, <2>3, <2>4, <2>5, <2>6, <2>7 DEF TileLinked
  <1>11. Tiles(T2, off2, size2, left2, right2, pos2)
    <2>1. T2 \subseteq Nodes /\ T2 # {}
      BY <1>2
    <2>2. \A m \in T2 : TileLinked(T2, off2, size2, left2, right2, pos2, m)
      BY <1>8, <1>9, <1>10
    <2> QED BY <1>5, <1>6, <1>7, <2>1, <2>2 DEF Tiles
  <1> QED BY <1>3, <1>11 DEF Tiled

\* n takes in its neighbour to the right.
LEMMA JoinRight ==
  ASSUME NEW T, NEW off, NEW size, NEW left, NEW right, Tiled(T, off, size, left, right),
         NEW n \in T, NEW r, r = right[n], r # NIL,
         NEW off2, NEW size2, NEW left2, NEW right2,
         off2[n] = off[n], size2[n] = size[n] + size[r], left2[n] = left[n], right2[n] = right[r],
         \A m \in T \ {n, r} : /\ off2[m] = off[m] /\ size2[m] = size[m] /\ right2[m] = right[m]
                               /\ left2[m] = IF m = right[r] THEN n ELSE left[m]
  PROVE  Tiled(T \ {r}, off2, size2, left2, right2)
  <1>1. PICK pos \in [Nodes -> Int] : Tiles(T, off, size, left, right, pos)
    BY DEF Tiled
  <1> DEFINE T2 == T \ {r}
  <1>2. /\ T \subseteq Nodes /\ \A m \in T : pos[m] \in Int
        /\ \A m \in T : off[m] \in Nat /\ size[m] \in Nat /\ off[m] + size[m] <= Size
        /\ \A m, i \in T : pos[m] = pos[i] => m = i
        /\ \A m, i \in T : pos[m] < pos[i] => off[m] + size[m] <= off[i]
        /\ \A m \in T : TileLinked(T, off, size, left, right, pos, m)
    BY <1>1 DEF Tiles
  <1>3. /\ r \in T /\ r # n /\ left[r] = n /\ pos[n] < pos[r] /\ off[r] = off[n] + size[n]
        /\ \A m \in T : pos[m] <= pos[n] \/ pos[r] <= pos[m]
    BY <1>2 DEF TileLinked
  <1>4. /\ right[r] # NIL => /\ right[r] \in T /\ left[right[r]] = r /\ pos[r] < pos[right[r]]
                             /\ off[right[r]] = off[r] + size[r]
                             /\ \A m \in T : pos[m] <= pos[r] \/ pos[right[r]] <= pos[m]
        /\ right[r] = NIL => off[r] + size[r] = Size /\ \A m \in T : pos[m] <= pos[r]
    BY <1>2, <1>3 DEF TileLinked
  <1>5. n # NIL /\ r # NIL /\ off2[n] + size2[n] = off[r] + size[r]
    BY <1>2, <1>3, Numbers, SMTT(60)
  <1>6. \A m \in T2 : m # n => m \in T \ {n, r}
    OBVIOUS
  <1>7. \A m \in T2 : off2[m] \in Nat /\ size2[m] \in Nat /\ off2[m] + size2[m] <= Size
    BY <1>2, <1>3, <1>5, <1>6
  <1>8. ASSUME NEW m \in T2, NEW i \in T2, pos[m] < pos[i]
        PROVE  off2[m] + size2[m] <= off2[i]
    <2>1. CASE m = n
      <3>1. i # n /\ pos[r] <= pos[i] /\ pos[r] # pos[i]
        BY <1>2, <1>3, <1>8, <2>1
      <3>2. off[r] + size[r] <= off[i]
        BY <1>2, <1>3, <3>1
      <3> QED BY <1>5, <2>1, <3>1, <3>2
    <2>2. CASE m # n
      <3>1. off[m] + size[m] <= off[i]
        BY <1>2, <1>8
      <3>2. off2[i] = off[i]
        BY <1>6
      <3> QED BY <2>2, <3>1, <3>2
    <2> QED BY <2>1, <2>2
  <1>9. TileLinked(T2, off2, size2, left2, right2, pos, n)
    <2>1. TileLinked(T, off, size, left, right, pos, n)
      BY <1>2
    <2>2. right[r] # NIL => /\ right[r] \in T2 /\ right[r] # n /\ left2[right[r]] = n
                            /\ pos[n] < pos[right[r]] /\ off2[right[r]] = off2[n] + size2[n]
      <3>1. right[r] # NIL => right[r] # r /\ right[r] # n /\ pos[n] < pos[right[r]]
        BY <1>2, <1>3, <1>4
      <3> QED BY <1>4, <1>5, <3>1
    <2>3. right[r] # NIL => \A m \in T2 : pos[m] <= pos[n] \/ pos[right[r]] <= pos[m]
      BY <1>2, <1>3, <1>4
    <2>4. right[r] = NIL => off2[n] + size2[n] = Size /\ \A m \in T2 : pos[m] <= pos[n]
      BY <1>2, <1>3, <1>4, <1>5
    <2>5. left[n] # NIL => left[n] \in T2 /\ right2[left[n]] = n
      <3>1. left[n] # NIL => left[n] \in T /\ right[left[n]] = n
        BY <2>1 DEF TileLinked
      <3>2. left[n] # NIL => left[n] # n /\ left[n] # r
        <4>1. left[n] # n /\ (left[n] # NIL => left[n] # right[n])
          BY <1>5, TileFacts
        <4> QED BY <4>1
      <3> QED BY <3>1, <3>2
    <2>6. left[n] = NIL => off2[n] = 0 /\ \A m \in T2 : pos[n] <= pos[m]
      BY <2>1 DEF TileLinked
    <2> QED BY <2>2, <2>3, <2>4, <2>5, <2>6 DEF TileLinked
  <1>10. ASSUME NEW m \in T2, m # n
         PROVE  TileLinked(T2, off2, size2, left2, right2, pos, m)
    <2>1. TileLinked(T, off, size, left, right, pos, m) /\ m \in T \ {n, r}
      BY <1>2, <1>10
    <2>2. right2[m] = right[m] /\ off2[m] = off[m] /\ size2[m] = size[m]
      BY <2>1
    <2>3. right[m] # NIL => /\ right[m] \in T /\ left[right[m]] = m /\ pos[m] < pos[right[m]]
                            /\ off[right[m]] = off[m] + size[m]
                            /\ \A i \in T : pos[i] <= pos[m] \/ pos[right[m]] <= pos[i]
      BY <2>1 DEF TileLinked
    <2>4. right[m] # NIL => right[m] # r /\ right[m] # right[r]
      <3>1. right[r] # NIL => left[right[r]] = r
        BY <1>4
      <3> QED BY <1>3, <2>1, <2>3, <3>1
    <2>5. right[m] # NIL => left2[right[m]] = m /\ off2[right[m]] = off[right[m]]
      <3>1. CASE right[m] = n
        BY <2>3, <3>1, <1>5
      <3>2. CASE right[m] # n
        BY <2>3, <2>4, <3>2
      <3> QED BY <3>1, <3>2
    <2>6. right[m] = NIL => off[m] + size[m] = Size /\ \A i \in T2 : pos[i] <= pos[m]
      BY <2>1 DEF TileLinked
    <2>7. left2[m] # NIL => left2[m] \in T2 /\ right2[left2[m]] = m
      <3>1. CASE m = right[r]
        BY <1>3, <2>1, <3>1
      <3>2. CASE m # right[r]
        <4>1. left2[m] = left[m]
          BY <2>1, <3>2
        <4>2. left[m] # NIL => left[m] \in T /\ right[left[m]] = m
          BY <2>1 DEF TileLinked
        <4>3. left[m] # NIL => left[m] # n /\ left[m] # r
          BY <2>1, <3>2, <4>2
        <4> QED BY <4>1, <4>2, <4>3
      <3> QED BY <3>1, <3>2
    <2>8. left2[m] = NIL => off[m] = 0 /\ \A i \in T2 : pos[m] <= pos[i]
      <3>1. left2[m] = NIL => left[m] = NIL
        BY <1>5, <2>1
      <3> QED BY <2>1, <3>1 DEF TileLinked
    <2>9. right[m] # NIL => right[m] \in T2 /\ \A i \in T2 : pos[i] <= pos[m] \/ pos[right[m]] <= pos[i]
      BY <2>3, <2>4
    <2> QED BY <2>2, <2>3, <2>5, <2>6, <2>7, <2>8, <2>9 DEF TileLinked
  <1>11. Tiles(T2, off2, size2, left2, right2, pos)
    <2>1. T2 \subseteq Nodes /\ T2 # {} /\ \A m, i \in T2 : pos[m] = pos[i] => m = i
      BY <1>2, <1>3
    <2>2. \A m \in T2 : TileLinked(T2, off2, size2, left2, right2, pos, m)
      BY <1>9, <1>10
    <2> QED BY <1>7, <1>8, <2>1, <2>2 DEF Tiles
  <1> QED BY <1>11 DEF Tiled

\* n takes in its neighbour to the left.
LEMMA JoinLeft ==
  ASSUME NEW T, NEW off, NEW size, NEW left, NEW right, Tiled(T, off, size, left, right),
         NEW n \in T, NEW l, l = left[n], l # NIL,
         NEW off2, NEW size2, NEW left2, NEW right2,
         off2[n] = off[l], size2[n] = size[l] + size[n], left2[n] = left[l], right2[n] = right[n],
         \A m \in T \ {n, l} : /\ off2[m] = off[m] /\ size2[m] = size[m] /\ left2[m] = left[m]
                               /\ right2[m] = IF m = left[l] THEN n ELSE right[m]
  PROVE  Tiled(T \ {l}, off2, size2, left2, right2)
  <1>1. PICK pos \in [Nodes -> Int] : Tiles(T, off, size, left, right, pos)
    BY DEF Tiled
  <1> DEFINE T2 == T \ {l}
  <1>2. /\ T \subseteq Nodes /\ \A m \in T : pos[m] \in Int
        /\ \A m \in T : off[m] \in Nat /\ size[m] \in Nat /\ off[m] + size[m] <= Size
        /\ \A m, i \in T : pos[m] = pos[i] => m = i
        /\ \A m, i \in T : pos[m] < pos[i] => off[m] + size[m] <= off[i]
        /\ \A m \in T : TileLinked(T, off, size, left, right, pos, m)
    BY <1>1 DEF Tiles
  <1>3. n # NIL /\ l # NIL /\ n \in Nodes
    BY <1>2, Numbers
  <1>4. l \in T /\ right[l] = n
    BY <1>2 DEF TileLinked
  <1>5. /\ pos[l] < pos[n] /\ off[n] = off[l] + size[l] /\ l # n
        /\ \A m \in T : pos[m] <= pos[l] \/ pos[n] <= pos[m]
    BY <1>2, <1>3, <1>4 DEF TileLinked
  <1>6. \A m \in T2 : m # n => m \in T \ {n, l}
    OBVIOUS
  <1>7. off2[n] + size2[n] = off[n] + size[n]
    BY <1>2, <1>4, <1>5
  <1>8. \A m \in T2 : off2[m] \in Nat /\ size2[m] \in Nat /\ off2[m] + size2[m] <= Size
    BY <1>2, <1>4, <1>6, <1>7
  <1>9. ASSUME NEW m \in T2, NEW i \in T2, pos[m] < pos[i]
        PROVE  off2[m] + size2[m] <= off2[i]
    <2>1. CASE i = n
      <3>1. m # n /\ pos[m] <= pos[l] /\ pos[m] # pos[l]
        BY <1>2, <1>4, <1>5, <1>9, <2>1
      <3>2. off[m] + size[m] <= off[l]
        BY <1>2, <1>4, <3>1
      <3> QED BY <2>1, <3>1, <3>2
    <2>2. CASE i # n
      <3>1. off[m] + size[m] <= off[i]
        BY <1>2, <1>9
      <3>2. off2[i] = off[i]
        BY <2>2
      <3>3. off2[m] + size2[m] = off[m] + size[m]
        BY <1>7
      <3> QED BY <3>1, <3>2, <3>3
    <2> QED BY <2>1, <2>2
  <1>10. TileLinked(T2, off2, size2, left2, right2, pos, n)
    <2>1. TileLinked(T, off, size, left, right, pos, n) /\ TileLinked(T, off, size, left, right, pos, l)
      BY <1>2, <1>4
    <2>2. right[n] # NIL => /\ right[n] \in T /\ left[right[n]] = n /\ pos[n] < pos[right[n]]
                            /\ off[right[n]] = off[n] + size[n]
                            /\ \A m \in T : pos[m] <= pos[n] \/ pos[right[n]] <= pos[m]
      BY <2>1 DEF TileLinked
    <2>3. right[n] # NIL => /\ right[n] \in T2 /\ right[n] # n
                            /\ left2[right[n]] = n /\ off2[right[n]] = off2[n] + size2[n]
      <3>1. right[n] # NIL => right[n] # n /\ right[n] # l
        BY <1>2, <1>4, <1>5, <2>2
      <3> QED BY <1>7, <2>2, <3>1
    <2>4. right[n] = NIL => off2[n] + size2[n] = Size /\ \A m \in T2 : pos[m] <= pos[n]
      BY <1>7, <2>1 DEF TileLinked
    <2>5. left[l] # NIL => left[l] \in T2 /\ right2[left[l]] = n
      <3>1. left[l] # NIL => left[l] \in T /\ right[left[l]] = l /\ l # n
        BY <1>5, <2>1 DEF TileLinked
      <3>2. left[l] # NIL => left[l] # l /\ left[l] # right[l]
        BY <1>4, TileFacts
      <3> QED BY <1>4, <3>1, <3>2
    <2>6. left[l] = NIL => off2[n] = 0 /\ \A m \in T2 : pos[n] <= pos[m]
      <3>1. left[l] = NIL => off[l] = 0 /\ \A m \in T : pos[l] <= pos[m]
        BY <2>1 DEF TileLinked
      <3> QED BY <1>2, <1>4, <1>5, <3>1
    <2> QED BY <2>2, <2>3, <2>4, <2>5, <2>6 DEF TileLinked
  <1>11. ASSUME NEW m \in T2, m # n
         PROVE  TileLinked(T2, off2, size2, left2, right2, pos, m)
    <2>1. TileLinked(T, off, size, left, right, pos, m) /\ m \in T \ {n, l}
      BY <1>2, <1>11
    <2>2. left2[m] = left[m] /\ off2[m] = off[m] /\ size2[m] = size[m]
      BY <2>1
    <2>3. /\ right2[m] # NIL => /\ right2[m] \in T2 /\ left2[right2[m]] = m
                                /\ pos[m] < pos[right2[m]]
                                /\ off2[right2[m]] = off2[m] + size2[m]
                                /\ \A i \in T2 : pos[i] <= pos[m] \/ pos[right2[m]] <= pos[i]
          /\ right2[m] = NIL => off2[m] + size2[m] = Size /\ \A i \in T2 : pos[i] <= pos[m]
      <3>1. CASE m = left[l]
        <4>1. right2[m] = n /\ left2[n] = m
          BY <2>1, <3>1
        <4>2. right[m] = l
          <5>1. left[l] # NIL => right[left[l]] = l
            BY <1>2, <1>4 DEF TileLinked
          <5>2. m # NIL
            BY <1>2, <2>1, Numbers
          <5> QED BY <3>1, <5>1, <5>2
        <4>3. /\ pos[m] < pos[l] /\ off[l] = off[m] + size[m]
              /\ \A i \in T : pos[i] <= pos[m] \/ pos[l] <= pos[i]
          BY <1>3, <2>1, <4>2 DEF TileLinked
        <4>4. pos[m] < pos[n] /\ off2[n] = off2[m] + size2[m]
          BY <1>2, <1>4, <1>5, <2>1, <2>2, <4>3
        <4>5. \A i \in T2 : pos[i] <= pos[m] \/ pos[n] <= pos[i]
          BY <1>2, <1>4, <1>5, <4>3
        <4> QED BY <1>3, <1>5, <4>1, <4>4, <4>5
      <3>2. CASE m # left[l]
        <4>1. right2[m] = right[m]
          BY <2>1, <3>2
        <4>2. right[m] # NIL => /\ right[m] \in T /\ left[right[m]] = m /\ pos[m] < pos[right[m]]
                                /\ off[right[m]] = off[m] + size[m]
                                /\ \A i \in T : pos[i] <= pos[m] \/ pos[right[m]] <= pos[i]
          BY <2>1 DEF TileLinked
        <4>3. right[m] # NIL => right[m] # l /\ right[m] # n
          BY <2>1, <3>2, <4>2
        <4>4. right[m] # NIL => left2[right[m]] = m /\ off2[right[m]] = off2[m] + size2[m]
          BY <2>2, <4>2, <4>3
        <4>5. right[m] = NIL => off[m] + size[m] = Size /\ \A i \in T : pos[i] <= pos[m]
          BY <2>1 DEF TileLinked
        <4> QED BY <2>2, <4>1, <4>2, <4>3, <4>4, <4>5
      <3> QED BY <3>1, <3>2
    <2>4. left[m] # NIL => left[m] \in T2 /\ right2[left[m]] = m
      <3>1. left[m] # NIL => left[m] \in T /\ right[left[m]] = m
        BY <2>1 DEF TileLinked
      <3>2. left[m] # NIL => left[m] # l
        BY <1>4, <2>1, <3>1
      <3>3. left[m] # NIL => right2[left[m]] = m
        <4>1. CASE left[m] = n
          BY <3>1, <4>1, <1>3
        <4>2. CASE left[m] # n
          <5>1. left[m] # NIL => left[m] # left[l]
            <6>1. left[l] # NIL => right[left[l]] = l
              BY <1>2, <1>4 DEF TileLinked
            <6> QED BY <2>1, <3>1, <6>1
          <5> QED BY <3>1, <3>2, <4>2, <5>1
        <4> QED BY <4>1, <4>2
      <3> QED BY <3>1, <3>2, <3>3
    <2>5. left[m] = NIL => off[m] = 0 /\ \A i \in T2 : pos[m] <= pos[i]
      BY <2>1 DEF TileLinked
    <2> QED BY <2>2, <2>3, <2>4, <2>5 DEF TileLinked
  <1>12. Tiles(T2, off2, size2, left2, right2, pos)
    <2>1. T2 \subseteq Nodes /\ T2 # {} /\ \A m, i \in T2 : pos[m] = pos[i] => m = i
      BY <1>2, <1>5
    <2>2. \A m \in T2 : TileLinked(T2, off2, size2, left2, right2, pos, m)
      BY <1>10, <1>11
    <2> QED BY <1>8, <1>9, <2>1, <2>2 DEF Tiles
  <1> QED BY <1>12 DEF Tiled

-----------------------------------------------------------------------------
(* The inductive invariant                                                 *)

\* The units that live allocations hold.
Held(blocks) == {u \in 0..Size-1 : \E x \in blocks : x.offset <= u /\ u < x.offset + x.len}

LEMMA Units ==
  IsFiniteSet(0..Size-1) /\ Cardinality(0..Size-1) = Size /\ Size \in Nat
  <1>1. Size \in Nat /\ Size >= 1 /\ 0 \in Int /\ Size - 1 \in Int
    BY Numbers
  <1>2. /\ IsFiniteSet(0..(Size - 1))
        /\ Cardinality(0..(Size - 1)) = IF 0 > Size - 1 THEN 0 ELSE (Size - 1) - 0 + 1
    BY <1>1, FS_Interval, Zenon
  <1> QED BY <1>1, <1>2

LEMMA HeldAdd ==
  ASSUME NEW blocks, NEW x, x.offset \in Nat, x.len \in Nat, x.offset + x.len <= Size,
         \A y \in blocks : /\ y.offset \in Nat /\ y.len \in Nat
                           /\ y.offset + y.len <= x.offset \/ x.offset + x.len <= y.offset
  PROVE  /\ Cardinality(Held(blocks)) \in Nat
         /\ Cardinality(Held(blocks \cup {x})) = Cardinality(Held(blocks)) + x.len
         /\ Cardinality(Held(blocks \cup {x})) <= Size
  <1> DEFINE own == x.offset..(x.offset + x.len - 1)
  <1>1. Size - 1 \in Int /\ 0 \in Int /\ Size \in Nat
    BY Numbers
  <1>2. IsFiniteSet(0..Size-1) /\ Cardinality(0..Size-1) <= Size
    BY Units
  <1>3. \A b : IsFiniteSet(Held(b)) /\ Cardinality(Held(b)) \in Nat /\ Cardinality(Held(b)) <= Size
    <2>1. SUFFICES ASSUME NEW b
                   PROVE  IsFiniteSet(Held(b)) /\ Cardinality(Held(b)) \in Nat /\ Cardinality(Held(b)) <= Size
      OBVIOUS
    <2>2. Held(b) \in SUBSET (0..Size-1)
      BY DEF Held
    <2>3. IsFiniteSet(Held(b)) /\ Cardinality(Held(b)) <= Cardinality(0..Size-1)
      BY <1>2, <2>2, FS_Subset
    <2>4. Cardinality(Held(b)) \in Nat /\ Cardinality(0..Size-1) \in Nat
      BY <1>2, <2>3, FS_CardinalityType
    <2> QED BY <1>1, <1>2, <2>3, <2>4
  <1>4. Held(blocks \cup {x}) = Held(blocks) \cup own
    <2>1. ASSUME NEW u \in own PROVE u \in 0..Size-1 /\ x.offset <= u /\ u < x.offset + x.len
      BY <1>1
    <2>2. ASSUME NEW u \in 0..Size-1, x.offset <= u, u < x.offset + x.len PROVE u \in own
      BY <2>2
    <2> HIDE DEF own
    <2> QED BY <2>1, <2>2 DEF Held
  <1>5. Held(blocks) \cap own = {}
    <2>1. SUFFICES ASSUME NEW u \in own, NEW y \in blocks, y.offset <= u, u < y.offset + y.len
                   PROVE  FALSE
      BY DEF Held
    <2> QED BY <2>1
  <1>6. IsFiniteSet(own) /\ Cardinality(own) = x.len
    <2>1. x.offset \in Int /\ x.offset + x.len - 1 \in Int
      OBVIOUS
    <2>2. IsFiniteSet(own) /\ Cardinality(own) =
            IF x.offset > x.offset + x.len - 1 THEN 0 ELSE (x.offset + x.len - 1) - x.offset + 1
      BY <2>1, FS_Interval
    <2> HIDE DEF own
    <2> QED BY <2>2
  <1> HIDE DEF own
  <1>7. Cardinality(Held(blocks \cup {x})) = Cardinality(Held(blocks)) + x.len
    <2>1. Cardinality(Held(blocks) \cup own) = Cardinality(Held(blocks)) + Cardinality(own)
                                                  - Cardinality(Held(blocks) \cap own)
      BY <1>3, <1>6, FS_Union
    <2>2. Cardinality(Held(blocks) \cap own) = 0
      BY <1>5, FS_EmptySet
    <2>3. Cardinality(Held(blocks)) \in Nat /\ x.len \in Nat
      BY <1>3
    <2>4. Cardinality(Held(blocks \cup {x})) = Cardinality(Held(blocks)) + x.len - 0
      BY <1>4, <1>6, <2>1, <2>2, Zenon
    <2> QED BY <2>3, <2>4
  <1> QED BY <1>3, <1>7

\* The nodes that have a part of the range: those of free regions and the used ones.
TilesOf(list) == {n \in Nodes : list[n] \in Bins \/ list[n] = USED}

\* The used nodes are those of the live allocations and know their place and size.
LiveMatch(s, list, blocks) ==
  /\ \A x \in blocks : /\ x = [offset |-> x.offset, len |-> x.len, node |-> x.node]
                       /\ x.node \in Nodes /\ list[x.node] = USED
                       /\ x.offset = OffsetOf(s)[x.node] /\ x.len = SizeOf(s)[x.node]
  /\ \A n \in Nodes : list[n] = USED => \E x \in blocks : x.node = n

\* No free region is next to another.
Merged(s, list) ==
  \A n \in Nodes : list[n] \in Bins /\ RightOf(s)[n] # NIL => list[RightOf(s)[n]] \notin Bins

Tiling2(s, list) == Tiled(TilesOf(list), OffsetOf(s), SizeOf(s), LeftOf(s), RightOf(s))

Good(s, blocks, list) ==
  /\ s \in State
  /\ Lists(s, list) /\ Bitmaps(s)
  /\ \A n \in Nodes : list[n] # LIMBO
  /\ Tiling2(s, list) /\ Merged(s, list)
  /\ LiveMatch(s, list, blocks)
  /\ s.m_freeStorage = Size - Cardinality(Held(blocks))

\* There are such places.
Placed(s, blocks) == \E list \in [Nodes -> Places] : Good(s, blocks, list)

\* Every node has its place as long as the allocator has its arrays and never wrote
\* outside them.
IInv ==
  /\ TypeOK /\ self \in State
  /\ ~has_arrays => live = {}
  /\ Sound => Placed(self, live)

\* Two live allocations have different nodes and share no unit.
LEMMA LiveApart ==
  ASSUME NEW s, NEW blocks, NEW list, Good(s, blocks, list)
  PROVE  /\ \A x \in blocks : /\ x \in [offset : 0..Size, len : 0..Size, node : Nodes]
                              /\ x.offset \in Nat /\ x.len \in Nat /\ x.offset + x.len <= Size
                              /\ x.node \in TilesOf(list)
         /\ \A x, y \in blocks : x.node = y.node => x = y
         /\ \A x \in blocks : \A n \in TilesOf(list) : n # x.node =>
              \/ x.offset + x.len <= OffsetOf(s)[n]
              \/ OffsetOf(s)[n] + SizeOf(s)[n] <= x.offset
         /\ \A x, y \in blocks : x # y => x.offset + x.len <= y.offset \/ y.offset + y.len <= x.offset
  <1> DEFINE T == TilesOf(list)
             off == OffsetOf(s)
             size == SizeOf(s)
             left == LeftOf(s)
             right == RightOf(s)
  <1>1. Tiled(T, off, size, left, right)
    BY DEF Good, Tiling2
  <1> HIDE DEF T, off, size, left, right
  <1>2. /\ \A n \in T : off[n] \in Nat /\ size[n] \in Nat /\ off[n] + size[n] <= Size
        /\ \A m, n \in T : m # n => off[m] + size[m] <= off[n] \/ off[n] + size[n] <= off[m]
    BY <1>1, TileFacts
  <1>3. ASSUME NEW x \in blocks
        PROVE  /\ x = [offset |-> x.offset, len |-> x.len, node |-> x.node]
               /\ x.node \in T /\ x.node \in Nodes
               /\ x.offset = off[x.node] /\ x.len = size[x.node]
               /\ x.offset \in Nat /\ x.len \in Nat /\ x.offset + x.len <= Size
    <2>1. /\ x = [offset |-> x.offset, len |-> x.len, node |-> x.node]
          /\ x.node \in T /\ x.node \in Nodes
          /\ x.offset = off[x.node] /\ x.len = size[x.node]
      BY <1>3 DEF Good, LiveMatch, T, TilesOf, off, size
    <2> QED BY <1>2, <2>1
  <1>4. ASSUME NEW x \in blocks PROVE x \in [offset : 0..Size, len : 0..Size, node : Nodes]
    <2>1. x.offset \in 0..Size /\ x.len \in 0..Size
      BY <1>3, Numbers
    <2> QED BY <1>3, <2>1
  <1>5. ASSUME NEW x \in blocks, NEW y \in blocks, x.node = y.node PROVE x = y
    <2>1. x.offset = y.offset /\ x.len = y.len
      BY <1>3, <1>5
    <2> QED BY <1>3, <1>5, <2>1
  <1>6. ASSUME NEW x \in blocks, NEW n \in T, n # x.node
        PROVE  x.offset + x.len <= off[n] \/ off[n] + size[n] <= x.offset
    BY <1>2, <1>3, <1>6
  <1>7. ASSUME NEW x \in blocks, NEW y \in blocks, x # y
        PROVE  x.offset + x.len <= y.offset \/ y.offset + y.len <= x.offset
    BY <1>3, <1>5, <1>6, <1>7
  <1> QED BY <1>3, <1>4, <1>5, <1>6, <1>7 DEF T, off, size

\* The types of a state.
Types(s) ==
  /\ s.m_freeStorage \in Nat
  /\ \A n \in Nodes : s.m_nodes[n].dataOffset \in 0..Size /\ s.m_nodes[n].dataSize \in 0..Size

LEMMA GoodTypes ==
  ASSUME NEW s, NEW blocks, NEW list, Good(s, blocks, list)
  PROVE  /\ Types(s) /\ Cardinality(Held(blocks)) \in Nat
         /\ \A n \in Nodes : /\ SizeOf(s)[n] \in 0..Size /\ OffsetOf(s)[n] \in 0..Size
                             /\ list[n] \in Bins => SizeOf(s)[n] <= s.m_freeStorage
  <1> DEFINE T == TilesOf(list)
             off == OffsetOf(s)
             size == SizeOf(s)
             left == LeftOf(s)
             right == RightOf(s)
  <1>1. Tiled(T, off, size, left, right)
    BY DEF Good, Tiling2
  <1> HIDE DEF T, off, size, left, right
  <1>2. \A n \in T : off[n] \in Nat /\ size[n] \in Nat /\ off[n] + size[n] <= Size
    BY <1>1, TileFacts
  <1>3. ASSUME NEW n \in Nodes PROVE off[n] \in 0..Size /\ size[n] \in 0..Size
    <2>1. CASE n \in T
      BY <1>2, <2>1, Numbers
    <2>2. CASE n \notin T
      <3>1. list[n] \in {SPARE, UNUSED}
        BY <2>2 DEF T, TilesOf, Good, Lists, Places, Heads
      <3>2. off[n] = 0 /\ size[n] = 0
        BY <3>1 DEF Good, Lists, off, size
      <3> QED BY <3>2, Numbers
    <2> QED BY <2>1, <2>2
  <1>4. \A n \in Nodes : s.m_nodes[n].dataOffset \in 0..Size /\ s.m_nodes[n].dataSize \in 0..Size
    BY <1>3 DEF off, size, OffsetOf, SizeOf
  <1>5. \A n \in T : \A x \in blocks :
          x.node # n => \/ x.offset + x.len <= off[n]
                        \/ off[n] + size[n] <= x.offset
    BY LiveApart DEF T, off, size
  <1>6. \A x \in blocks : x.offset \in Nat /\ x.len \in Nat
    BY LiveApart
  <1>7. Cardinality(Held(blocks)) \in Nat /\ Cardinality(Held(blocks)) <= Size
    <2>1. Held(blocks) \in SUBSET (0..Size-1)
      BY DEF Held
    <2>2. 0 \in Int /\ Size - 1 \in Int /\ Size \in Nat
      BY Numbers
    <2>3. IsFiniteSet(0..Size-1) /\ Cardinality(0..Size-1) = Size
      BY Units
    <2>4. IsFiniteSet(Held(blocks)) /\ Cardinality(Held(blocks)) <= Size
      BY <2>1, <2>3, FS_Subset
    <2> QED BY <2>4, FS_CardinalityType
  <1>8. ASSUME NEW n \in Nodes, list[n] \in Bins PROVE size[n] <= s.m_freeStorage
    <2> DEFINE x == [offset |-> off[n], len |-> size[n], node |-> n]
    <2>1. n \in T
      BY <1>8 DEF T, TilesOf
    <2>2. \A y \in blocks : y.node # n
      BY <1>8, BinOf DEF Good, LiveMatch, Heads
    <2>3. x.offset = off[n] /\ x.len = size[n]
      OBVIOUS
    <2> HIDE DEF x
    <2>4. \A y \in blocks : /\ y.offset \in Nat /\ y.len \in Nat
                            /\ y.offset + y.len <= x.offset \/ x.offset + x.len <= y.offset
      BY <1>5, <1>6, <2>1, <2>2, <2>3
    <2>5. x.offset \in Nat /\ x.len \in Nat /\ x.offset + x.len <= Size
      BY <1>2, <2>1, <2>3
    <2>6. /\ Cardinality(Held(blocks \cup {x})) = Cardinality(Held(blocks)) + x.len
          /\ Cardinality(Held(blocks \cup {x})) <= Size
      BY <2>4, <2>5, HeldAdd
    <2>7. s.m_freeStorage = Size - Cardinality(Held(blocks))
      BY DEF Good
    <2> QED BY <1>2, <1>7, <2>1, <2>3, <2>6, <2>7, Numbers
  <1>9. s.m_freeStorage \in Nat
    BY <1>7, Numbers DEF Good
  <1> QED BY <1>3, <1>4, <1>7, <1>8, <1>9 DEF Types, off, size

-----------------------------------------------------------------------------
(* Setting up                                                              *)

\* No node was used so far.
LEMMA ConstructedIs ==
  ASSUME NEW list, list = [n \in Nodes |-> UNUSED]
  PROVE  /\ Constructed \in State /\ Lists(Constructed, list) /\ Bitmaps(Constructed)
         /\ Types(Constructed) /\ Constructed.m_freeStorage = 0
         /\ Constructed.m_freeListHead = NIL /\ Constructed.m_freeIndex = 0
  <1>1. Constructed \in State
    <2>1. NoNode \in Node /\ NoNeighbor \in Neighbor
      BY Numbers DEF NoNode, Node, NoNeighbor, Neighbor, Link
    <2>2. /\ 0 \in 0..MaxAllocs /\ MaxAllocs - 1 \in 0..MaxAllocs-1 /\ NIL \in Link /\ 0 \in Int
      BY Numbers DEF Link
    <2> QED BY <2>1, <2>2 DEF Constructed, State
  <1>2. list \in [Nodes -> Places] /\ UNUSED \notin Heads /\ UNUSED \in Places
    BY BinOf DEF Places
  <1>3. \A l \in Heads : HeadOf(Constructed)[l] = NIL
    BY DEF HeadOf, Heads, Constructed
  <1>4. Linking(Constructed, list)
    <2> DEFINE rank == [n \in Nodes |-> 0]
    <2>1. rank \in [Nodes -> Int]
      OBVIOUS
    <2>2. Linked(NextOf(Constructed), PrevOf(Constructed), HeadOf(Constructed), list, rank)
      BY <1>2, <1>3 DEF Linked
    <2> QED BY <2>1, <2>2 DEF Linking, Linkable
  <1>5. /\ Constructed.m_nodeUsed = {} /\ Constructed.m_freeIndex = 0
        /\ \A n \in Nodes : OffsetOf(Constructed)[n] = 0 /\ SizeOf(Constructed)[n] = 0
    BY DEF Constructed, OffsetOf, SizeOf, NoNode
  <1>6. \A n \in Nodes : 0 <= n
    BY Numbers
  <1>7. UNUSED # USED /\ UNUSED \notin Bins
    BY <1>2 DEF UNUSED, USED, Heads
  <1>8. Lists(Constructed, list)
    BY <1>2, <1>4, <1>5, <1>6, <1>7 DEF Lists
  <1>9. Bitmaps(Constructed)
    BY DEF Bitmaps, Constructed
  <1>10. Types(Constructed)
    BY Numbers DEF Types, Constructed, NoNode
  <1>11. Constructed.m_freeStorage = 0 /\ Constructed.m_freeListHead = NIL
    BY DEF Constructed
  <1> QED BY <1>1, <1>5, <1>8, <1>9, <1>10, <1>11

LEMMA HeldNone == Cardinality(Held({})) = 0
  <1>1. Held({}) = {}
    BY DEF Held
  <1> QED BY <1>1, FS_EmptySet

\* The whole range is one free node.
LEMMA ResetIsGood ==
  ASSUME NEW s, s = AfterReset
  PROVE  Placed(s, {})
  <1> DEFINE before == [n \in Nodes |-> UNUSED]
             bin    == U32ToF32RoundDown(Size)
             after  == [before EXCEPT ![0] = bin]
  <1>1. /\ Constructed \in State /\ Lists(Constructed, before) /\ Bitmaps(Constructed)
        /\ Constructed.m_freeStorage = 0
        /\ Constructed.m_freeListHead = NIL /\ Constructed.m_freeIndex = 0
    BY ConstructedIs
  <1>2. 0 \in Nodes /\ Size \in 0..Size /\ 0 \in Int /\ 0 < MaxAllocs /\ 0 # NIL
    BY Numbers
  <1>3. SpareNode(Constructed) = 0
    BY <1>1, <1>2 DEF SpareNode
  <1>4. bin \in Bins
    BY <1>2, BinOf
  <1>5. /\ PlacedAt(before, after, 0, bin) /\ after[0] = bin
        /\ \A n \in Nodes \ {0} : after[n] = UNUSED
    BY <1>2, <1>4 DEF PlacedAt, Places, Heads
  <1> DEFINE c == SpareNode(Constructed)
  <1>6. s = insertNodeIntoBin(Constructed, Size, 0)
    BY DEF AfterReset
  <1>7. c = 0 /\ c # NIL /\ PlacedAt(before, after, c, U32ToF32RoundDown(Size))
    BY <1>2, <1>3, <1>5
  <1> HIDE DEF before, after, bin, c
  <1>8. /\ s \in State /\ Lists(s, after) /\ Bitmaps(s)
        /\ s.m_freeStorage = Size /\ OffsetOf(s)[0] = 0 /\ SizeOf(s)[0] = Size
        /\ LeftOf(s)[0] = NIL /\ RightOf(s)[0] = NIL
    <2>1. c = SpareNode(Constructed)
      BY DEF c
    <2>2. Inserted(Constructed, before, Size, 0, c, s, after)
      BY ONLY <1>1, <1>2, <1>6, <1>7, <2>1, InsertLists
    <2> QED BY <1>1, <1>7, <2>2, Numbers DEF Inserted
  <1>9. UNUSED \notin Bins /\ UNUSED # USED /\ UNUSED # LIMBO /\ LIMBO \notin Bins /\ USED \notin Bins
    BY BinOf DEF UNUSED, USED, LIMBO, Heads
  <1>10. TilesOf(after) = {0}
    BY <1>2, <1>4, <1>5, <1>9 DEF TilesOf
  <1>11. Tiling2(s, after)
    <2> DEFINE pos == [n \in Nodes |-> 0]
    <2>1. pos \in [Nodes -> Int] /\ pos[0] = 0
      BY <1>2
    <2>2. Tiles({0}, OffsetOf(s), SizeOf(s), LeftOf(s), RightOf(s), pos)
      <3> HIDE DEF pos
      <3> QED BY <1>2, <1>8, <2>1, Numbers DEF Tiles, TileLinked
    <2> QED BY <1>10, <2>1, <2>2 DEF Tiling2, Tiled
  <1>12. Merged(s, after)
    BY <1>5, <1>8, <1>9 DEF Merged
  <1>13. LiveMatch(s, after, {})
    BY <1>2, <1>4, <1>5, <1>9 DEF LiveMatch
  <1>14. s.m_freeStorage = Size - Cardinality(Held({}))
    BY <1>8, HeldNone, Numbers
  <1>15. \A n \in Nodes : after[n] # LIMBO
    BY <1>4, <1>5, <1>9
  <1>16. after \in [Nodes -> Places]
    BY <1>8 DEF Lists
  <1> QED BY <1>8, <1>11, <1>12, <1>13, <1>14, <1>15, <1>16 DEF Good, Placed

-----------------------------------------------------------------------------
(* Neighbours                                                              *)

WithNeighbors(s, nb) == [s EXCEPT !.m_neighbors = nb]

\* c between n and what is to the right of n, and n between its neighbours.
SplitNeighbors(nb, n, c, right) ==
  [SetLeft(nb, right, c) EXCEPT ![c] = [prev |-> n, next |-> right], ![n].next = c]
JoinedNeighbors(nb, c, left, right) ==
  [SetRight(SetLeft(nb, right, c), left, c) EXCEPT ![c] = [prev |-> left, next |-> right]]

LEMMA SetNeighborsIs ==
  ASSUME NEW nb \in [Nodes -> Neighbor], NEW k \in Link, NEW p \in Link
  PROVE  /\ SetLeft(nb, k, p) \in [Nodes -> Neighbor] /\ SetRight(nb, k, p) \in [Nodes -> Neighbor]
         /\ \A m \in Nodes :
              /\ SetLeft(nb, k, p)[m].next = nb[m].next
              /\ SetLeft(nb, k, p)[m].prev = IF m = k THEN p ELSE nb[m].prev
              /\ SetRight(nb, k, p)[m].prev = nb[m].prev
              /\ SetRight(nb, k, p)[m].next = IF m = k THEN p ELSE nb[m].next
  <1>1. CASE k = NIL
    <2>1. SetLeft(nb, k, p) = nb /\ SetRight(nb, k, p) = nb
      BY <1>1 DEF SetLeft, SetRight
    <2>2. \A m \in Nodes : m # k
      BY <1>1, Numbers
    <2> QED BY <2>1, <2>2
  <1>2. CASE k # NIL
    <2>1. k \in Nodes
      BY <1>2 DEF Link
    <2>2. /\ SetLeft(nb, k, p) = [nb EXCEPT ![k].prev = p]
          /\ SetRight(nb, k, p) = [nb EXCEPT ![k].next = p]
      BY <1>2 DEF SetLeft, SetRight
    <2>3. [nb[k] EXCEPT !.prev = p] \in Neighbor /\ [nb[k] EXCEPT !.next = p] \in Neighbor
      BY <2>1 DEF Neighbor
    <2> QED BY <2>1, <2>2, <2>3 DEF Neighbor
  <1> QED BY <1>1, <1>2

LEMMA FieldTypes ==
  ASSUME NEW s \in State, NEW m \in Nodes
  PROVE  /\ OffsetOf(s)[m] \in Int /\ SizeOf(s)[m] \in Int
         /\ LeftOf(s)[m] \in Link /\ RightOf(s)[m] \in Link
  BY DEF State, Node, Neighbor, OffsetOf, SizeOf, LeftOf, RightOf

\* Other neighbours change nothing else.
LEMMA RelinkIs ==
  ASSUME NEW s \in State, NEW list, Lists(s, list), Bitmaps(s), NEW nb \in [Nodes -> Neighbor],
         NEW t, t = [s EXCEPT !.m_neighbors = nb]
  PROVE  /\ t \in State /\ Lists(t, list) /\ Bitmaps(t)
         /\ t.m_freeStorage = s.m_freeStorage /\ t.m_freeOffset = s.m_freeOffset
         /\ OffsetOf(t) = OffsetOf(s) /\ SizeOf(t) = SizeOf(s)
         /\ \A m \in Nodes : LeftOf(t)[m] = nb[m].prev /\ RightOf(t)[m] = nb[m].next
  <1>1. /\ t \in State /\ t.m_neighbors = nb
        /\ t.m_freeStorage = s.m_freeStorage /\ t.m_freeOffset = s.m_freeOffset
        /\ t.m_nodes = s.m_nodes
        /\ t.m_freeListHead = s.m_freeListHead /\ t.m_binIndices = s.m_binIndices
        /\ t.m_nodeUsed = s.m_nodeUsed /\ t.m_freeIndex = s.m_freeIndex
        /\ t.m_usedBins = s.m_usedBins /\ t.m_usedBinsTop = s.m_usedBinsTop
    BY DEF State
  <1>2. OffsetOf(t) = OffsetOf(s) /\ SizeOf(t) = SizeOf(s)
    BY <1>1 DEF OffsetOf, SizeOf
  <1>3. Lists(t, list) /\ Bitmaps(t)
    BY <1>1, <1>2, SamePlaces
  <1> QED BY <1>1, <1>2, <1>3 DEF LeftOf, RightOf

-----------------------------------------------------------------------------
(* allocate                                                                *)

\* The search finds a free region that is large enough.
LEMMA AllocateFinds ==
  ASSUME NEW s, NEW blocks, NEW list, Good(s, blocks, list), NEW size \in 0..MaxSize,
         NEW bin, bin = FindBin(s, size), bin # NO_SPACE, NEW n, n = s.m_binIndices[bin]
  PROVE  /\ bin \in Bins /\ n \in Nodes /\ n # NIL /\ list[n] = bin
         /\ size <= SizeOf(s)[n] /\ size \in 0..Size
  <1>1. s \in State /\ Bitmaps(s) /\ Lists(s, list)
    BY DEF Good
  <1>2. bin \in s.m_usedBins /\ BinFor(size) <= bin
    BY <1>1, FindBinIs
  <1>3. bin \in Bins /\ n # NIL
    BY <1>1, <1>2 DEF Bitmaps
  <1>4. n = HeadOf(s)[bin] /\ bin \in Heads
    BY <1>3, BinOf DEF HeadOf, Heads
  <1>5. n \in Nodes /\ list[n] = bin
    BY <1>1, <1>3, <1>4, HeadFacts
  <1>6. SizeOf(s)[n] \in 0..Size /\ U32ToF32RoundDown(SizeOf(s)[n]) = bin
    BY <1>1, <1>3, <1>5 DEF Lists
  <1>7. SizeOf(s)[n] \in 0..MaxSize
    BY <1>6, Numbers
  <1>8. U32ToF32RoundUp(size) <= U32ToF32RoundDown(SizeOf(s)[n])
    BY <1>2, <1>6 DEF BinFor
  <1>9. size <= SizeOf(s)[n]
    BY <1>7, <1>8, RoundUpServes
  <1>10. MaxSize \in Nat
    BY MaxSizeIs
  <1>11. size \in 0..Size
    BY <1>6, <1>9, <1>10, Numbers
  <1> QED BY <1>3, <1>5, <1>9, <1>11

Allocated(s, blocks, list, n, size, x, t, list2) ==
  /\ LiveMatch(t, list2, blocks \cup {x})
  /\ Cardinality(Held(blocks \cup {x})) = Cardinality(Held(blocks)) + size
  /\ Cardinality(Held(blocks)) \in Nat
  /\ x.offset \in Nat /\ x.offset + size <= Size
  /\ \A y \in blocks : y.offset + y.len <= x.offset \/ x.offset + size <= y.offset

\* The new allocation is the node's, and shares no unit with another one.
LEMMA AllocatedMatch ==
  ASSUME NEW s, NEW blocks, NEW list, Good(s, blocks, list), NEW n \in Nodes, list[n] \in Bins,
         NEW size \in 0..Size, size <= SizeOf(s)[n],
         NEW x, x = [offset |-> OffsetOf(s)[n], len |-> size, node |-> n],
         NEW t, NEW list2, OffsetOf(t)[n] = OffsetOf(s)[n], SizeOf(t)[n] = size, list2[n] = USED,
         \A m \in Nodes \ {n} : /\ list2[m] = USED <=> list[m] = USED
                                /\ list[m] = USED => /\ OffsetOf(t)[m] = OffsetOf(s)[m]
                                                     /\ SizeOf(t)[m] = SizeOf(s)[m]
  PROVE  Allocated(s, blocks, list, n, size, x, t, list2)
  <1>1. x.offset = OffsetOf(s)[n] /\ x.len = size /\ x.node = n
    OBVIOUS
  <1>2. \A y \in blocks : y.node \in Nodes \ {n} /\ list[y.node] = USED
    BY BinOf DEF Good, LiveMatch, Heads
  <1>3. /\ OffsetOf(s)[n] \in Nat /\ SizeOf(s)[n] \in Nat
        /\ OffsetOf(s)[n] + SizeOf(s)[n] <= Size /\ n \in TilesOf(list)
    <2>1. Tiled(TilesOf(list), OffsetOf(s), SizeOf(s), LeftOf(s), RightOf(s))
      BY DEF Good, Tiling2
    <2>2. n \in TilesOf(list)
      BY DEF TilesOf
    <2> QED BY <2>1, <2>2, TileFacts
  <1>4. \A y \in blocks : /\ y.offset \in Nat /\ y.len \in Nat
                          /\ \/ y.offset + y.len <= OffsetOf(s)[n]
                             \/ OffsetOf(s)[n] + SizeOf(s)[n] <= y.offset
    BY <1>2, <1>3, LiveApart
  <1>5. /\ x.offset \in Nat /\ x.offset + size <= Size /\ size \in Nat
        /\ \A y \in blocks : y.offset + y.len <= x.offset \/ x.offset + size <= y.offset
    BY <1>1, <1>3, <1>4, Numbers
  <1>6. /\ Cardinality(Held(blocks)) \in Nat
        /\ Cardinality(Held(blocks \cup {x})) = Cardinality(Held(blocks)) + size
    <2>1. x.offset \in Nat /\ x.len \in Nat /\ x.offset + x.len <= Size
      BY <1>1, <1>5
    <2>2. \A y \in blocks : /\ y.offset \in Nat /\ y.len \in Nat
                            /\ y.offset + y.len <= x.offset \/ x.offset + x.len <= y.offset
      BY <1>1, <1>4, <1>5
    <2>3. /\ Cardinality(Held(blocks)) \in Nat
          /\ Cardinality(Held(blocks \cup {x})) = Cardinality(Held(blocks)) + x.len
      BY ONLY <2>1, <2>2, HeldAdd
    <2> QED BY <1>1, <2>3
  <1>7. LiveMatch(t, list2, blocks \cup {x})
    <2>1. ASSUME NEW y \in blocks \cup {x}
          PROVE  /\ y = [offset |-> y.offset, len |-> y.len, node |-> y.node]
                 /\ y.node \in Nodes /\ list2[y.node] = USED
                 /\ y.offset = OffsetOf(t)[y.node] /\ y.len = SizeOf(t)[y.node]
      <3>1. CASE y = x
        BY <1>1, <3>1
      <3>2. CASE y \in blocks
        BY <1>2, <3>2 DEF Good, LiveMatch
      <3> QED BY <3>1, <3>2
    <2>2. ASSUME NEW m \in Nodes, list2[m] = USED PROVE \E y \in blocks \cup {x} : y.node = m
      <3>1. CASE m = n
        BY <1>1, <3>1
      <3>2. CASE m # n
        BY <2>2, <3>2 DEF Good, LiveMatch
      <3> QED BY <3>1, <3>2
    <2> QED BY <2>1, <2>2 DEF LiveMatch
  <1> QED BY <1>5, <1>6, <1>7 DEF Allocated

\* The node of the region leaves its bin.
LEMMA AllocatePops ==
  ASSUME NEW s, NEW blocks, NEW list, Good(s, blocks, list), NEW bin \in Bins,
         NEW n, n = s.m_binIndices[bin], n # NIL,
         NEW size \in 0..Size, size <= SizeOf(s)[n],
         NEW t, t = PopNode(s, bin, size), NEW list1, PlacedAt(list, list1, n, USED)
  PROVE  /\ n \in Nodes /\ list[n] = bin
         /\ t \in State /\ Lists(t, list1) /\ Bitmaps(t) /\ Types(t)
         /\ t.m_freeStorage = s.m_freeStorage - SizeOf(s)[n] /\ t.m_freeOffset = s.m_freeOffset
         /\ SizeOf(t)[n] = size /\ OffsetOf(t)[n] = OffsetOf(s)[n]
         /\ LeftOf(t)[n] = LeftOf(s)[n] /\ RightOf(t)[n] = RightOf(s)[n]
         /\ \A m \in Nodes \ {n} : SameTile(s, t, m)
         /\ TilesOf(list1) = TilesOf(list) /\ n \in TilesOf(list)
         /\ \A m \in Nodes : list1[m] # LIMBO
  <1>1. s \in State /\ Lists(s, list) /\ Bitmaps(s) /\ size \in Int
    BY Numbers DEF Good
  <1>2. /\ n \in Nodes /\ list[n] = bin
        /\ t \in State /\ Lists(t, list1) /\ Bitmaps(t)
        /\ t.m_freeStorage = s.m_freeStorage - SizeOf(s)[n] /\ t.m_freeOffset = s.m_freeOffset
        /\ SizeOf(t)[n] = size /\ OffsetOf(t)[n] = OffsetOf(s)[n]
        /\ LeftOf(t)[n] = LeftOf(s)[n] /\ RightOf(t)[n] = RightOf(s)[n]
        /\ \A m \in Nodes \ {n} : SameTile(s, t, m)
    <2>1. /\ bin \in Bins /\ n = s.m_binIndices[bin] /\ n # NIL
          /\ t = PopNode(s, bin, size) /\ PlacedAt(list, list1, n, USED)
      OBVIOUS
    <2>2. Popped(s, list, bin, size, n, t, list1)
      BY ONLY <1>1, <2>1, PopLists
    <2> QED BY <2>2 DEF Popped
  <1>3. /\ s.m_freeStorage \in Nat /\ SizeOf(s)[n] <= s.m_freeStorage
        /\ \A m \in Nodes : SizeOf(s)[m] \in 0..Size /\ OffsetOf(s)[m] \in 0..Size
    BY <1>2, GoodTypes DEF Types
  <1>4. t.m_freeStorage \in Nat
    BY <1>2, <1>3, Numbers
  <1>5. \A m \in Nodes : SizeOf(t)[m] \in 0..Size /\ OffsetOf(t)[m] \in 0..Size
    BY <1>2, <1>3 DEF SameTile
  <1>6. Types(t)
    BY <1>4, <1>5 DEF Types, SizeOf, OffsetOf
  <1>7. TilesOf(list1) = TilesOf(list) /\ n \in TilesOf(list)
    BY <1>2 DEF TilesOf, PlacedAt
  <1>8. \A m \in Nodes : list1[m] # LIMBO
    BY <1>2 DEF Good, PlacedAt, LIMBO, USED
  <1> QED BY <1>2, <1>6, <1>7, <1>8

\* The region is as large as the request.
LEMMA AllocateExact ==
  ASSUME NEW s, NEW blocks, NEW list, Good(s, blocks, list), NEW bin \in Bins,
         NEW n, n = s.m_binIndices[bin], n # NIL,
         NEW size \in 0..Size, size = SizeOf(s)[n],
         NEW t, t = PopNode(s, bin, size),
         NEW x, x = [offset |-> OffsetOf(s)[n], len |-> size, node |-> n]
  PROVE  Placed(t, blocks \cup {x})
  <1> DEFINE list1 == [list EXCEPT ![n] = USED]
  <1>1. n \in Nodes /\ list[n] = bin /\ size <= SizeOf(s)[n]
    <2>1. s \in State /\ Lists(s, list) /\ bin \in Heads /\ n = HeadOf(s)[bin]
      BY BinOf DEF Good, HeadOf, Heads
    <2> QED BY <2>1, HeadFacts, Numbers
  <1>2. PlacedAt(list, list1, n, USED)
    BY <1>1 DEF PlacedAt, Good, Lists, Places
  <1> HIDE DEF list1
  <1>3. /\ t \in State /\ Lists(t, list1) /\ Bitmaps(t)
        /\ t.m_freeStorage = s.m_freeStorage - SizeOf(s)[n]
        /\ SizeOf(t)[n] = size /\ OffsetOf(t)[n] = OffsetOf(s)[n]
        /\ LeftOf(t)[n] = LeftOf(s)[n] /\ RightOf(t)[n] = RightOf(s)[n]
        /\ \A m \in Nodes \ {n} : SameTile(s, t, m)
        /\ TilesOf(list1) = TilesOf(list) /\ n \in TilesOf(list)
        /\ \A m \in Nodes : list1[m] # LIMBO
    BY <1>1, <1>2, AllocatePops
  <1>4. Tiling2(t, list1)
    <2>1. Tiled(TilesOf(list), OffsetOf(s), SizeOf(s), LeftOf(s), RightOf(s))
      BY DEF Good, Tiling2
    <2>2. \A m \in TilesOf(list) :
            /\ OffsetOf(t)[m] = OffsetOf(s)[m] /\ SizeOf(t)[m] = SizeOf(s)[m]
            /\ LeftOf(t)[m] = LeftOf(s)[m] /\ RightOf(t)[m] = RightOf(s)[m]
      BY <1>3 DEF SameTile, TilesOf
    <2>3. Tiled(TilesOf(list), OffsetOf(t), SizeOf(t), LeftOf(t), RightOf(t))
      BY ONLY <2>1, <2>2, SameTiles
    <2> QED BY <1>3, <2>3 DEF Tiling2
  <1>5. /\ list1[n] = USED /\ list1 \in [Nodes -> Places] /\ USED \notin Bins
        /\ \A m \in Nodes \ {n} : list1[m] = list[m]
    BY <1>2, BinOf DEF PlacedAt, Heads
  <1>6. Merged(t, list1)
    <2>1. ASSUME NEW m \in Nodes, list1[m] \in Bins, RightOf(t)[m] # NIL
          PROVE  list1[RightOf(t)[m]] \notin Bins
      <3>1. m # n /\ list[m] \in Bins
        BY <1>5, <2>1
      <3>2. RightOf(t)[m] = RightOf(s)[m] /\ RightOf(s)[m] \in Nodes
        BY <1>3, <2>1, <3>1, FieldTypes DEF Good, SameTile, Link
      <3>3. list[RightOf(s)[m]] \notin Bins
        BY <2>1, <3>1, <3>2 DEF Good, Merged
      <3> QED BY <1>5, <3>2, <3>3
    <2> QED BY <2>1 DEF Merged
  <1>7. /\ LiveMatch(t, list1, blocks \cup {x})
        /\ Cardinality(Held(blocks \cup {x})) = Cardinality(Held(blocks)) + size
        /\ Cardinality(Held(blocks)) \in Nat
    <2>1. \A m \in Nodes \ {n} : /\ list1[m] = USED <=> list[m] = USED
                                 /\ list[m] = USED => /\ OffsetOf(t)[m] = OffsetOf(s)[m]
                                                      /\ SizeOf(t)[m] = SizeOf(s)[m]
      BY <1>3, <1>5 DEF SameTile
    <2>2. /\ Good(s, blocks, list) /\ list[n] \in Bins /\ size \in 0..Size
          /\ x = [offset |-> OffsetOf(s)[n], len |-> size, node |-> n]
      BY <1>1
    <2>3. Allocated(s, blocks, list, n, size, x, t, list1)
      BY ONLY <1>1, <1>3, <1>5, <2>1, <2>2, AllocatedMatch
    <2> QED BY <2>3 DEF Allocated
  <1>8. t.m_freeStorage = Size - Cardinality(Held(blocks \cup {x}))
    BY <1>3, <1>7, Numbers DEF Good
  <1> QED BY <1>3, <1>4, <1>5, <1>6, <1>7, <1>8 DEF Good, Placed

\* The new neighbours of n, c and what was to the right of n.
LinkedIn(nb, n, c, right, linked) ==
  /\ linked \in [Nodes -> Neighbor]
  /\ linked[c].prev = n /\ linked[c].next = right
  /\ linked[n].next = c /\ linked[n].prev = nb[n].prev
  /\ \A m \in Nodes \ {n, c} : /\ linked[m].next = nb[m].next
                               /\ linked[m].prev = IF m = right THEN c ELSE nb[m].prev

LEMMA SplitLinks ==
  ASSUME NEW nb \in [Nodes -> Neighbor], NEW n \in Nodes, NEW c \in Nodes, c # n,
         NEW right \in Link, n # right,
         NEW linked, linked = [SetLeft(nb, right, c) EXCEPT
                                 ![c] = [prev |-> n, next |-> right], ![n].next = c]
  PROVE  LinkedIn(nb, n, c, right, linked)
  <1> DEFINE set  == SetLeft(nb, right, c)
             link == [prev |-> n, next |-> right]
             self2 == [set[n] EXCEPT !.next = c]
  <1>1. c \in Link /\ n \in Link
    BY DEF Link
  <1>2. /\ set \in [Nodes -> Neighbor]
        /\ \A m \in Nodes : /\ set[m].next = nb[m].next
                            /\ set[m].prev = IF m = right THEN c ELSE nb[m].prev
    BY ONLY nb \in [Nodes -> Neighbor], right \in Link, <1>1, SetNeighborsIs
  <1>3. link \in Neighbor /\ link.prev = n /\ link.next = right
    BY <1>1 DEF Neighbor
  <1> HIDE DEF set, link
  <1>4. set[n] \in Neighbor
    BY <1>2
  <1>5. self2 \in Neighbor /\ self2.next = c /\ self2.prev = set[n].prev
    BY <1>1, <1>4 DEF Neighbor
  <1>6. linked = [[set EXCEPT ![c] = link] EXCEPT ![n] = self2]
    BY <1>2, <1>3 DEF set, link
  <1> HIDE DEF self2
  <1>7. /\ linked \in [Nodes -> Neighbor] /\ linked[c] = link /\ linked[n] = self2
        /\ \A m \in Nodes \ {n, c} : linked[m] = set[m]
    BY ONLY n \in Nodes, c \in Nodes, c # n, <1>2, <1>3, <1>5, <1>6
  <1>8. /\ linked[c].prev = n /\ linked[c].next = right /\ linked[n].next = c
    BY ONLY <1>3, <1>5, <1>7
  <1>9. linked[n].prev = nb[n].prev
    BY ONLY n \in Nodes, n # right, <1>2, <1>5, <1>7
  <1>10. \A m \in Nodes \ {n, c} : /\ linked[m].next = nb[m].next
                                  /\ linked[m].prev = IF m = right THEN c ELSE nb[m].prev
    BY ONLY <1>2, <1>7
  <1> QED BY ONLY <1>7, <1>8, <1>9, <1>10 DEF LinkedIn

\* The rest of the region becomes a free node of its own, between the allocation
\* and what is to the right of it.
LEMMA AllocateSplit ==
  ASSUME NEW s, NEW blocks, NEW list, Good(s, blocks, list), NEW bin \in Bins,
         NEW n, n = s.m_binIndices[bin], n # NIL,
         NEW size \in 0..Size, size <= SizeOf(s)[n],
         NEW popped, popped = PopNode(s, bin, size),
         NEW c, c = SpareNode(popped), c # NIL,
         NEW rest, rest = insertNodeIntoBin(popped, SizeOf(s)[n] - size, OffsetOf(s)[n] + size),
         NEW right, right = RightOf(rest)[n],
         NEW linked, linked = SplitNeighbors(rest.m_neighbors, n, c, right),
         NEW t, t = WithNeighbors(rest, linked),
         NEW x, x = [offset |-> OffsetOf(s)[n], len |-> size, node |-> n]
  PROVE  Placed(t, blocks \cup {x})
  <1> DEFINE list1 == [list EXCEPT ![n] = USED]
             left  == SizeOf(s)[n] - size
             start == OffsetOf(s)[n] + size
             list2 == [list1 EXCEPT ![c] = U32ToF32RoundDown(left)]
             T     == TilesOf(list)
  <1>a. /\ Good(s, blocks, list) /\ bin \in Bins /\ n = s.m_binIndices[bin] /\ n # NIL
        /\ size \in 0..Size /\ size <= SizeOf(s)[n]
    OBVIOUS
  <1>b. popped = PopNode(s, bin, size)
    OBVIOUS
  <1>c. c = SpareNode(popped) /\ c # NIL
    OBVIOUS
  <1>d. rest = insertNodeIntoBin(popped, left, start)
    OBVIOUS
  <1>e. right = RightOf(rest)[n]
    OBVIOUS
  <1>f. linked = [SetLeft(rest.m_neighbors, right, c) EXCEPT
                    ![c] = [prev |-> n, next |-> right], ![n].next = c]
    BY DEF SplitNeighbors
  <1>g. t = [rest EXCEPT !.m_neighbors = linked]
    BY DEF WithNeighbors
  <1>h. x = [offset |-> OffsetOf(s)[n], len |-> size, node |-> n]
    OBVIOUS
  <1>1. n \in Nodes /\ list[n] = bin /\ list[n] \in Bins
    <2>1. s \in State /\ Lists(s, list) /\ bin \in Heads /\ n = HeadOf(s)[bin]
      BY ONLY <1>a, BinOf DEF Good, HeadOf, Heads
    <2> QED BY ONLY <1>a, <2>1, HeadFacts
  <1>2. PlacedAt(list, list1, n, USED)
    BY ONLY <1>a, <1>1 DEF PlacedAt, Good, Lists, Places, list1
  <1> HIDE DEF list1, T, left, start, list2
  <1>3. /\ popped \in State /\ Lists(popped, list1) /\ Bitmaps(popped)
        /\ popped.m_freeStorage = s.m_freeStorage - SizeOf(s)[n]
        /\ SizeOf(popped)[n] = size /\ OffsetOf(popped)[n] = OffsetOf(s)[n]
        /\ LeftOf(popped)[n] = LeftOf(s)[n] /\ RightOf(popped)[n] = RightOf(s)[n]
        /\ \A m \in Nodes \ {n} : SameTile(s, popped, m)
        /\ TilesOf(list1) = T /\ n \in T
        /\ \A m \in Nodes : list1[m] # LIMBO
    <2>1. TilesOf(list1) = TilesOf(list) /\ n \in TilesOf(list) => TilesOf(list1) = T /\ n \in T
      BY ONLY DEF T
    <2> QED BY ONLY <1>a, <1>b, <1>1, <1>2, <2>1, AllocatePops
  <1>4. /\ left \in 0..Size /\ start \in Int /\ SizeOf(s)[n] \in 0..Size /\ OffsetOf(s)[n] \in 0..Size
        /\ s.m_freeStorage \in Nat
    BY ONLY <1>a, <1>1, GoodTypes, Numbers DEF Types, left, start
  <1>5. c \in Nodes
    <2>1. SpareNode(popped) # NIL => SpareNode(popped) \in Nodes
      BY ONLY <1>3, Numbers DEF SpareNode, State, Link
    <2> QED BY ONLY <1>c, <2>1
  <1>6. U32ToF32RoundDown(left) \in Bins /\ Bins \subseteq Places
    BY ONLY <1>4, BinOf DEF Places, Heads
  <1>7. /\ PlacedAt(list1, list2, c, U32ToF32RoundDown(left))
        /\ list2 \in [Nodes -> Places] /\ list2[c] \in Bins
    BY ONLY <1>2, <1>5, <1>6 DEF PlacedAt, list2
  <1>9. Inserted(popped, list1, left, start, c, rest, list2)
    BY ONLY <1>c, <1>d, <1>3, <1>4, <1>7, InsertLists
  <1>10. /\ list1[c] \in {SPARE, UNUSED}
         /\ rest \in State /\ Lists(rest, list2) /\ Bitmaps(rest)
         /\ rest.m_freeStorage = popped.m_freeStorage + left
         /\ OffsetOf(rest)[c] = start /\ SizeOf(rest)[c] = left
         /\ \A m \in Nodes \ {c} : SameTile(popped, rest, m)
    BY ONLY <1>9 DEF Inserted
  <1>11. list1[n] = USED /\ \A m \in Nodes \ {n} : list1[m] = list[m]
    BY ONLY <1>2 DEF PlacedAt
  <1>12. \A m \in Nodes \ {c} : list2[m] = list1[m]
    BY ONLY <1>7 DEF PlacedAt
  <1>13. c # n /\ list[c] \in {SPARE, UNUSED} /\ c \notin T
    <2>1. USED \notin {SPARE, UNUSED} /\ SPARE \notin Bins /\ UNUSED \notin Bins
      BY ONLY BinOf DEF USED, SPARE, UNUSED, Heads
    <2> QED BY ONLY <1>1, <1>5, <1>10, <1>11, <2>1 DEF T, TilesOf
  <1>14. right = RightOf(s)[n] /\ right \in Link
    <2>1. right = RightOf(s)[n]
      BY ONLY <1>e, <1>1, <1>3, <1>10, <1>13 DEF SameTile
    <2>2. s \in State
      BY ONLY <1>a DEF Good
    <2> QED BY ONLY <1>1, <2>1, <2>2, FieldTypes
  <1>15. Tiled(T, OffsetOf(s), SizeOf(s), LeftOf(s), RightOf(s))
    BY ONLY <1>a DEF Good, Tiling2, T
  <1>16. /\ right # NIL => right \in T /\ right # n /\ right # c
         /\ T \subseteq Nodes
         /\ \A m \in T : RightOf(s)[m] # NIL => RightOf(s)[m] \in T
    <2>1. /\ \A m \in T : RightOf(s)[m] # NIL => RightOf(s)[m] \in T /\ RightOf(s)[m] # m
          /\ T \subseteq Nodes
      BY ONLY <1>15, TileFacts
    <2> QED BY ONLY <1>3, <1>13, <1>14, <2>1
  <1>17. /\ linked \in [Nodes -> Neighbor]
         /\ linked[c].prev = n /\ linked[c].next = right
         /\ linked[n].next = c
         /\ linked[n].prev = LeftOf(s)[n]
         /\ \A m \in Nodes \ {n, c} : /\ linked[m].next = RightOf(s)[m]
                                      /\ linked[m].prev = IF m = right THEN c ELSE LeftOf(s)[m]
    <2>1. rest.m_neighbors \in [Nodes -> Neighbor]
      BY ONLY <1>10 DEF State
    <2>2. n # right /\ (right # NIL => right # c)
      BY ONLY <1>1, <1>16, Numbers
    <2>3. LinkedIn(rest.m_neighbors, n, c, right, linked)
      BY ONLY <1>f, <1>1, <1>5, <1>13, <1>14, <2>1, <2>2, SplitLinks
    <2>4. \A m \in Nodes \ {c} : /\ rest.m_neighbors[m].next = RightOf(s)[m]
                                 /\ rest.m_neighbors[m].prev = LeftOf(s)[m]
      <3>1. \A m \in Nodes : /\ rest.m_neighbors[m].next = RightOf(rest)[m]
                             /\ rest.m_neighbors[m].prev = LeftOf(rest)[m]
        BY ONLY DEF LeftOf, RightOf
      <3> QED BY ONLY <1>3, <1>10, <3>1 DEF SameTile
    <2> QED BY ONLY <1>1, <1>13, <2>3, <2>4 DEF LinkedIn
  <1>18. /\ t \in State /\ Lists(t, list2) /\ Bitmaps(t)
         /\ t.m_freeStorage = rest.m_freeStorage
         /\ OffsetOf(t) = OffsetOf(rest) /\ SizeOf(t) = SizeOf(rest)
         /\ \A m \in Nodes : LeftOf(t)[m] = linked[m].prev /\ RightOf(t)[m] = linked[m].next
    BY ONLY <1>g, <1>10, <1>17, RelinkIs
  <1>19. /\ OffsetOf(t)[n] = OffsetOf(s)[n] /\ SizeOf(t)[n] = size
         /\ LeftOf(t)[n] = LeftOf(s)[n] /\ RightOf(t)[n] = c
         /\ OffsetOf(t)[c] = start /\ SizeOf(t)[c] = left
         /\ LeftOf(t)[c] = n /\ RightOf(t)[c] = right
    BY ONLY <1>1, <1>3, <1>5, <1>10, <1>13, <1>17, <1>18 DEF SameTile
  <1>20. \A m \in Nodes \ {n, c} :
           /\ OffsetOf(t)[m] = OffsetOf(s)[m] /\ SizeOf(t)[m] = SizeOf(s)[m]
           /\ RightOf(t)[m] = RightOf(s)[m]
           /\ LeftOf(t)[m] = IF m = right THEN c ELSE LeftOf(s)[m]
    BY ONLY <1>3, <1>10, <1>17, <1>18 DEF SameTile
  <1>21. Tiling2(t, list2)
    <2>1. TilesOf(list2) = T \cup {c}
      BY ONLY <1>3, <1>5, <1>7, <1>12, <1>13 DEF TilesOf
    <2>2. size \in 0..SizeOf(s)[n]
      BY ONLY <1>a, <1>4, Numbers
    <2>3. /\ RightOf(t)[c] = RightOf(s)[n] /\ OffsetOf(t)[c] = OffsetOf(s)[n] + size
          /\ SizeOf(t)[c] = SizeOf(s)[n] - size
      BY ONLY <1>14, <1>19 DEF start, left
    <2>4. \A m \in T \ {n} :
            /\ OffsetOf(t)[m] = OffsetOf(s)[m] /\ SizeOf(t)[m] = SizeOf(s)[m]
            /\ RightOf(t)[m] = RightOf(s)[m]
            /\ LeftOf(t)[m] = IF m = RightOf(s)[n] THEN c ELSE LeftOf(s)[m]
      BY ONLY <1>13, <1>14, <1>16, <1>20
    <2>5. Tiled(T \cup {c}, OffsetOf(t), SizeOf(t), LeftOf(t), RightOf(t))
      BY ONLY <1>3, <1>5, <1>13, <1>15, <1>19, <2>2, <2>3, <2>4, SplitTiles
    <2> QED BY ONLY <2>1, <2>5 DEF Tiling2
  <1>22. Merged(t, list2)
    <2>1. ASSUME NEW m \in Nodes, list2[m] \in Bins, RightOf(t)[m] # NIL
          PROVE  list2[RightOf(t)[m]] \notin Bins
      <3>1. USED \notin Bins
        BY ONLY BinOf DEF Heads
      <3>2. CASE m = c
        <4>1. RightOf(t)[m] = right /\ right = RightOf(s)[n] /\ right # NIL
          BY ONLY <1>14, <1>19, <2>1, <3>2
        <4>2. right \in Nodes \ {n, c} /\ list[right] \notin Bins
          BY ONLY <1>a, <1>1, <1>16, <4>1 DEF Good, Merged
        <4> QED BY ONLY <1>11, <1>12, <4>1, <4>2
      <3>3. CASE m # c
        <4>1. m # n /\ list[m] \in Bins /\ list[m] = list2[m]
          BY ONLY <1>11, <1>12, <1>13, <2>1, <3>1, <3>3
        <4>2. RightOf(t)[m] = RightOf(s)[m] /\ m \in T
          BY ONLY <1>20, <3>3, <4>1 DEF T, TilesOf
        <4>3. RightOf(s)[m] \in Nodes /\ RightOf(s)[m] # c /\ list[RightOf(s)[m]] \notin Bins
          BY ONLY <1>a, <1>13, <1>16, <2>1, <4>1, <4>2 DEF Good, Merged
        <4> QED BY ONLY <1>11, <1>12, <3>1, <4>2, <4>3
      <3> QED BY <3>2, <3>3
    <2> QED BY ONLY <2>1 DEF Merged
  <1>23. Allocated(s, blocks, list, n, size, x, t, list2)
    <2>1. list2[n] = USED /\ USED \notin Bins /\ USED \notin {SPARE, UNUSED}
      BY ONLY <1>1, <1>11, <1>12, <1>13, BinOf DEF Heads, USED, SPARE, UNUSED
    <2>2. \A m \in Nodes \ {n} : /\ list2[m] = USED <=> list[m] = USED
                                 /\ list[m] = USED => /\ OffsetOf(t)[m] = OffsetOf(s)[m]
                                                      /\ SizeOf(t)[m] = SizeOf(s)[m]
      BY ONLY <1>7, <1>11, <1>12, <1>13, <1>20, <2>1
    <2> QED BY ONLY <1>a, <1>h, <1>1, <1>19, <2>1, <2>2, AllocatedMatch
  <1>24. t.m_freeStorage = Size - Cardinality(Held(blocks \cup {x}))
    <2>1. s.m_freeStorage = Size - Cardinality(Held(blocks))
      BY ONLY <1>a DEF Good
    <2>2. t.m_freeStorage = s.m_freeStorage - SizeOf(s)[n] + (SizeOf(s)[n] - size)
      BY ONLY <1>3, <1>10, <1>18 DEF left
    <2>3. /\ Cardinality(Held(blocks \cup {x})) = Cardinality(Held(blocks)) + size
          /\ Cardinality(Held(blocks)) \in Nat
      BY ONLY <1>23 DEF Allocated
    <2>4. size \in Int /\ SizeOf(s)[n] \in Int /\ Size \in Int
      BY ONLY <1>a, <1>4, Numbers
    <2> QED BY ONLY <2>1, <2>2, <2>3, <2>4
  <1>25. \A m \in Nodes : list2[m] # LIMBO
    BY ONLY <1>3, <1>7, <1>12, BinOf DEF Heads
  <1> QED BY ONLY <1>7, <1>18, <1>21, <1>22, <1>23, <1>24, <1>25 DEF Good, Allocated, Placed

\* Without a node left the bitmaps name a bin that is empty, and nothing else changes.
LEMMA AllocateCrash ==
  ASSUME NEW s, NEW blocks, NEW list, Good(s, blocks, list), NEW bin \in Bins,
         NEW n, n = s.m_binIndices[bin], n # NIL,
         NEW size \in 0..Size, size <= SizeOf(s)[n],
         NEW popped, popped = PopNode(s, bin, size), SpareNode(popped) = NIL,
         NEW rest, rest = insertNodeIntoBin(popped, SizeOf(s)[n] - size, OffsetOf(s)[n] + size)
  PROVE  rest \in State /\ Types(rest)
  <1> DEFINE list1 == [list EXCEPT ![n] = USED]
             left  == SizeOf(s)[n] - size
             b     == U32ToF32RoundDown(left)
  <1>1. n \in Nodes /\ list[n] = bin
    <2>1. s \in State /\ Lists(s, list) /\ bin \in Heads /\ n = HeadOf(s)[bin]
      BY BinOf DEF Good, HeadOf, Heads
    <2> QED BY <2>1, HeadFacts
  <1>2. PlacedAt(list, list1, n, USED)
    BY <1>1 DEF PlacedAt, Good, Lists, Places
  <1> HIDE DEF list1
  <1>3. popped \in State /\ Types(popped)
    BY <1>1, <1>2, AllocatePops
  <1>4. left \in 0..Size
    BY <1>1, GoodTypes, Numbers
  <1>5. b \in Bins
    BY <1>4, BinOf
  <1>6. rest \in {popped, MarkBin(popped, b)}
    BY DEF insertNodeIntoBin
  <1> HIDE DEF b
  <1>7. MarkBin(popped, b) \in State /\ Types(MarkBin(popped, b))
    <2>1. /\ popped.m_usedBins \cup {b} \in SUBSET Bins
          /\ popped.m_usedBinsTop \cup {TopOf(b)} \in SUBSET Tops
      BY <1>3, <1>5 DEF State, Tops
    <2>2. MarkBin(popped, b) \in State
      BY ONLY <1>3, <2>1 DEF MarkBin, State
    <2>3. /\ MarkBin(popped, b).m_nodes = popped.m_nodes
          /\ MarkBin(popped, b).m_freeStorage = popped.m_freeStorage
      BY <1>3 DEF MarkBin, State
    <2> QED BY <1>3, <2>2, <2>3 DEF Types
  <1> QED BY <1>3, <1>6, <1>7

-----------------------------------------------------------------------------
(* free                                                                    *)

\* The neighbours as they are once those of n know that it is theirs.
LeftFrom(s, n)  == [m \in Nodes |-> IF m = RightOf(s)[n] THEN n ELSE LeftOf(s)[m]]
RightFrom(s, n) == [m \in Nodes |-> IF m = LeftOf(s)[n] THEN n ELSE RightOf(s)[m]]

\* While n takes in its neighbours: the range is tiled, no two free regions but for
\* those of n are neighbours, and what n gains the free storage loses.  s0 is the
\* state in which n is freed.
Merging(s0, list0, n, s, list) ==
  /\ s \in State /\ Lists(s, list) /\ Bitmaps(s)
  /\ list[n] = USED /\ \A m \in Nodes : list[m] # LIMBO
  /\ Tiled(TilesOf(list), OffsetOf(s), SizeOf(s), LeftFrom(s, n), RightFrom(s, n))
  /\ \A m \in Nodes : list[m] \in Bins /\ RightFrom(s, n)[m] # NIL => list[RightFrom(s, n)[m]] \notin Bins
  /\ s.m_freeStorage + SizeOf(s)[n] = s0.m_freeStorage + SizeOf(s0)[n]
  /\ \A m \in Nodes : list[m] = USED <=> list0[m] = USED
  /\ \A m \in Nodes \ {n} : list0[m] = USED => /\ OffsetOf(s)[m] = OffsetOf(s0)[m]
                                               /\ SizeOf(s)[m] = SizeOf(s0)[m]

\* The neighbour is not free, if there is one.
LeftDone(s, list, n)  == LeftOf(s)[n] # NIL => list[LeftOf(s)[n]] \notin Bins
RightDone(s, list, n) == RightOf(s)[n] # NIL => list[RightOf(s)[n]] \notin Bins

\* The region of a node that is in no list and its neighbours.
Widened(u, list, n, node, nb, t) ==
  /\ t \in State /\ Lists(t, list) /\ Bitmaps(t)
  /\ t.m_freeStorage = u.m_freeStorage
  /\ OffsetOf(t)[n] = node.dataOffset /\ SizeOf(t)[n] = node.dataSize
  /\ LeftOf(t)[n] = nb.prev /\ RightOf(t)[n] = nb.next
  /\ \A m \in Nodes \ {n} : SameTile(u, t, m)

LEMMA WidenIs ==
  ASSUME NEW u \in State, NEW list, Lists(u, list), Bitmaps(u), NEW n \in Nodes, list[n] = USED,
         NEW node \in Node, NEW nb \in Neighbor,
         node.binListNext = u.m_nodes[n].binListNext, node.binListPrev = u.m_nodes[n].binListPrev,
         NEW t, t = [u EXCEPT !.m_nodes[n] = node, !.m_neighbors[n] = nb]
  PROVE  Widened(u, list, n, node, nb, t)
  <1> DEFINE nodes == [u.m_nodes EXCEPT ![n] = node]
             nbs   == [u.m_neighbors EXCEPT ![n] = nb]
  <1>1. /\ nodes \in [Nodes -> Node] /\ nodes[n] = node
        /\ \A m \in Nodes \ {n} : nodes[m] = u.m_nodes[m]
    BY DEF State
  <1>2. /\ nbs \in [Nodes -> Neighbor] /\ nbs[n] = nb
        /\ \A m \in Nodes \ {n} : nbs[m] = u.m_neighbors[m]
    BY DEF State
  <1>3. t = [u EXCEPT !.m_nodes = nodes, !.m_neighbors = nbs]
    OBVIOUS
  <1> HIDE DEF nodes, nbs
  <1>4. u \in State
    OBVIOUS
  <1>5. /\ t \in State /\ t.m_nodes = nodes /\ t.m_neighbors = nbs
        /\ t.m_freeListHead = u.m_freeListHead /\ t.m_binIndices = u.m_binIndices
        /\ t.m_nodeUsed = u.m_nodeUsed /\ t.m_freeIndex = u.m_freeIndex
        /\ t.m_usedBins = u.m_usedBins /\ t.m_usedBinsTop = u.m_usedBinsTop
        /\ t.m_freeStorage = u.m_freeStorage
    BY ONLY <1>1, <1>2, <1>3, <1>4 DEF State
  <1>6. /\ OffsetOf(t)[n] = node.dataOffset /\ SizeOf(t)[n] = node.dataSize
        /\ LeftOf(t)[n] = nb.prev /\ RightOf(t)[n] = nb.next
        /\ \A m \in Nodes \ {n} : SameTile(u, t, m)
    BY ONLY n \in Nodes, <1>1, <1>2, <1>5 DEF SameTile, OffsetOf, SizeOf, LeftOf, RightOf
  <1>7. Lists(u, list) /\ Bitmaps(u) /\ node.binListNext = u.m_nodes[n].binListNext
        /\ node.binListPrev = u.m_nodes[n].binListPrev /\ list[n] = USED
    OBVIOUS
  <1>8. \A m \in Nodes :
          /\ t.m_nodes[m].binListNext = u.m_nodes[m].binListNext
          /\ t.m_nodes[m].binListPrev = u.m_nodes[m].binListPrev
          /\ list[m] # USED => /\ OffsetOf(t)[m] = OffsetOf(u)[m]
                               /\ SizeOf(t)[m] = SizeOf(u)[m]
    BY ONLY <1>1, <1>5, <1>6, <1>7 DEF SameTile
  <1>9. Lists(t, list) /\ Bitmaps(t)
    BY ONLY <1>4, <1>5, <1>7, <1>8, SamePlaces
  <1> QED BY <1>5, <1>6, <1>9 DEF Widened

\* Before anything is merged.
LEMMA MergeStart ==
  ASSUME NEW s, NEW blocks, NEW list, Good(s, blocks, list), NEW n \in Nodes, list[n] = USED
  PROVE  Merging(s, list, n, s, list)
  <1> DEFINE T == TilesOf(list)
  <1>1. n \in T /\ T \subseteq Nodes
    BY DEF TilesOf
  <1>2. Tiled(T, OffsetOf(s), SizeOf(s), LeftOf(s), RightOf(s))
    BY DEF Good, Tiling2
  <1> HIDE DEF T
  <1>3. /\ RightOf(s)[n] # NIL => RightOf(s)[n] \in T /\ LeftOf(s)[RightOf(s)[n]] = n
        /\ LeftOf(s)[n] # NIL => LeftOf(s)[n] \in T /\ RightOf(s)[LeftOf(s)[n]] = n
    BY ONLY <1>1, <1>2, TileFacts
  <1>4. \A m \in Nodes : LeftFrom(s, n)[m] = LeftOf(s)[m] /\ RightFrom(s, n)[m] = RightOf(s)[m]
    BY ONLY <1>1, <1>3, Numbers DEF LeftFrom, RightFrom
  <1>5. \A m \in T : /\ OffsetOf(s)[m] = OffsetOf(s)[m] /\ SizeOf(s)[m] = SizeOf(s)[m]
                     /\ LeftFrom(s, n)[m] = LeftOf(s)[m] /\ RightFrom(s, n)[m] = RightOf(s)[m]
    BY <1>1, <1>4
  <1>6. Tiled(T, OffsetOf(s), SizeOf(s), LeftFrom(s, n), RightFrom(s, n))
    BY ONLY <1>2, <1>5, SameTiles
  <1> QED BY <1>4, <1>6 DEF Merging, Good, Merged, T

\* What n and its neighbours are to each other.
LEMMA MergingFacts ==
  ASSUME NEW s0, NEW list0, NEW n \in Nodes, NEW s, NEW list, Merging(s0, list0, n, s, list)
  PROVE  /\ n \in TilesOf(list) /\ TilesOf(list) \subseteq Nodes
         /\ LeftFrom(s, n)[n] = LeftOf(s)[n] /\ RightFrom(s, n)[n] = RightOf(s)[n]
         /\ OffsetOf(s)[n] \in Nat /\ SizeOf(s)[n] \in Nat
         /\ OffsetOf(s)[n] + SizeOf(s)[n] <= Size
         /\ LeftOf(s)[n] # n /\ RightOf(s)[n] # n
         /\ LeftOf(s)[n] # NIL => LeftOf(s)[n] \in TilesOf(list) /\ LeftOf(s)[n] # RightOf(s)[n]
         /\ RightOf(s)[n] # NIL => RightOf(s)[n] \in TilesOf(list)
  <1> DEFINE T == TilesOf(list)
  <1>1. n \in T /\ T \subseteq Nodes
    BY DEF TilesOf, Merging
  <1>2. Tiled(T, OffsetOf(s), SizeOf(s), LeftFrom(s, n), RightFrom(s, n))
    BY DEF Merging
  <1> HIDE DEF T
  <1>3. /\ OffsetOf(s)[n] \in Nat /\ SizeOf(s)[n] \in Nat /\ OffsetOf(s)[n] + SizeOf(s)[n] <= Size
        /\ RightFrom(s, n)[n] # NIL => RightFrom(s, n)[n] \in T /\ RightFrom(s, n)[n] # n
        /\ LeftFrom(s, n)[n] # NIL => LeftFrom(s, n)[n] \in T /\ LeftFrom(s, n)[n] # n
        /\ LeftFrom(s, n)[n] # NIL => LeftFrom(s, n)[n] # RightFrom(s, n)[n]
    BY ONLY <1>1, <1>2, TileFacts
  <1>4. LeftOf(s)[n] # n /\ RightOf(s)[n] # n
    BY <1>3, Numbers DEF LeftFrom, RightFrom
  <1>5. LeftFrom(s, n)[n] = LeftOf(s)[n] /\ RightFrom(s, n)[n] = RightOf(s)[n]
    BY <1>4 DEF LeftFrom, RightFrom
  <1> QED BY <1>1, <1>3, <1>4, <1>5 DEF T

\* n takes in the free region to its left.
LEMMA TakeLeft ==
  ASSUME NEW s0, NEW list0, NEW n \in Nodes, NEW s, NEW list, Merging(s0, list0, n, s, list),
         NEW l, l = LeftOf(s)[n], l # NIL, list[l] \in Bins,
         NEW u, NEW list1, PlacedAt(list, list1, l, SPARE), Removed(s, list, l, u, list1),
         NEW t, NEW node, NEW nb, Widened(u, list1, n, node, nb, t),
         node.dataOffset = OffsetOf(s)[l], node.dataSize = SizeOf(s)[l] + SizeOf(s)[n],
         nb.prev = LeftOf(s)[l], nb.next = RightOf(s)[n]
  PROVE  Merging(s0, list0, n, t, list1) /\ LeftDone(t, list1, n)
  <1> DEFINE T == TilesOf(list)
  <1>1. /\ n \in T /\ T \subseteq Nodes /\ l \in T /\ l # n /\ l # RightOf(s)[n]
        /\ LeftFrom(s, n)[n] = l /\ RightFrom(s, n)[n] = RightOf(s)[n]
        /\ LeftOf(s)[n] # n /\ RightOf(s)[n] # n
    BY MergingFacts
  <1>2. /\ OffsetOf(t)[n] = OffsetOf(s)[l] /\ SizeOf(t)[n] = SizeOf(s)[l] + SizeOf(s)[n]
        /\ LeftOf(t)[n] = LeftOf(s)[l] /\ RightOf(t)[n] = RightOf(s)[n]
        /\ \A m \in Nodes \ {n, l} : SameTile(s, t, m)
        /\ t \in State /\ Lists(t, list1) /\ Bitmaps(t)
        /\ t.m_freeStorage = s.m_freeStorage - SizeOf(s)[l]
    BY <1>1 DEF Widened, Removed, SameTile
  <1>3. Tiled(T, OffsetOf(s), SizeOf(s), LeftFrom(s, n), RightFrom(s, n))
    BY DEF Merging
  <1>4. /\ list1[l] = SPARE /\ SPARE \notin Bins /\ SPARE # USED /\ SPARE # LIMBO /\ USED \notin Bins
        /\ \A m \in Nodes \ {l} : list1[m] = list[m]
        /\ list[n] = USED /\ list[l] \in Bins /\ list1 \in [Nodes -> Places]
    BY BinOf DEF PlacedAt, Merging, SPARE, USED, LIMBO, Heads
  <1>5. TilesOf(list1) = T \ {l}
    BY ONLY <1>1, <1>4 DEF TilesOf, T
  <1>6. \A m \in Nodes : list[m] \in Bins /\ RightFrom(s, n)[m] # NIL => list[RightFrom(s, n)[m]] \notin Bins
    BY DEF Merging
  <1>7. /\ OffsetOf(s)[l] \in Nat /\ SizeOf(s)[l] \in Nat /\ SizeOf(s)[n] \in Nat
        /\ s.m_freeStorage \in Int
    BY <1>1, <1>3, TileFacts DEF Merging, State
  <1> HIDE DEF T
  <1>8. /\ LeftOf(s)[l] # NIL => LeftOf(s)[l] \in T /\ LeftOf(s)[l] # l /\ RightFrom(s, n)[LeftOf(s)[l]] = l
        /\ LeftFrom(s, n)[l] = LeftOf(s)[l]
        /\ LeftOf(s)[l] # n
    <2>1. LeftFrom(s, n)[l] = LeftOf(s)[l]
      BY ONLY <1>1 DEF LeftFrom
    <2>2. LeftFrom(s, n)[l] # NIL => /\ LeftFrom(s, n)[l] \in T /\ LeftFrom(s, n)[l] # l
                                     /\ RightFrom(s, n)[LeftFrom(s, n)[l]] = l
      BY ONLY <1>1, <1>3, TileFacts
    <2> QED BY ONLY <1>1, <2>1, <2>2, Numbers
  <1>9. /\ LeftFrom(t, n)[n] = LeftFrom(s, n)[l] /\ RightFrom(t, n)[n] = RightFrom(s, n)[n]
        /\ \A m \in T \ {n, l} :
             /\ OffsetOf(t)[m] = OffsetOf(s)[m] /\ SizeOf(t)[m] = SizeOf(s)[m]
             /\ LeftFrom(t, n)[m] = LeftFrom(s, n)[m]
             /\ RightFrom(t, n)[m] = IF m = LeftFrom(s, n)[l] THEN n ELSE RightFrom(s, n)[m]
    <2>1. LeftFrom(t, n)[n] = LeftOf(t)[n] /\ RightFrom(t, n)[n] = RightOf(t)[n]
      BY ONLY <1>1, <1>2, <1>8 DEF LeftFrom, RightFrom
    <2>2. ASSUME NEW m \in T \ {n, l}
          PROVE  /\ OffsetOf(t)[m] = OffsetOf(s)[m] /\ SizeOf(t)[m] = SizeOf(s)[m]
                 /\ LeftFrom(t, n)[m] = LeftFrom(s, n)[m]
                 /\ RightFrom(t, n)[m] = IF m = LeftFrom(s, n)[l] THEN n ELSE RightFrom(s, n)[m]
      <3>1. m \in Nodes \ {n, l} /\ SameTile(s, t, m)
        BY ONLY <1>1, <1>2, <2>2
      <3>2. l = LeftOf(s)[n]
        OBVIOUS
      <3> QED BY ONLY <1>2, <1>8, <3>1, <3>2 DEF SameTile, LeftFrom, RightFrom
    <2> QED BY ONLY <1>1, <1>2, <1>8, <2>1, <2>2
  <1>10. Tiled(T \ {l}, OffsetOf(t), SizeOf(t), LeftFrom(t, n), RightFrom(t, n))
    <2>1. l = LeftFrom(s, n)[n] /\ l # NIL
      BY <1>1
    <2> QED BY ONLY <1>1, <1>2, <1>3, <1>9, <2>1, JoinLeft
  <1>11. ASSUME NEW m \in Nodes, list1[m] \in Bins, RightFrom(t, n)[m] # NIL
         PROVE  list1[RightFrom(t, n)[m]] \notin Bins
    <2>1. m \in T \ {n, l} /\ list[m] \in Bins
      BY ONLY <1>1, <1>4, <1>11 DEF T, TilesOf
    <2>2. CASE m = LeftFrom(s, n)[l]
      BY ONLY <1>1, <1>4, <1>9, <2>1, <2>2
    <2>3. CASE m # LeftFrom(s, n)[l]
      <3>1. RightFrom(t, n)[m] = RightFrom(s, n)[m]
        BY ONLY <1>9, <2>1, <2>3
      <3>2. RightFrom(s, n)[m] \in T
        BY ONLY <1>3, <1>11, <2>1, <3>1, TileFacts
      <3>3. list[RightFrom(s, n)[m]] \notin Bins /\ RightFrom(s, n)[m] # l
        BY ONLY <1>4, <1>6, <1>11, <2>1, <3>1
      <3> QED BY ONLY <1>1, <1>4, <3>1, <3>2, <3>3
    <2> QED BY <2>2, <2>3
  <1>12. LeftDone(t, list1, n)
    <2>1. ASSUME LeftOf(s)[l] # NIL PROVE list1[LeftOf(s)[l]] \notin Bins
      BY ONLY <1>1, <1>4, <1>6, <1>8, <2>1, Numbers
    <2> QED BY <1>2, <2>1 DEF LeftDone
  <1>13. t.m_freeStorage + SizeOf(t)[n] = s0.m_freeStorage + SizeOf(s0)[n]
    <2>1. s.m_freeStorage + SizeOf(s)[n] = s0.m_freeStorage + SizeOf(s0)[n]
      BY DEF Merging
    <2> QED BY ONLY <1>2, <1>7, <2>1
  <1>14. \A m \in Nodes : list1[m] = USED <=> list0[m] = USED
    <2>1. \A m \in Nodes : list[m] = USED <=> list0[m] = USED
      BY DEF Merging
    <2> QED BY ONLY <1>1, <1>4, <2>1
  <1>15. \A m \in Nodes \ {n} : list0[m] = USED => /\ OffsetOf(t)[m] = OffsetOf(s0)[m]
                                                   /\ SizeOf(t)[m] = SizeOf(s0)[m]
    <2>1. \A m \in Nodes \ {n} : list0[m] = USED => /\ OffsetOf(s)[m] = OffsetOf(s0)[m]
                                                    /\ SizeOf(s)[m] = SizeOf(s0)[m]
      BY DEF Merging
    <2> QED BY ONLY <1>1, <1>2, <1>4, <1>14, <2>1 DEF SameTile
  <1>16. list1[n] = USED /\ \A m \in Nodes : list1[m] # LIMBO
    <2>1. \A m \in Nodes : list[m] # LIMBO
      BY DEF Merging
    <2> QED BY ONLY <1>1, <1>4, <2>1
  <1> QED BY ONLY <1>2, <1>5, <1>10, <1>11, <1>12, <1>13, <1>14, <1>15, <1>16 DEF Merging

\* n takes in the free region to its right.
LEMMA TakeRight ==
  ASSUME NEW s0, NEW list0, NEW n \in Nodes, NEW s, NEW list, Merging(s0, list0, n, s, list),
         LeftDone(s, list, n),
         NEW r, r = RightOf(s)[n], r # NIL, list[r] \in Bins,
         NEW u, NEW list1, PlacedAt(list, list1, r, SPARE), Removed(s, list, r, u, list1),
         NEW t, NEW node, NEW nb, Widened(u, list1, n, node, nb, t),
         node.dataOffset = OffsetOf(s)[n], node.dataSize = SizeOf(s)[n] + SizeOf(s)[r],
         nb.prev = LeftOf(s)[n], nb.next = RightOf(s)[r]
  PROVE  Merging(s0, list0, n, t, list1) /\ LeftDone(t, list1, n) /\ RightDone(t, list1, n)
  <1> DEFINE T == TilesOf(list)
  <1>1. /\ n \in T /\ T \subseteq Nodes /\ r \in T /\ r # n /\ r # LeftOf(s)[n]
        /\ LeftFrom(s, n)[n] = LeftOf(s)[n] /\ RightFrom(s, n)[n] = r
        /\ LeftOf(s)[n] # n
        /\ LeftOf(s)[n] # NIL => LeftOf(s)[n] \in T
    BY MergingFacts
  <1>2. /\ OffsetOf(t)[n] = OffsetOf(s)[n] /\ SizeOf(t)[n] = SizeOf(s)[n] + SizeOf(s)[r]
        /\ LeftOf(t)[n] = LeftOf(s)[n] /\ RightOf(t)[n] = RightOf(s)[r]
        /\ \A m \in Nodes \ {n, r} : SameTile(s, t, m)
        /\ t \in State /\ Lists(t, list1) /\ Bitmaps(t)
        /\ t.m_freeStorage = s.m_freeStorage - SizeOf(s)[r]
    BY <1>1 DEF Widened, Removed, SameTile
  <1>3. Tiled(T, OffsetOf(s), SizeOf(s), LeftFrom(s, n), RightFrom(s, n))
    BY DEF Merging
  <1>4. /\ list1[r] = SPARE /\ SPARE \notin Bins /\ SPARE # USED /\ SPARE # LIMBO /\ USED \notin Bins
        /\ \A m \in Nodes \ {r} : list1[m] = list[m]
        /\ list[n] = USED /\ list[r] \in Bins /\ list1 \in [Nodes -> Places]
    BY BinOf DEF PlacedAt, Merging, SPARE, USED, LIMBO, Heads
  <1>5. TilesOf(list1) = T \ {r}
    BY ONLY <1>1, <1>4 DEF TilesOf, T
  <1>6. \A m \in Nodes : list[m] \in Bins /\ RightFrom(s, n)[m] # NIL => list[RightFrom(s, n)[m]] \notin Bins
    BY DEF Merging
  <1>7. /\ OffsetOf(s)[r] \in Nat /\ SizeOf(s)[r] \in Nat /\ SizeOf(s)[n] \in Nat
        /\ s.m_freeStorage \in Int
    BY <1>1, <1>3, TileFacts DEF Merging, State
  <1> HIDE DEF T
  <1>8. /\ RightOf(s)[r] # NIL => RightOf(s)[r] \in T /\ RightOf(s)[r] # r /\ LeftFrom(s, n)[RightOf(s)[r]] = r
        /\ RightFrom(s, n)[r] = RightOf(s)[r]
        /\ RightOf(s)[r] # n
    <2>1. RightFrom(s, n)[r] = RightOf(s)[r]
      BY ONLY <1>1 DEF RightFrom
    <2>2. RightFrom(s, n)[r] # NIL => /\ RightFrom(s, n)[r] \in T /\ RightFrom(s, n)[r] # r
                                      /\ LeftFrom(s, n)[RightFrom(s, n)[r]] = r
      BY ONLY <1>1, <1>3, TileFacts
    <2> QED BY ONLY <1>1, <2>1, <2>2, Numbers
  <1>9. /\ LeftFrom(t, n)[n] = LeftFrom(s, n)[n] /\ RightFrom(t, n)[n] = RightFrom(s, n)[r]
        /\ \A m \in T \ {n, r} :
             /\ OffsetOf(t)[m] = OffsetOf(s)[m] /\ SizeOf(t)[m] = SizeOf(s)[m]
             /\ RightFrom(t, n)[m] = RightFrom(s, n)[m]
             /\ LeftFrom(t, n)[m] = IF m = RightFrom(s, n)[r] THEN n ELSE LeftFrom(s, n)[m]
    <2>1. LeftFrom(t, n)[n] = LeftOf(t)[n] /\ RightFrom(t, n)[n] = RightOf(t)[n]
      BY ONLY <1>1, <1>2, <1>8 DEF LeftFrom, RightFrom
    <2>2. ASSUME NEW m \in T \ {n, r}
          PROVE  /\ OffsetOf(t)[m] = OffsetOf(s)[m] /\ SizeOf(t)[m] = SizeOf(s)[m]
                 /\ RightFrom(t, n)[m] = RightFrom(s, n)[m]
                 /\ LeftFrom(t, n)[m] = IF m = RightFrom(s, n)[r] THEN n ELSE LeftFrom(s, n)[m]
      <3>1. m \in Nodes \ {n, r} /\ SameTile(s, t, m)
        BY ONLY <1>1, <1>2, <2>2
      <3>2. r = RightOf(s)[n]
        OBVIOUS
      <3> QED BY ONLY <1>2, <1>8, <3>1, <3>2 DEF SameTile, LeftFrom, RightFrom
    <2> QED BY ONLY <1>1, <1>2, <1>8, <2>1, <2>2
  <1>10. Tiled(T \ {r}, OffsetOf(t), SizeOf(t), LeftFrom(t, n), RightFrom(t, n))
    <2>1. r = RightFrom(s, n)[n] /\ r # NIL
      BY <1>1
    <2> QED BY ONLY <1>1, <1>2, <1>3, <1>9, <2>1, JoinRight
  <1>11. ASSUME NEW m \in Nodes, list1[m] \in Bins, RightFrom(t, n)[m] # NIL
         PROVE  list1[RightFrom(t, n)[m]] \notin Bins
    <2>1. m \in T \ {n, r} /\ list[m] \in Bins
      BY ONLY <1>1, <1>4, <1>11 DEF T, TilesOf
    <2>2. RightFrom(t, n)[m] = RightFrom(s, n)[m]
      BY ONLY <1>9, <2>1
    <2>3. RightFrom(s, n)[m] \in T
      BY ONLY <1>3, <1>11, <2>1, <2>2, TileFacts
    <2>4. list[RightFrom(s, n)[m]] \notin Bins /\ RightFrom(s, n)[m] # r
      BY ONLY <1>4, <1>6, <1>11, <2>1, <2>2
    <2> QED BY ONLY <1>1, <1>4, <2>2, <2>3, <2>4
  <1>12. RightDone(t, list1, n)
    <2>1. ASSUME RightOf(s)[r] # NIL PROVE list1[RightOf(s)[r]] \notin Bins
      BY ONLY <1>1, <1>4, <1>6, <1>8, <2>1, Numbers
    <2> QED BY <1>2, <2>1 DEF RightDone
  <1>13. t.m_freeStorage + SizeOf(t)[n] = s0.m_freeStorage + SizeOf(s0)[n]
    <2>1. s.m_freeStorage + SizeOf(s)[n] = s0.m_freeStorage + SizeOf(s0)[n]
      BY DEF Merging
    <2> QED BY ONLY <1>2, <1>7, <2>1
  <1>14. \A m \in Nodes : list1[m] = USED <=> list0[m] = USED
    <2>1. \A m \in Nodes : list[m] = USED <=> list0[m] = USED
      BY DEF Merging
    <2> QED BY ONLY <1>1, <1>4, <2>1
  <1>15. \A m \in Nodes \ {n} : list0[m] = USED => /\ OffsetOf(t)[m] = OffsetOf(s0)[m]
                                                   /\ SizeOf(t)[m] = SizeOf(s0)[m]
    <2>1. \A m \in Nodes \ {n} : list0[m] = USED => /\ OffsetOf(s)[m] = OffsetOf(s0)[m]
                                                    /\ SizeOf(s)[m] = SizeOf(s0)[m]
      BY DEF Merging
    <2> QED BY ONLY <1>1, <1>2, <1>4, <1>14, <2>1 DEF SameTile
  <1>16. list1[n] = USED /\ \A m \in Nodes : list1[m] # LIMBO
    <2>1. \A m \in Nodes : list[m] # LIMBO
      BY DEF Merging
    <2> QED BY ONLY <1>1, <1>4, <2>1
  <1>17. LeftDone(t, list1, n)
    <2>1. LeftOf(s)[n] # NIL => list[LeftOf(s)[n]] \notin Bins
      BY DEF LeftDone
    <2> QED BY ONLY <1>1, <1>2, <1>4, <2>1 DEF LeftDone
  <1> QED BY ONLY <1>2, <1>5, <1>10, <1>11, <1>12, <1>13, <1>14, <1>15, <1>16, <1>17 DEF Merging

\* What a neighbour of n that is free is.
LEMMA FreeNeighbor ==
  ASSUME NEW s0, NEW list0, NEW n \in Nodes, NEW s, NEW list, Merging(s0, list0, n, s, list),
         NEW k \in {LeftOf(s)[n], RightOf(s)[n]}
  PROVE  /\ IsFree(s, k) => k # NIL /\ k \in Nodes /\ k # n /\ list[k] \in Bins
         /\ ~IsFree(s, k) => (k # NIL => list[k] \notin Bins)
  <1>1. k # NIL => k \in TilesOf(list) /\ k # n
    BY MergingFacts
  <1>2. s.m_nodeUsed = {m \in Nodes : list[m] = USED} /\ USED \notin Bins
    BY BinOf DEF Merging, Lists, Heads
  <1> QED BY <1>1, <1>2 DEF IsFree, TilesOf

RemovedFor(s, list, n, k, u, list1) ==
  /\ PlacedAt(list, list1, k, SPARE) /\ Removed(s, list, k, u, list1)
  /\ u \in State /\ Lists(u, list1) /\ Bitmaps(u) /\ list1[n] = USED
  /\ SameTile(s, u, n) /\ list1 \in [Nodes -> Places]

\* The free neighbour k of n is removed, and n stays what it is.
LEMMA RemoveFor ==
  ASSUME NEW s0, NEW list0, NEW n \in Nodes, NEW s, NEW list, Merging(s0, list0, n, s, list),
         NEW k \in Nodes, k # n, list[k] \in Bins,
         NEW list1, list1 = [list EXCEPT ![k] = SPARE],
         NEW u, u = removeNodeFromBin(s, k)
  PROVE  RemovedFor(s, list, n, k, u, list1)
  <1>1. s \in State /\ Lists(s, list) /\ Bitmaps(s) /\ list[n] = USED /\ list \in [Nodes -> Places]
    BY DEF Merging, Lists
  <1>2. PlacedAt(list, list1, k, SPARE)
    BY <1>1 DEF PlacedAt, Places, Heads
  <1>3. k \in Nodes /\ list[k] \in Bins /\ u = removeNodeFromBin(s, k) /\ n \in Nodes /\ k # n
    OBVIOUS
  <1>4. Removed(s, list, k, u, list1)
    BY ONLY <1>1, <1>2, <1>3, RemoveLists
  <1> QED BY ONLY <1>1, <1>2, <1>3, <1>4 DEF RemovedFor, Removed, PlacedAt

LEMMA MergeLeftKeeps ==
  ASSUME NEW s0, NEW list0, NEW n \in Nodes, NEW s, NEW list, Merging(s0, list0, n, s, list),
         NEW t, t = MergeLeft(s, n)
  PROVE  \E list1 \in [Nodes -> Places] : Merging(s0, list0, n, t, list1) /\ LeftDone(t, list1, n)
  <1> DEFINE l == LeftOf(s)[n]
  <1>1. l = s.m_neighbors[n].prev /\ list \in [Nodes -> Places]
    BY DEF LeftOf, Merging, Lists
  <1>2. CASE ~IsFree(s, l)
    <2>1. t = s
      BY <1>1, <1>2 DEF MergeLeft
    <2>2. LeftDone(s, list, n)
      BY <1>2, FreeNeighbor DEF LeftDone
    <2> QED BY <1>1, <2>1, <2>2
  <1>3. CASE IsFree(s, l)
    <2> DEFINE list1 == [list EXCEPT ![l] = SPARE]
               u     == removeNodeFromBin(s, l)
               size  == u.m_nodes[n].dataSize + s.m_nodes[l].dataSize
               node  == [u.m_nodes[n] EXCEPT !.dataOffset = s.m_nodes[l].dataOffset, !.dataSize = size]
               nb    == [u.m_neighbors[n] EXCEPT !.prev = s.m_neighbors[l].prev]
    <2>1. l # NIL /\ l \in Nodes /\ l # n /\ list[l] \in Bins
      BY <1>3, FreeNeighbor
    <2>2. t = [u EXCEPT !.m_nodes[n].dataOffset = s.m_nodes[l].dataOffset,
                        !.m_nodes[n].dataSize = @ + s.m_nodes[l].dataSize,
                        !.m_neighbors[n].prev = s.m_neighbors[l].prev]
      BY <1>1, <1>3 DEF MergeLeft
    <2>3. /\ PlacedAt(list, list1, l, SPARE) /\ Removed(s, list, l, u, list1)
          /\ u \in State /\ Lists(u, list1) /\ Bitmaps(u) /\ list1[n] = USED
          /\ SameTile(s, u, n) /\ list1 \in [Nodes -> Places]
      <3>1. list1 = [list EXCEPT ![l] = SPARE] /\ u = removeNodeFromBin(s, l)
        OBVIOUS
      <3>2. n \in Nodes /\ Merging(s0, list0, n, s, list)
        OBVIOUS
      <3> HIDE DEF l, list1, u
      <3>3. RemovedFor(s, list, n, l, u, list1)
        BY ONLY <2>1, <3>1, <3>2, RemoveFor
      <3> QED BY <3>3 DEF RemovedFor
    <2> HIDE DEF l, list1, u
    <2>4. s \in State
      BY DEF Merging
    <2>5. /\ u.m_nodes[n] \in Node /\ u.m_neighbors[n] \in Neighbor
          /\ s.m_nodes[l] \in Node /\ s.m_neighbors[l] \in Neighbor
      BY <2>1, <2>3, <2>4 DEF State
    <2>6. /\ u.m_nodes[n].dataOffset \in Int /\ u.m_nodes[n].dataSize \in Int
          /\ s.m_nodes[l].dataOffset \in Int /\ s.m_nodes[l].dataSize \in Int
          /\ s.m_neighbors[l].prev \in Link
      BY ONLY <2>5 DEF Node, Neighbor
    <2>7. size \in Int
      BY ONLY <2>6
    <2>8. t = [u EXCEPT !.m_nodes[n] = node, !.m_neighbors[n] = nb]
      <3>1. n \in Nodes
        OBVIOUS
      <3> QED BY ONLY <2>2, <2>3, <2>5, <3>1 DEF State
    <2>9. size = SizeOf(s)[l] + SizeOf(s)[n]
      <3>1. u.m_nodes[n].dataSize = s.m_nodes[n].dataSize
        BY <2>3 DEF SameTile, SizeOf
      <3>2. s.m_nodes[n].dataSize \in Int
        BY <2>6, <3>1
      <3> QED BY <2>1, <2>6, <3>1, <3>2 DEF SizeOf
    <2> HIDE DEF size
    <2>10. /\ node \in Node /\ node.dataOffset = OffsetOf(s)[l] /\ node.dataSize = size
           /\ node.binListNext = u.m_nodes[n].binListNext
           /\ node.binListPrev = u.m_nodes[n].binListPrev
      BY ONLY <2>1, <2>5, <2>6, <2>7 DEF Node, OffsetOf
    <2>11. nb \in Neighbor /\ nb.prev = LeftOf(s)[l] /\ nb.next = RightOf(s)[n]
      <3>1. u.m_neighbors[n].next = RightOf(s)[n]
        BY <2>3 DEF SameTile, RightOf
      <3> QED BY ONLY <2>1, <2>5, <2>6, <3>1 DEF Neighbor, LeftOf
    <2> HIDE DEF node, nb
    <2>12. n \in Nodes /\ Merging(s0, list0, n, s, list) /\ l = LeftOf(s)[n]
      BY DEF l
    <2>13. Widened(u, list1, n, node, nb, t)
      BY ONLY <2>3, <2>8, <2>10, <2>11, <2>12, WidenIs
    <2>14. node.dataSize = SizeOf(s)[l] + SizeOf(s)[n]
      BY <2>9, <2>10
    <2>15. Merging(s0, list0, n, t, list1) /\ LeftDone(t, list1, n)
      BY ONLY <2>1, <2>3, <2>10, <2>11, <2>12, <2>13, <2>14, TakeLeft
    <2> QED BY <2>3, <2>15
  <1> QED BY <1>2, <1>3

LEMMA MergeRightKeeps ==
  ASSUME NEW s0, NEW list0, NEW n \in Nodes, NEW s, NEW list, Merging(s0, list0, n, s, list),
         LeftDone(s, list, n), NEW t, t = MergeRight(s, n)
  PROVE  \E list1 \in [Nodes -> Places] :
           Merging(s0, list0, n, t, list1) /\ LeftDone(t, list1, n) /\ RightDone(t, list1, n)
  <1> DEFINE r == RightOf(s)[n]
  <1>1. r = s.m_neighbors[n].next /\ list \in [Nodes -> Places]
    BY DEF RightOf, Merging, Lists
  <1>2. CASE ~IsFree(s, r)
    <2>1. t = s
      BY <1>1, <1>2 DEF MergeRight
    <2>2. RightDone(s, list, n)
      BY <1>2, FreeNeighbor DEF RightDone
    <2> QED BY <1>1, <2>1, <2>2
  <1>3. CASE IsFree(s, r)
    <2> DEFINE list1 == [list EXCEPT ![r] = SPARE]
               u     == removeNodeFromBin(s, r)
               size  == u.m_nodes[n].dataSize + s.m_nodes[r].dataSize
               node  == [u.m_nodes[n] EXCEPT !.dataSize = size]
               nb    == [u.m_neighbors[n] EXCEPT !.next = s.m_neighbors[r].next]
    <2>1. r # NIL /\ r \in Nodes /\ r # n /\ list[r] \in Bins
      BY <1>3, FreeNeighbor
    <2>2. t = [u EXCEPT !.m_nodes[n].dataSize = @ + s.m_nodes[r].dataSize,
                        !.m_neighbors[n].next = s.m_neighbors[r].next]
      BY <1>1, <1>3 DEF MergeRight
    <2>3. /\ PlacedAt(list, list1, r, SPARE) /\ Removed(s, list, r, u, list1)
          /\ u \in State /\ Lists(u, list1) /\ Bitmaps(u) /\ list1[n] = USED
          /\ SameTile(s, u, n) /\ list1 \in [Nodes -> Places]
      <3>1. list1 = [list EXCEPT ![r] = SPARE] /\ u = removeNodeFromBin(s, r)
        OBVIOUS
      <3>2. n \in Nodes /\ Merging(s0, list0, n, s, list)
        OBVIOUS
      <3> HIDE DEF r, list1, u
      <3>3. RemovedFor(s, list, n, r, u, list1)
        BY ONLY <2>1, <3>1, <3>2, RemoveFor
      <3> QED BY <3>3 DEF RemovedFor
    <2> HIDE DEF r, list1, u
    <2>4. s \in State
      BY DEF Merging
    <2>5. /\ u.m_nodes[n] \in Node /\ u.m_neighbors[n] \in Neighbor
          /\ s.m_nodes[r] \in Node /\ s.m_neighbors[r] \in Neighbor
      BY <2>1, <2>3, <2>4 DEF State
    <2>6. /\ u.m_nodes[n].dataSize \in Int /\ s.m_nodes[r].dataSize \in Int
          /\ s.m_neighbors[r].next \in Link
      BY ONLY <2>5 DEF Node, Neighbor
    <2>7. size \in Int
      BY ONLY <2>6
    <2>8. t = [u EXCEPT !.m_nodes[n] = node, !.m_neighbors[n] = nb]
      <3>1. n \in Nodes
        OBVIOUS
      <3> QED BY ONLY <2>2, <2>3, <2>5, <3>1 DEF State
    <2>9. size = SizeOf(s)[n] + SizeOf(s)[r]
      <3>1. u.m_nodes[n].dataSize = s.m_nodes[n].dataSize
        BY <2>3 DEF SameTile, SizeOf
      <3> QED BY <2>1, <3>1 DEF SizeOf
    <2> HIDE DEF size
    <2>10. /\ node \in Node /\ node.dataOffset = OffsetOf(s)[n] /\ node.dataSize = size
           /\ node.binListNext = u.m_nodes[n].binListNext
           /\ node.binListPrev = u.m_nodes[n].binListPrev
      <3>1. u.m_nodes[n].dataOffset = OffsetOf(s)[n]
        BY <2>3 DEF SameTile, OffsetOf
      <3> QED BY ONLY <2>1, <2>5, <2>6, <2>7, <3>1 DEF Node
    <2>11. nb \in Neighbor /\ nb.prev = LeftOf(s)[n] /\ nb.next = RightOf(s)[r]
      <3>1. u.m_neighbors[n].prev = LeftOf(s)[n]
        BY <2>3 DEF SameTile, LeftOf
      <3> QED BY ONLY <2>1, <2>5, <2>6, <3>1 DEF Neighbor, RightOf
    <2> HIDE DEF node, nb
    <2>12. n \in Nodes /\ Merging(s0, list0, n, s, list) /\ LeftDone(s, list, n) /\ r = RightOf(s)[n]
      BY DEF r
    <2>13. Widened(u, list1, n, node, nb, t)
      BY ONLY <2>3, <2>8, <2>10, <2>11, <2>12, WidenIs
    <2>14. node.dataSize = SizeOf(s)[n] + SizeOf(s)[r]
      BY <2>9, <2>10
    <2>15. Merging(s0, list0, n, t, list1) /\ LeftDone(t, list1, n) /\ RightDone(t, list1, n)
      BY ONLY <2>1, <2>3, <2>10, <2>11, <2>12, <2>13, <2>14, TakeRight
    <2> QED BY <2>3, <2>15
  <1> QED BY <1>2, <1>3

\* The new neighbours of n, and n as that of its neighbours.
FreedLinks(nb, n, left, right, linked) ==
  /\ linked \in [Nodes -> Neighbor]
  /\ linked[n].prev = left /\ linked[n].next = right
  /\ \A m \in Nodes \ {n} : /\ linked[m].prev = IF m = right THEN n ELSE nb[m].prev
                            /\ linked[m].next = IF m = left THEN n ELSE nb[m].next

LEMMA FreedLinksAre ==
  ASSUME NEW nb \in [Nodes -> Neighbor], NEW n \in Nodes, NEW left \in Link, NEW right \in Link,
         NEW linked, linked = [SetRight(SetLeft(nb, right, n), left, n) EXCEPT
                                 ![n] = [prev |-> left, next |-> right]]
  PROVE  FreedLinks(nb, n, left, right, linked)
  <1> DEFINE nb1  == SetLeft(nb, right, n)
             nb2  == SetRight(nb1, left, n)
             link == [prev |-> left, next |-> right]
  <1>1. n \in Link /\ left \in Link /\ right \in Link /\ nb \in [Nodes -> Neighbor] /\ n \in Nodes
    BY DEF Link
  <1>2. /\ nb1 \in [Nodes -> Neighbor]
        /\ \A m \in Nodes : /\ nb1[m].next = nb[m].next
                            /\ nb1[m].prev = IF m = right THEN n ELSE nb[m].prev
    BY ONLY <1>1, SetNeighborsIs
  <1> HIDE DEF nb1
  <1>3. /\ nb2 \in [Nodes -> Neighbor]
        /\ \A m \in Nodes : /\ nb2[m].prev = nb1[m].prev
                            /\ nb2[m].next = IF m = left THEN n ELSE nb1[m].next
    BY ONLY <1>1, <1>2, SetNeighborsIs
  <1>4. linked = [nb2 EXCEPT ![n] = link]
    BY DEF nb1
  <1> HIDE DEF nb2
  <1>5. link \in Neighbor /\ link.prev = left /\ link.next = right
    BY ONLY <1>1 DEF Neighbor
  <1> HIDE DEF link
  <1>6. /\ linked \in [Nodes -> Neighbor] /\ linked[n] = link
        /\ \A m \in Nodes \ {n} : linked[m] = nb2[m]
    BY ONLY <1>1, <1>3, <1>4, <1>5
  <1> QED BY ONLY <1>2, <1>3, <1>5, <1>6 DEF FreedLinks

\* s0 after n is freed: the state t.
Freed(s0, list0, n, t) ==
  \E list2 \in [Nodes -> Places] :
    /\ t \in State /\ Lists(t, list2) /\ Bitmaps(t)
    /\ \A m \in Nodes : list2[m] # LIMBO
    /\ Tiling2(t, list2) /\ Merged(t, list2)
    /\ t.m_freeStorage = s0.m_freeStorage + SizeOf(s0)[n]
    /\ \A m \in Nodes : list2[m] = USED <=> list0[m] = USED /\ m # n
    /\ \A m \in Nodes \ {n} : list0[m] = USED => /\ OffsetOf(t)[m] = OffsetOf(s0)[m]
                                                 /\ SizeOf(t)[m] = SizeOf(s0)[m]

\* The combined region becomes a free node: n again, the last one on the freelist.
LEMMA FreeFiles ==
  ASSUME NEW s0, NEW list0, NEW n \in Nodes, NEW s, NEW list, Merging(s0, list0, n, s, list),
         LeftDone(s, list, n), RightDone(s, list, n),
         NEW pushed, pushed = PushSpare(s, n), NEW c, c = SpareNode(pushed),
         NEW freed, freed = insertNodeIntoBin(pushed, SizeOf(s)[n], OffsetOf(s)[n]),
         NEW linked, linked = JoinedNeighbors(freed.m_neighbors, c, LeftOf(s)[n], RightOf(s)[n]),
         NEW t, t = WithNeighbors(freed, linked)
  PROVE  Freed(s0, list0, n, t)
  <1> DEFINE left   == LeftOf(s)[n]
             right  == RightOf(s)[n]
             size   == SizeOf(s)[n]
             offset == OffsetOf(s)[n]
             bin    == U32ToF32RoundDown(size)
             list1  == [list EXCEPT ![n] = SPARE]
             list2  == [list1 EXCEPT ![n] = bin]
             T      == TilesOf(list)
  <1>a. Merging(s0, list0, n, s, list) /\ n \in Nodes
    OBVIOUS
  <1>b. pushed = PushSpare(s, n)
    OBVIOUS
  <1>c. c = SpareNode(pushed)
    OBVIOUS
  <1>d. freed = insertNodeIntoBin(pushed, size, offset)
    OBVIOUS
  <1>e. linked = [SetRight(SetLeft(freed.m_neighbors, right, c), left, c)
                    EXCEPT ![c] = [prev |-> left, next |-> right]]
    BY DEF JoinedNeighbors
  <1>f. t = [freed EXCEPT !.m_neighbors = linked]
    BY DEF WithNeighbors
  <1>g. (left # NIL => list[left] \notin Bins) /\ (right # NIL => list[right] \notin Bins)
    BY DEF LeftDone, RightDone
  <1>1. /\ n \in T /\ T \subseteq Nodes
        /\ LeftFrom(s, n)[n] = left /\ RightFrom(s, n)[n] = right
        /\ offset \in Nat /\ size \in Nat /\ offset + size <= Size
        /\ left # n /\ right # n
        /\ left # NIL => left \in T
        /\ right # NIL => right \in T
    BY ONLY <1>a, MergingFacts
  <1>2. Tiled(T, OffsetOf(s), SizeOf(s), LeftFrom(s, n), RightFrom(s, n))
    BY ONLY <1>a DEF Merging
  <1> HIDE DEF T
  <1>3. /\ s \in State /\ Lists(s, list) /\ Bitmaps(s) /\ list[n] = USED
        /\ list \in [Nodes -> Places] /\ \A m \in Nodes : list[m] # LIMBO
    BY ONLY <1>a DEF Merging, Lists
  <1>4. /\ SPARE \in Places /\ SPARE # USED /\ SPARE # LIMBO /\ USED \notin Bins /\ LIMBO \notin Bins
        /\ Bins \subseteq Places
    BY ONLY BinOf DEF Places, Heads, SPARE, USED, LIMBO
  <1>5. /\ PlacedAt(list, list1, n, SPARE) /\ list1 \in [Nodes -> Places] /\ list1[n] = SPARE
        /\ \A m \in Nodes \ {n} : list1[m] = list[m]
    BY ONLY <1>a, <1>3, <1>4 DEF PlacedAt, list1
  <1> HIDE DEF list1
  <1>6. Pushed(s, list, n, pushed, list1)
    <2>1. list[n] \in {USED, LIMBO}
      BY <1>3
    <2> QED BY ONLY <1>a, <1>b, <1>3, <1>5, <2>1, PushSpareLists
  <1>7. n # s.m_freeListHead /\ Lists(pushed, list1)
    BY ONLY <1>6 DEF Pushed
  <1>8. /\ pushed \in State /\ pushed.m_freeListHead = n
        /\ pushed.m_freeStorage = s.m_freeStorage
        /\ pushed.m_usedBinsTop = s.m_usedBinsTop
        /\ pushed.m_usedBins = s.m_usedBins /\ pushed.m_binIndices = s.m_binIndices
        /\ \A m \in Nodes \ {n} : SameTile(s, pushed, m)
    BY ONLY <1>a, <1>b, <1>3, <1>7, PushSpareIs
  <1>9. c = n /\ c # NIL
    BY ONLY <1>a, <1>c, <1>8, Numbers DEF SpareNode
  <1>10. Bitmaps(pushed)
    BY ONLY <1>3, <1>8 DEF Bitmaps
  <1>11. size \in 0..Size /\ offset \in Int /\ size \in Int
    BY ONLY <1>1, Numbers
  <1>12. bin \in Bins /\ bin = U32ToF32RoundDown(size)
    BY ONLY <1>11, BinOf
  <1> HIDE DEF bin
  <1>13. /\ PlacedAt(list1, list2, n, bin) /\ list2 \in [Nodes -> Places] /\ list2[n] = bin
         /\ \A m \in Nodes \ {n} : list2[m] = list[m]
    BY ONLY <1>a, <1>4, <1>5, <1>12 DEF PlacedAt, list2
  <1> HIDE DEF list2
  <1>14. Inserted(pushed, list1, size, offset, n, freed, list2)
    <2>1. PlacedAt(list1, list2, n, U32ToF32RoundDown(size))
      BY ONLY <1>12, <1>13
    <2>2. n = SpareNode(pushed) /\ n # NIL
      BY ONLY <1>c, <1>9
    <2> HIDE DEF size, offset
    <2> QED BY ONLY <1>d, <1>7, <1>8, <1>10, <1>11, <2>1, <2>2, InsertLists
  <1>15. /\ freed \in State /\ Lists(freed, list2) /\ Bitmaps(freed)
         /\ freed.m_freeStorage = pushed.m_freeStorage + size
         /\ OffsetOf(freed)[n] = offset /\ SizeOf(freed)[n] = size
         /\ \A m \in Nodes \ {n} : SameTile(pushed, freed, m)
    BY ONLY <1>14 DEF Inserted
  <1>16. left \in Link /\ right \in Link
    BY ONLY <1>a, <1>3, FieldTypes
  <1>17. FreedLinks(freed.m_neighbors, n, left, right, linked)
    <2>1. freed.m_neighbors \in [Nodes -> Neighbor]
      BY ONLY <1>15 DEF State
    <2>2. linked = [SetRight(SetLeft(freed.m_neighbors, right, n), left, n)
                      EXCEPT ![n] = [prev |-> left, next |-> right]]
      BY ONLY <1>e, <1>9
    <2> HIDE DEF left, right
    <2> QED BY ONLY <1>a, <1>16, <2>1, <2>2, FreedLinksAre
  <1>18. /\ linked \in [Nodes -> Neighbor]
         /\ linked[n].prev = left /\ linked[n].next = right
         /\ \A m \in Nodes \ {n} : /\ linked[m].prev = IF m = right THEN n ELSE LeftOf(s)[m]
                                   /\ linked[m].next = IF m = left THEN n ELSE RightOf(s)[m]
    <2>1. \A m \in Nodes \ {n} : /\ freed.m_neighbors[m].prev = LeftOf(s)[m]
                                 /\ freed.m_neighbors[m].next = RightOf(s)[m]
      <3>1. \A m \in Nodes : /\ freed.m_neighbors[m].prev = LeftOf(freed)[m]
                             /\ freed.m_neighbors[m].next = RightOf(freed)[m]
        BY ONLY DEF LeftOf, RightOf
      <3> QED BY ONLY <1>8, <1>15, <3>1 DEF SameTile
    <2> HIDE DEF left, right
    <2> QED BY ONLY <1>17, <2>1 DEF FreedLinks
  <1>19. /\ t \in State /\ Lists(t, list2) /\ Bitmaps(t)
         /\ t.m_freeStorage = freed.m_freeStorage
         /\ OffsetOf(t) = OffsetOf(freed) /\ SizeOf(t) = SizeOf(freed)
         /\ \A m \in Nodes : LeftOf(t)[m] = linked[m].prev /\ RightOf(t)[m] = linked[m].next
    BY ONLY <1>f, <1>15, <1>18, RelinkIs
  <1>20. \A m \in Nodes : /\ OffsetOf(t)[m] = OffsetOf(s)[m] /\ SizeOf(t)[m] = SizeOf(s)[m]
                          /\ LeftOf(t)[m] = LeftFrom(s, n)[m] /\ RightOf(t)[m] = RightFrom(s, n)[m]
    <2>1. \A m \in Nodes \ {n} : OffsetOf(t)[m] = OffsetOf(s)[m] /\ SizeOf(t)[m] = SizeOf(s)[m]
      BY ONLY <1>8, <1>15, <1>19 DEF SameTile
    <2>2. OffsetOf(t)[n] = OffsetOf(s)[n] /\ SizeOf(t)[n] = SizeOf(s)[n]
      BY ONLY <1>15, <1>19
    <2>3. \A m \in Nodes \ {n} : LeftOf(t)[m] = LeftFrom(s, n)[m] /\ RightOf(t)[m] = RightFrom(s, n)[m]
      BY ONLY <1>18, <1>19 DEF LeftFrom, RightFrom
    <2>4. LeftOf(t)[n] = LeftFrom(s, n)[n] /\ RightOf(t)[n] = RightFrom(s, n)[n]
      BY ONLY <1>a, <1>1, <1>18, <1>19
    <2> QED BY ONLY <1>a, <2>1, <2>2, <2>3, <2>4
  <1>21. TilesOf(list2) = T
    BY ONLY <1>a, <1>3, <1>12, <1>13 DEF T, TilesOf
  <1>22. Tiling2(t, list2)
    <2>1. \A m \in T : /\ OffsetOf(t)[m] = OffsetOf(s)[m] /\ SizeOf(t)[m] = SizeOf(s)[m]
                       /\ LeftOf(t)[m] = LeftFrom(s, n)[m] /\ RightOf(t)[m] = RightFrom(s, n)[m]
      BY ONLY <1>1, <1>20
    <2>2. Tiled(T, OffsetOf(t), SizeOf(t), LeftOf(t), RightOf(t))
      BY ONLY <1>2, <2>1, SameTiles
    <2> QED BY ONLY <1>21, <2>2 DEF Tiling2
  <1>23. ASSUME NEW m \in Nodes, list2[m] \in Bins, RightOf(t)[m] # NIL
         PROVE  list2[RightOf(t)[m]] \notin Bins
    <2>1. RightOf(t)[m] = RightFrom(s, n)[m]
      BY ONLY <1>20, <1>23
    <2>2. CASE m = n
      BY ONLY <1>1, <1>13, <1>g, <1>23, <2>1, <2>2
    <2>3. CASE m # n
      <3>1. list[m] \in Bins /\ m \in T
        BY ONLY <1>13, <1>23, <2>3 DEF T, TilesOf
      <3>2. list[RightOf(t)[m]] \notin Bins
        BY ONLY <1>a, <1>23, <2>1, <3>1 DEF Merging
      <3>3. /\ RightFrom(s, n)[m] \in T /\ LeftFrom(s, n)[RightFrom(s, n)[m]] = m
        BY ONLY <1>2, <1>23, <2>1, <3>1, TileFacts
      <3>4. RightOf(t)[m] # n
        <4>1. ASSUME RightOf(t)[m] = n PROVE FALSE
          <5>1. m = left
            BY ONLY <1>1, <2>1, <3>3, <4>1
          <5>2. m # NIL
            BY ONLY <1>23, Numbers
          <5> QED BY ONLY <1>g, <3>1, <5>1, <5>2
        <4> QED BY ONLY <4>1
      <3> QED BY ONLY <1>1, <1>13, <2>1, <3>2, <3>3, <3>4
    <2> QED BY ONLY <2>2, <2>3
  <1>24. t.m_freeStorage = s0.m_freeStorage + SizeOf(s0)[n]
    BY ONLY <1>a, <1>8, <1>15, <1>19 DEF Merging
  <1>25. \A m \in Nodes : list2[m] = USED <=> list0[m] = USED /\ m # n
    <2>1. \A m \in Nodes : list[m] = USED <=> list0[m] = USED
      BY ONLY <1>a DEF Merging
    <2> QED BY ONLY <1>4, <1>12, <1>13, <2>1
  <1>26. \A m \in Nodes \ {n} : list0[m] = USED => /\ OffsetOf(t)[m] = OffsetOf(s0)[m]
                                                   /\ SizeOf(t)[m] = SizeOf(s0)[m]
    BY ONLY <1>a, <1>20 DEF Merging
  <1>27. \A m \in Nodes : list2[m] # LIMBO
    BY ONLY <1>3, <1>4, <1>12, <1>13
  <1> QED BY ONLY <1>13, <1>19, <1>22, <1>23, <1>24, <1>25, <1>26, <1>27 DEF Merged, Freed

\* What the live allocations hold after one of them is freed.
LEMMA FreedMatch ==
  ASSUME NEW s0, NEW blocks, NEW list0, Good(s0, blocks, list0), NEW x \in blocks,
         NEW t, NEW list2,
         t.m_freeStorage = s0.m_freeStorage + SizeOf(s0)[x.node],
         \A m \in Nodes : list2[m] = USED <=> list0[m] = USED /\ m # x.node,
         \A m \in Nodes \ {x.node} : list0[m] = USED => /\ OffsetOf(t)[m] = OffsetOf(s0)[m]
                                                        /\ SizeOf(t)[m] = SizeOf(s0)[m]
  PROVE  /\ LiveMatch(t, list2, blocks \ {x})
         /\ t.m_freeStorage = Size - Cardinality(Held(blocks \ {x}))
  <1> DEFINE others == blocks \ {x}
  <1>1. /\ \A y \in blocks : /\ y.offset \in Nat /\ y.len \in Nat /\ y.offset + y.len <= Size
        /\ \A y \in others : y.node # x.node
        /\ \A y, z \in blocks : y # z => y.offset + y.len <= z.offset \/ z.offset + z.len <= y.offset
    <2>1. \A y, z \in blocks : y.node = z.node => y = z
      BY LiveApart
    <2>2. \A y \in blocks : y.offset \in Nat /\ y.len \in Nat /\ y.offset + y.len <= Size
      BY LiveApart
    <2>3. \A y, z \in blocks : y # z => y.offset + y.len <= z.offset \/ z.offset + z.len <= y.offset
      BY LiveApart
    <2> QED BY <2>1, <2>2, <2>3
  <1>2. LiveMatch(s0, list0, blocks)
    BY DEF Good
  <1>3. LiveMatch(t, list2, others)
    <2>1. ASSUME NEW y \in others
          PROVE  /\ y = [offset |-> y.offset, len |-> y.len, node |-> y.node]
                 /\ y.node \in Nodes /\ list2[y.node] = USED
                 /\ y.offset = OffsetOf(t)[y.node] /\ y.len = SizeOf(t)[y.node]
      <3>1. /\ y = [offset |-> y.offset, len |-> y.len, node |-> y.node]
            /\ y.node \in Nodes /\ list0[y.node] = USED
            /\ y.offset = OffsetOf(s0)[y.node] /\ y.len = SizeOf(s0)[y.node]
        BY <1>2 DEF LiveMatch
      <3>2. y.node # x.node
        BY <1>1
      <3> QED BY <3>1, <3>2
    <2>2. ASSUME NEW m \in Nodes, list2[m] = USED PROVE \E y \in others : y.node = m
      <3>1. list0[m] = USED /\ m # x.node
        BY <2>2
      <3> QED BY <1>2, <3>1 DEF LiveMatch
    <2> QED BY <2>1, <2>2 DEF LiveMatch
  <1>4. /\ Cardinality(Held(others)) \in Nat
        /\ Cardinality(Held(blocks)) = Cardinality(Held(others)) + x.len
    <2>1. \A y \in others : /\ y.offset \in Nat /\ y.len \in Nat
                            /\ y.offset + y.len <= x.offset \/ x.offset + x.len <= y.offset
      BY <1>1
    <2>2. x.offset \in Nat /\ x.len \in Nat /\ x.offset + x.len <= Size
      BY <1>1
    <2>3. others \cup {x} = blocks
      OBVIOUS
    <2> HIDE DEF others
    <2>4. /\ Cardinality(Held(others)) \in Nat
          /\ Cardinality(Held(others \cup {x})) = Cardinality(Held(others)) + x.len
      BY ONLY <2>1, <2>2, HeldAdd
    <2> QED BY <2>3, <2>4
  <1>5. t.m_freeStorage = Size - Cardinality(Held(others))
    <2>1. s0.m_freeStorage = Size - Cardinality(Held(blocks)) /\ x.len = SizeOf(s0)[x.node]
      BY <1>2 DEF Good, LiveMatch
    <2>2. x.len \in Nat /\ Size \in Nat
      BY <1>1, Numbers
    <2>3. t.m_freeStorage = s0.m_freeStorage + SizeOf(s0)[x.node]
      OBVIOUS
    <2> HIDE DEF others
    <2> QED BY ONLY <1>4, <2>1, <2>2, <2>3
  <1> QED BY <1>3, <1>5

\* The state after the node n is freed.
AfterFree(s, n) ==
  LET merged == MergeRight(MergeLeft(s, n), n)
      left   == merged.m_neighbors[n].prev
      right  == merged.m_neighbors[n].next
      pushed == PushSpare(merged, n)
      freed  == insertNodeIntoBin(pushed, merged.m_nodes[n].dataSize, merged.m_nodes[n].dataOffset)
  IN  WithNeighbors(freed, JoinedNeighbors(freed.m_neighbors, SpareNode(pushed), left, right))

\* After free the allocation is gone, and every other one is where it was.
LEMMA FreeKeeps ==
  ASSUME NEW s, NEW blocks, NEW list, Good(s, blocks, list), NEW x \in blocks,
         NEW t, t = AfterFree(s, x.node)
  PROVE  Placed(t, blocks \ {x})
  <1> DEFINE n      == x.node
             merged == MergeRight(MergeLeft(s, n), n)
             pushed == PushSpare(merged, n)
             c      == SpareNode(pushed)
             freed  == insertNodeIntoBin(pushed, merged.m_nodes[n].dataSize, merged.m_nodes[n].dataOffset)
             linked == JoinedNeighbors(freed.m_neighbors, c, merged.m_neighbors[n].prev,
                                       merged.m_neighbors[n].next)
  <1>a. merged = MergeRight(MergeLeft(s, n), n)
    OBVIOUS
  <1>b. pushed = PushSpare(merged, n) /\ c = SpareNode(pushed)
    OBVIOUS
  <1>c. freed = insertNodeIntoBin(pushed, merged.m_nodes[n].dataSize, merged.m_nodes[n].dataOffset)
    OBVIOUS
  <1>d. linked = JoinedNeighbors(freed.m_neighbors, c, merged.m_neighbors[n].prev,
                                 merged.m_neighbors[n].next)
    OBVIOUS
  <1>e. t = WithNeighbors(freed, linked)
    BY DEF AfterFree
  <1>1. n \in Nodes /\ list[n] = USED
    BY DEF Good, LiveMatch
  <1>2. Good(s, blocks, list) /\ x \in blocks /\ n = x.node
    OBVIOUS
  <1> HIDE DEF n, merged, pushed, c, freed, linked
  <1>3. Merging(s, list, n, s, list)
    BY ONLY <1>1, <1>2, MergeStart
  <1>4. PICK s1 : s1 = MergeLeft(s, n)
    OBVIOUS
  <1>5. PICK list1 \in [Nodes -> Places] : Merging(s, list, n, s1, list1) /\ LeftDone(s1, list1, n)
    BY ONLY <1>1, <1>3, <1>4, MergeLeftKeeps
  <1>6. merged = MergeRight(s1, n)
    BY ONLY <1>4, <1>a
  <1>7. PICK list2 \in [Nodes -> Places] : /\ Merging(s, list, n, merged, list2)
                                           /\ LeftDone(merged, list2, n) /\ RightDone(merged, list2, n)
    BY ONLY <1>1, <1>5, <1>6, MergeRightKeeps
  <1>8. /\ merged.m_nodes[n].dataSize = SizeOf(merged)[n]
        /\ merged.m_nodes[n].dataOffset = OffsetOf(merged)[n]
        /\ merged.m_neighbors[n].prev = LeftOf(merged)[n]
        /\ merged.m_neighbors[n].next = RightOf(merged)[n]
    BY ONLY <1>1 DEF SizeOf, OffsetOf, LeftOf, RightOf
  <1>9. /\ pushed = PushSpare(merged, n) /\ c = SpareNode(pushed)
        /\ freed = insertNodeIntoBin(pushed, SizeOf(merged)[n], OffsetOf(merged)[n])
    BY ONLY <1>8, <1>b, <1>c
  <1>10. linked = JoinedNeighbors(freed.m_neighbors, c, LeftOf(merged)[n], RightOf(merged)[n])
    BY ONLY <1>8, <1>d
  <1>12. PICK list3 \in [Nodes -> Places] :
           /\ t \in State /\ Lists(t, list3) /\ Bitmaps(t)
           /\ \A m \in Nodes : list3[m] # LIMBO
           /\ Tiling2(t, list3) /\ Merged(t, list3)
           /\ t.m_freeStorage = s.m_freeStorage + SizeOf(s)[n]
           /\ \A m \in Nodes : list3[m] = USED <=> list[m] = USED /\ m # n
           /\ \A m \in Nodes \ {n} : list[m] = USED => /\ OffsetOf(t)[m] = OffsetOf(s)[m]
                                                       /\ SizeOf(t)[m] = SizeOf(s)[m]
    <2>1. Freed(s, list, n, t)
      BY ONLY <1>1, <1>7, <1>9, <1>10, <1>e, FreeFiles
    <2> QED BY ONLY <2>1 DEF Freed
  <1>13. /\ LiveMatch(t, list3, blocks \ {x})
         /\ t.m_freeStorage = Size - Cardinality(Held(blocks \ {x}))
    <2>1. t.m_freeStorage = s.m_freeStorage + SizeOf(s)[x.node]
      BY ONLY <1>2, <1>12
    <2> QED BY ONLY <1>2, <1>12, <2>1, FreedMatch, SMTT(60)
  <1> QED BY ONLY <1>12, <1>13 DEF Good, Placed

-----------------------------------------------------------------------------
(* The invariant of every step                                             *)

\* IInv of a state and of what is said about it.
IInvOf(s, arrays, crash, blocks) ==
  /\ s \in State /\ Types(s) /\ arrays \in BOOLEAN /\ crash \in BOOLEAN
  /\ blocks \subseteq [offset : 0..Size, len : 0..Size, node : Nodes]
  /\ ~arrays => blocks = {}
  /\ arrays /\ ~crash => Placed(s, blocks)

LEMMA IInvIs ==
  /\ IInvOf(self, has_arrays, crashed, live) => IInv
  /\ IInvOf(self', has_arrays', crashed', live') => IInv'
  /\ IInv => IInvOf(self, has_arrays, crashed, live)
  <1>1. Nodes \cup {NIL} = Link
    BY DEF Link
  <1>2. ASSUME NEW s \in State, Types(s)
        PROVE  /\ s.m_freeStorage \in Nat /\ s.m_usedBinsTop \subseteq Tops
               /\ s.m_usedBins \subseteq Bins /\ s.m_binIndices \in [Bins -> Nodes \cup {NIL}]
               /\ s.m_nodes \in [Nodes -> [dataOffset : 0..Size, dataSize : 0..Size,
                                           binListPrev : Nodes \cup {NIL, CLEARED},
                                           binListNext : Nodes \cup {NIL, CLEARED}]]
               /\ s.m_neighbors \in [Nodes -> [prev : Nodes \cup {NIL}, next : Nodes \cup {NIL}]]
               /\ s.m_nodeUsed \subseteq Nodes /\ s.m_freeIndex \in 0..MaxAllocs
               /\ s.m_freeListHead \in Nodes \cup {NIL} /\ s.m_freeOffset \in 0..MaxAllocs-1
    <2>1. /\ s.m_usedBinsTop \subseteq Tops /\ s.m_usedBins \subseteq Bins
          /\ s.m_binIndices \in [Bins -> Link] /\ s.m_nodes \in [Nodes -> Node]
          /\ s.m_neighbors \in [Nodes -> Neighbor]
          /\ s.m_nodeUsed \subseteq Nodes /\ s.m_freeIndex \in 0..MaxAllocs
          /\ s.m_freeListHead \in Link /\ s.m_freeOffset \in 0..MaxAllocs-1
      BY <1>2 DEF State
    <2>2. s.m_nodes \in [Nodes -> [dataOffset : 0..Size, dataSize : 0..Size,
                                   binListPrev : Nodes \cup {NIL, CLEARED},
                                   binListNext : Nodes \cup {NIL, CLEARED}]]
      BY <1>2, <2>1 DEF Types, Node, Link
    <2> QED BY <1>1, <1>2, <2>1, <2>2 DEF Types, Neighbor
  <1>3. IInvOf(self, has_arrays, crashed, live) => IInv
    BY <1>2 DEF IInvOf, IInv, TypeOK, Sound
  <1>4. IInvOf(self', has_arrays', crashed', live') => IInv'
    BY <1>2 DEF IInvOf, IInv, TypeOK, Sound
  <1>5. IInv => IInvOf(self, has_arrays, crashed, live)
    BY DEF IInvOf, IInv, TypeOK, Sound, Types
  <1> QED BY <1>3, <1>4, <1>5

LEMMA GoodIs ==
  ASSUME NEW s, NEW blocks, NEW list \in [Nodes -> Places], Good(s, blocks, list)
  PROVE  IInvOf(s, TRUE, FALSE, blocks)
  <1>1. Types(s)
    BY GoodTypes
  <1>2. blocks \subseteq [offset : 0..Size, len : 0..Size, node : Nodes]
    BY LiveApart
  <1>3. s \in State
    BY DEF Good
  <1> QED BY <1>1, <1>2, <1>3 DEF IInvOf, Placed

LEMMA Invariant_Init == Init => IInv
  <1>1. /\ Constructed \in State /\ Types(Constructed)
    BY ConstructedIs
  <1>2. IInvOf(Constructed, FALSE, FALSE, {})
    BY <1>1 DEF IInvOf
  <1> QED BY <1>2, IInvIs DEF Init

\* A whole range that is free, or no arrays.
LEMMA Invariant_Lifetime ==
  ASSUME IInv, setup \/ reset \/ teardown \/ MoveAway \/ Destroy
  PROVE  IInv'
  <1>1. IInvOf(self, has_arrays, crashed, live)
    BY IInvIs
  <1>2. /\ AfterReset \in State /\ Types(AfterReset)
        /\ Placed(AfterReset, {})
    <2>1. PICK s : s = AfterReset
      OBVIOUS
    <2>2. PICK list \in [Nodes -> Places] : Good(s, {}, list)
      BY <2>1, ResetIsGood DEF Placed
    <2>3. IInvOf(s, TRUE, FALSE, {})
      BY <2>2, GoodIs
    <2> QED BY <2>1, <2>2, <2>3 DEF IInvOf, Placed
  <1>3. Constructed \in State /\ Types(Constructed)
    BY ConstructedIs
  <1>4. CASE setup \/ reset
    <2>1. IInvOf(AfterReset, has_arrays', crashed', live')
      BY <1>1, <1>2, <1>4 DEF IInvOf, setup, reset
    <2> QED BY <1>4, <2>1, IInvIs DEF setup, reset
  <1>5. CASE teardown \/ Destroy
    <2>1. IInvOf(Constructed, has_arrays', crashed', live')
      BY <1>1, <1>3, <1>5 DEF IInvOf, teardown, Destroy
    <2> QED BY <1>5, <2>1, IInvIs DEF teardown, Destroy
  <1>6. CASE MoveAway
    <2> DEFINE t == [Constructed EXCEPT !.m_freeStorage = self.m_freeStorage, !.m_freeOffset = 0]
    <2>1. self.m_freeStorage \in Nat /\ 0 \in 0..MaxAllocs-1
      BY <1>1, Numbers DEF IInvOf, Types
    <2>2. /\ t \in State /\ t.m_freeStorage = self.m_freeStorage /\ t.m_nodes = Constructed.m_nodes
      <3>1. t = [Constructed EXCEPT !.m_freeStorage = self.m_freeStorage, !.m_freeOffset = 0]
        OBVIOUS
      <3>2. self.m_freeStorage \in Int
        BY <2>1
      <3> HIDE DEF t
      <3> QED BY ONLY <1>3, <2>1, <3>1, <3>2 DEF State
    <2>3. Types(t)
      BY <1>3, <2>1, <2>2 DEF Types
    <2> HIDE DEF t
    <2>4. IInvOf(t, has_arrays', crashed', live')
      BY <1>1, <1>6, <2>2, <2>3 DEF IInvOf, MoveAway
    <2>5. self' = t
      BY <1>6 DEF MoveAway, t
    <2> QED BY <2>4, <2>5, IInvIs
  <1> QED BY <1>4, <1>5, <1>6

\* What allocate does, in a state with its places.
LEMMA AllocateSteps ==
  ASSUME NEW list, Sound, Good(self, live, list), NEW size \in Requests, AllocateTakes(size)
  PROVE  LET n == self.m_binIndices[FindBin(self, size)]
             x == [offset |-> OffsetOf(self)[n], len |-> size, node |-> n]
         IN  \/ /\ crashed' = FALSE /\ live' = live \cup {x}
                /\ n \in Nodes /\ list[n] \in Bins
                /\ size \in 0..Size /\ size <= SizeOf(self)[n]
                /\ Placed(self', live \cup {x})
             \/ /\ crashed' = TRUE /\ live' = live
                /\ self' \in State /\ Types(self')
  <1> DEFINE bin    == FindBin(self, size)
             n      == self.m_binIndices[bin]
             total  == self.m_nodes[n].dataSize
             offset == self.m_nodes[n].dataOffset
             popped == PopNode(self, bin, size)
             new    == SpareNode(popped)
             rest   == insertNodeIntoBin(popped, total - size, offset + size)
             right  == rest.m_neighbors[n].next
             linked == [SetLeft(rest.m_neighbors, right, new) EXCEPT
                          ![new] = [prev |-> n, next |-> right], ![n].next = new]
             x      == [offset |-> OffsetOf(self)[n], len |-> size, node |-> n]
  <1>1. size \in 0..MaxSize
    BY OffsetAssumption
  <1>2. /\ bin # NO_SPACE
        /\ crashed' = (total > size /\ new = NIL)
        /\ self' = CASE total = size              -> popped
                     [] total > size /\ new = NIL -> rest
                     [] OTHER -> [rest EXCEPT !.m_neighbors = linked]
        /\ live' = IF crashed' THEN live
                   ELSE live \cup {[offset |-> offset, len |-> size, node |-> n]}
    BY DEF AllocateTakes
  <1>3. Good(self, live, list)
    OBVIOUS
  <1>4. bin = FindBin(self, size) /\ n = self.m_binIndices[bin]
    OBVIOUS
  <1> HIDE DEF bin, n, x, linked, right, rest, new, popped
  <1>5. /\ bin \in Bins /\ n \in Nodes /\ n # NIL /\ list[n] = bin
        /\ size <= SizeOf(self)[n] /\ size \in 0..Size
    BY ONLY <1>1, <1>2, <1>3, <1>4, AllocateFinds
  <1>6. total = SizeOf(self)[n] /\ offset = OffsetOf(self)[n]
    BY ONLY <1>5 DEF SizeOf, OffsetOf
  <1>7. SizeOf(self)[n] \in 0..Size
    BY ONLY <1>3, <1>5, GoodTypes
  <1> HIDE DEF total, offset
  <1>8. x = [offset |-> OffsetOf(self)[n], len |-> size, node |-> n] /\ popped = PopNode(self, bin, size)
    BY DEF x, popped
  <1>9. CASE total = size
    <2>1. crashed' = FALSE /\ live' = live \cup {x} /\ self' = popped
      <3>1. ~(total > size)
        BY ONLY <1>5, <1>9
      <3> QED BY ONLY <1>2, <1>6, <1>9, <3>1 DEF x
    <2>2. size = SizeOf(self)[n]
      BY ONLY <1>6, <1>9
    <2>3. Placed(popped, live \cup {x})
      BY ONLY <1>3, <1>4, <1>5, <1>8, <2>2, AllocateExact
    <2>4. Placed(self', live \cup {x})
      BY ONLY <2>1, <2>3
    <2> QED BY <1>5, <2>1, <2>4 DEF bin, n, x
  <1>10. CASE total # size
    <2>1. total > size
      BY ONLY <1>5, <1>6, <1>7, <1>10, Numbers
    <2>2. rest = insertNodeIntoBin(popped, SizeOf(self)[n] - size, OffsetOf(self)[n] + size)
      BY ONLY <1>6 DEF rest
    <2>3. CASE new = NIL
      <3>1. crashed' = TRUE /\ live' = live /\ self' = rest
        BY ONLY <1>2, <1>10, <2>1, <2>3
      <3>2. SpareNode(popped) = NIL
        BY <2>3 DEF new
      <3>3. rest \in State /\ Types(rest)
        BY ONLY <1>3, <1>4, <1>5, <1>8, <2>2, <3>2, AllocateCrash
      <3>4. self' \in State /\ Types(self')
        <4>1. PICK t : t = self'
          OBVIOUS
        <4>2. t \in State /\ Types(t)
          BY ONLY <3>1, <3>3, <4>1
        <4> QED BY ONLY <4>1, <4>2 DEF Types
      <3> QED BY <3>1, <3>4
    <2>4. CASE new # NIL
      <3> DEFINE t == [rest EXCEPT !.m_neighbors = linked]
      <3>1. crashed' = FALSE /\ live' = live \cup {x} /\ self' = t
        BY ONLY <1>2, <1>6, <1>10, <2>1, <2>4 DEF x
      <3>2. right = RightOf(rest)[n]
        BY ONLY <1>5 DEF right, RightOf
      <3>3. linked = SplitNeighbors(rest.m_neighbors, n, new, right)
        BY DEF linked, SplitNeighbors
      <3>4. t = WithNeighbors(rest, linked) /\ new = SpareNode(popped)
        BY DEF new, WithNeighbors
      <3> HIDE DEF t
      <3>5. Placed(t, live \cup {x})
        BY ONLY <1>3, <1>4, <1>5, <1>8, <2>2, <2>4, <3>2, <3>3, <3>4, AllocateSplit, ZenonT(60)
      <3>6. Placed(self', live \cup {x})
        BY ONLY <3>1, <3>5
      <3> QED BY <1>5, <3>1, <3>6 DEF bin, n, x
    <2> QED BY <2>3, <2>4
  <1> QED BY <1>9, <1>10

LEMMA FreeSteps ==
  ASSUME NEW list, Good(self, live, list), NEW x \in live, Free(x)
  PROVE  /\ has_arrays' = TRUE /\ crashed' = FALSE /\ live' = live \ {x}
         /\ Placed(self', live \ {x})
  <1>1. /\ has_arrays /\ has_arrays' = has_arrays /\ ~crashed /\ crashed' = crashed
        /\ self' = AfterFree(self, x.node) /\ live' = live \ {x}
    BY DEF Free, AfterFree, WithNeighbors, JoinedNeighbors
  <1>2. Good(self, live, list) /\ x \in live
    OBVIOUS
  <1>3. PICK t : t = AfterFree(self, x.node)
    OBVIOUS
  <1>4. Placed(t, live \ {x})
    BY ONLY <1>2, <1>3, FreeKeeps
  <1>5. Placed(self', live \ {x})
    BY ONLY <1>1, <1>3, <1>4
  <1> QED BY <1>1, <1>5

LEMMA Invariant_Next == IInv /\ [Next]_vars => IInv'
  <1> SUFFICES ASSUME IInv, [Next]_vars PROVE IInv'
    OBVIOUS
  <1>1. IInvOf(self, has_arrays, crashed, live)
    BY IInvIs
  <1>2. CASE setup \/ reset \/ teardown \/ MoveAway \/ Destroy
    BY <1>2, Invariant_Lifetime
  <1>3. CASE UNCHANGED vars
    <2>1. IInvOf(self', has_arrays', crashed', live')
      BY <1>1, <1>3 DEF vars
    <2> QED BY <2>1, IInvIs
  <1>4. ASSUME NEW size \in Requests, AllocateTakes(size) PROVE IInv'
    <2>1. has_arrays = TRUE /\ crashed = FALSE /\ has_arrays' = TRUE
      BY <1>1, <1>4 DEF AllocateTakes, IInvOf
    <2>2. PICK list \in [Nodes -> Places] : Good(self, live, list)
      BY <1>1, <2>1 DEF IInvOf, Placed
    <2> DEFINE n == self.m_binIndices[FindBin(self, size)]
               x == [offset |-> OffsetOf(self)[n], len |-> size, node |-> n]
    <2>3. \/ crashed' = FALSE /\ live' = live \cup {x} /\ Placed(self', live \cup {x})
          \/ crashed' = TRUE /\ live' = live /\ self' \in State /\ Types(self')
      BY <1>4, <2>1, <2>2, AllocateSteps DEF Sound
    <2> HIDE DEF x, n
    <2>4. CASE crashed' = FALSE /\ live' = live \cup {x} /\ Placed(self', live \cup {x})
      <3>1. PICK t, blocks : t = self' /\ blocks = live'
        OBVIOUS
      <3>2. Placed(t, blocks)
        BY ONLY <2>4, <3>1
      <3>3. IInvOf(t, TRUE, FALSE, blocks)
        BY ONLY <3>2, GoodIs DEF Placed
      <3>4. IInvOf(self', has_arrays', crashed', live')
        BY ONLY <2>1, <2>4, <3>1, <3>3
      <3> QED BY ONLY <3>4, IInvIs
    <2>5. CASE crashed' = TRUE /\ live' = live /\ self' \in State /\ Types(self')
      <3>1. IInvOf(self', has_arrays', crashed', live')
        BY ONLY <1>1, <2>1, <2>5 DEF IInvOf
      <3> QED BY ONLY <3>1, IInvIs
    <2> QED BY ONLY <2>3, <2>4, <2>5
  <1>5. ASSUME NEW x \in live, Free(x) PROVE IInv'
    <2>1. has_arrays = TRUE /\ crashed = FALSE
      BY <1>1, <1>5 DEF Free, IInvOf
    <2>2. PICK list \in [Nodes -> Places] : Good(self, live, list)
      BY <1>1, <2>1 DEF IInvOf, Placed
    <2>3. /\ has_arrays' = TRUE /\ crashed' = FALSE /\ live' = live \ {x}
          /\ Placed(self', live \ {x})
      BY <1>5, <2>2, FreeSteps
    <2>4. PICK t, blocks : t = self' /\ blocks = live'
      OBVIOUS
    <2>5. Placed(t, blocks)
      BY ONLY <2>3, <2>4
    <2>6. IInvOf(t, TRUE, FALSE, blocks)
      BY ONLY <2>5, GoodIs DEF Placed
    <2>7. IInvOf(self', has_arrays', crashed', live')
      BY ONLY <2>3, <2>4, <2>6
    <2> QED BY ONLY <2>7, IInvIs
  <1> QED BY <1>2, <1>3, <1>4, <1>5
          DEF Next, AllocateOutOfAllocations, AllocateOutOfSpace, FreeIgnored

\* While the allocator has its arrays and never wrote outside them there is a place
\* for every node - a bin, the freelist, never used, or used - for which the links,
\* the bitmaps, the neighbours, the live allocations and m_freeStorage are as they
\* must be: the invariant the theorems below rest on.
THEOREM InvariantOfOffset == Spec => []IInv
  BY Invariant_Init, Invariant_Next, PTL DEF Spec

-----------------------------------------------------------------------------
(* What the invariant says of the nodes                                    *)

\* The lists and the live allocations are the places of the nodes.
LEMMA PlacesAre ==
  ASSUME NEW list, Good(self, live, list)
  PROVE  /\ \A b \in Bins : FreeIn(b) = {n \in Nodes : list[n] = b}
         /\ SpareNodes = {n \in Nodes : list[n] \in {SPARE, UNUSED}}
         /\ ListFrom(self.m_freeListHead) = {n \in Nodes : list[n] = SPARE}
         /\ FreeNodes = {n \in Nodes : list[n] \in Bins}
         /\ LiveNodes = {n \in Nodes : list[n] = USED}
         /\ FreeNodes \cup LiveNodes = TilesOf(list)
  <1>1. self \in State /\ Lists(self, list)
    BY DEF Good
  <1>2. \A l \in Heads : ListFrom(HeadOf(self)[l]) = {n \in Nodes : list[n] = l}
    BY ONLY <1>1, ListIs
  <1>3. /\ SPARE \in Heads /\ HeadOf(self)[SPARE] = self.m_freeListHead
        /\ \A b \in Bins : b \in Heads /\ HeadOf(self)[b] = self.m_binIndices[b]
    BY BinOf DEF Heads, HeadOf
  <1>4. \A b \in Bins : FreeIn(b) = {n \in Nodes : list[n] = b}
    BY ONLY <1>2, <1>3 DEF FreeIn
  <1>5. ListFrom(self.m_freeListHead) = {n \in Nodes : list[n] = SPARE}
    BY ONLY <1>2, <1>3
  <1>6. self.m_freeIndex..MaxAllocs-1 = {n \in Nodes : list[n] = UNUSED}
    <2>1. self.m_freeIndex \in 0..MaxAllocs /\ \A n \in Nodes : list[n] = UNUSED <=> self.m_freeIndex <= n
      BY <1>1 DEF State, Lists
    <2>2. self.m_freeIndex..MaxAllocs-1 = {n \in Nodes : self.m_freeIndex <= n}
      BY <2>1, Numbers
    <2> QED BY <2>1, <2>2
  <1>7. SpareNodes = {n \in Nodes : list[n] \in {SPARE, UNUSED}}
    BY ONLY <1>5, <1>6 DEF SpareNodes
  <1>8. FreeNodes = {n \in Nodes : list[n] \in Bins}
    BY ONLY <1>4 DEF FreeNodes
  <1>9. LiveNodes = {n \in Nodes : list[n] = USED}
    BY DEF LiveNodes, Good, LiveMatch
  <1> QED BY <1>4, <1>5, <1>7, <1>8, <1>9 DEF TilesOf

\* The links back match the links forth.
LEMMA LinksAre ==
  ASSUME NEW list, Good(self, live, list), NEW b \in Bins
  PROVE  ListCoherent(self.m_binIndices[b])
  <1> DEFINE head == self.m_binIndices[b]
             next == NextOf(self)
             prev == PrevOf(self)
             S    == {n \in Nodes : list[n] = b}
  <1>1. ListFrom(head) = S
    BY PlacesAre DEF FreeIn
  <1>2. b \in Heads /\ HeadOf(self)[b] = head
    BY BinOf DEF Heads, HeadOf
  <1>3. PICK rank \in [Nodes -> Int] : Linked(next, prev, HeadOf(self), list, rank)
    BY DEF Good, Lists, Linking, Linkable
  <1>4. \A n \in Nodes : self.m_nodes[n].binListPrev = prev[n] /\ self.m_nodes[n].binListNext = next[n]
    BY DEF NextOf, PrevOf
  <1> HIDE DEF head, next, prev
  <1>5. \A n \in S : NodeLinked(next, prev, HeadOf(self), list, rank, n)
    BY <1>2, <1>3 DEF Linked
  <1>6. ASSUME NEW n \in S PROVE prev[n] = NIL <=> n = head
    <2>1. prev[n] = NIL => n = head
      BY <1>2, <1>5 DEF NodeLinked
    <2>2. n = head => prev[n] = NIL
      BY <1>2, <1>3, Numbers DEF Linked
    <2> QED BY <2>1, <2>2
  <1>7. ASSUME NEW n \in S, NEW m \in S PROVE prev[m] = n <=> next[n] = m
    <2>1. n # NIL /\ m # NIL
      BY Numbers
    <2>2. prev[m] = n => next[n] = m
      BY <1>5, <2>1 DEF NodeLinked
    <2>3. next[n] = m => prev[m] = n
      BY <1>5, <2>1 DEF NodeLinked
    <2> QED BY <2>2, <2>3
  <1>8. ListCoherent(head)
    BY <1>1, <1>4, <1>6, <1>7 DEF ListCoherent
  <1> QED BY <1>8 DEF head

LEMMA BinsAre ==
  ASSUME NEW list, Good(self, live, list)
  PROVE  /\ \A b \in Bins : self.m_binIndices[b] # NIL <=> FreeIn(b) # {}
         /\ self.m_usedBins = {b \in Bins : FreeIn(b) # {}}
         /\ self.m_usedBinsTop = {TopOf(b) : b \in self.m_usedBins}
         /\ \A n \in FreeNodes : /\ SizeOf(self)[n] \in 0..Size
                                 /\ U32ToF32RoundDown(SizeOf(self)[n]) \in self.m_usedBins
         /\ \A b \in Bins : \A n \in FreeIn(b) :
              /\ n \in FreeNodes /\ U32ToF32RoundDown(SizeOf(self)[n]) = b
  <1>1. /\ \A b \in Bins : FreeIn(b) = {n \in Nodes : list[n] = b}
        /\ FreeNodes = {n \in Nodes : list[n] \in Bins}
    BY PlacesAre
  <1>2. self \in State /\ Lists(self, list) /\ Bitmaps(self)
    BY DEF Good
  <1>3. ASSUME NEW b \in Bins PROVE self.m_binIndices[b] # NIL <=> FreeIn(b) # {}
    <2>1. self.m_binIndices[b] = NIL => FreeIn(b) = {}
      BY DEF FreeIn, ListFrom
    <2>2. ASSUME self.m_binIndices[b] # NIL PROVE FreeIn(b) # {}
      <3>1. b \in Heads /\ HeadOf(self)[b] = self.m_binIndices[b]
        BY BinOf DEF Heads, HeadOf
      <3>2. self.m_binIndices[b] \in Nodes /\ list[self.m_binIndices[b]] = b
        BY <1>2, <2>2, <3>1, HeadFacts
      <3> QED BY <1>1, <3>2
    <2> QED BY <2>1, <2>2
  <1>4. /\ self.m_usedBins = {b \in Bins : FreeIn(b) # {}}
        /\ self.m_usedBinsTop = {TopOf(b) : b \in self.m_usedBins}
    BY <1>2, <1>3 DEF Bitmaps
  <1>5. \A n \in Nodes : list[n] \in Bins => /\ SizeOf(self)[n] \in 0..Size
                                             /\ U32ToF32RoundDown(SizeOf(self)[n]) = list[n]
    BY <1>2 DEF Lists
  <1> QED BY <1>1, <1>3, <1>4, <1>5

\* Every node is in exactly one place, and the bins and bitmaps agree with the lists.
LEMMA GoodAccounts ==
  ASSUME NEW list, Good(self, live, list)
  PROVE  NodesPartitioned /\ BinsCoherent
  <1>1. /\ \A b \in Bins : FreeIn(b) = {n \in Nodes : list[n] = b}
        /\ SpareNodes = {n \in Nodes : list[n] \in {SPARE, UNUSED}}
        /\ FreeNodes = {n \in Nodes : list[n] \in Bins}
        /\ LiveNodes = {n \in Nodes : list[n] = USED}
    BY PlacesAre
  <1>2. /\ list \in [Nodes -> Places] /\ \A n \in Nodes : list[n] # LIMBO
        /\ self.m_nodeUsed = {n \in Nodes : list[n] = USED}
    BY DEF Good, Lists
  <1>3. /\ SPARE \notin Bins /\ UNUSED \notin Bins /\ USED \notin Bins
        /\ SPARE # USED /\ UNUSED # USED
    BY BinOf DEF Heads, SPARE, UNUSED, USED
  <1>4. \A x, y \in live : x.node = y.node => x = y
    BY LiveApart
  <1>5. SpareNodes \cup FreeNodes \cup LiveNodes = Nodes
    BY <1>1, <1>2 DEF Places, Heads
  <1>6. NodesPartitioned
    BY <1>1, <1>2, <1>3, <1>4, <1>5 DEF NodesPartitioned
  <1>7. \A b \in Bins : ListCoherent(self.m_binIndices[b])
    BY LinksAre
  <1>8. \A b \in Bins : \A n \in FreeIn(b) : U32ToF32RoundDown(self.m_nodes[n].dataSize) = b
    BY <1>1, BinsAre DEF SizeOf
  <1>9. BinsCoherent
    BY <1>7, <1>8, BinsAre DEF BinsCoherent
  <1> QED BY <1>6, <1>9

\* The nodes tile the range, and no two free ones are neighbours.
LEMMA GoodTiles ==
  ASSUME NEW list, Good(self, live, list)
  PROVE  NeighborsTile /\ Coalesced
  <1> DEFINE T     == TilesOf(list)
             off   == OffsetOf(self)
             size  == SizeOf(self)
             left  == LeftOf(self)
             right == RightOf(self)
  <1>1. /\ FreeNodes = {n \in Nodes : list[n] \in Bins} /\ FreeNodes \cup LiveNodes = T
        /\ T \subseteq Nodes
    BY PlacesAre DEF TilesOf
  <1>2. \A n \in Nodes : /\ self.m_neighbors[n].prev = left[n] /\ self.m_neighbors[n].next = right[n]
                         /\ self.m_nodes[n].dataOffset = off[n] /\ self.m_nodes[n].dataSize = size[n]
                         /\ EndOf(n) = off[n] + size[n]
    BY DEF EndOf, OffsetOf, SizeOf, LeftOf, RightOf
  <1>3. Tiled(T, off, size, left, right)
    BY DEF Good, Tiling2
  <1>4. \A n \in Nodes : list[n] \in Bins /\ right[n] # NIL => list[right[n]] \notin Bins
    BY DEF Good, Merged
  <1>5. live = {} => \A n \in T : list[n] \in Bins
    BY DEF Good, LiveMatch, TilesOf
  <1> HIDE DEF T, off, size, left, right
  <1>6. /\ T # {}
        /\ \A n \in T :
             /\ off[n] \in Nat /\ size[n] \in Nat
             /\ right[n] # NIL => /\ right[n] \in T /\ left[right[n]] = n
                                  /\ off[right[n]] = off[n] + size[n]
             /\ right[n] = NIL => off[n] + size[n] = Size
             /\ left[n] # NIL => left[n] \in T /\ right[left[n]] = n
             /\ left[n] = NIL => off[n] = 0
        /\ \A m, n \in T : left[m] = NIL /\ left[n] = NIL => m = n
        /\ \A m, n \in T : left[n] = NIL /\ right[n] = NIL => m = n
    BY ONLY <1>3, TileFacts
  <1>7. NeighborsTile
    BY ONLY <1>1, <1>2, <1>6 DEF NeighborsTile
  <1>8. \A n \in FreeNodes : right[n] \notin FreeNodes
    BY ONLY <1>1, <1>4, Numbers
  <1>9. ASSUME live = {} PROVE \E n \in Nodes : FreeNodes = {n} /\ size[n] = Size
    <2>1. PICK n \in T : TRUE
      BY ONLY <1>6
    <2>2. T = FreeNodes /\ n \in Nodes
      BY ONLY <1>1, <1>5, <1>9, <2>1
    <2>3. right[n] = NIL
      BY ONLY <1>6, <1>8, <2>1, <2>2
    <2>4. left[n] = NIL
      BY ONLY <1>6, <1>8, <2>1, <2>2
    <2>5. FreeNodes = {n}
      BY ONLY <1>6, <2>1, <2>2, <2>3, <2>4
    <2>6. size[n] = Size
      BY ONLY <1>6, <2>1, <2>3, <2>4, Numbers
    <2> QED BY ONLY <2>2, <2>5, <2>6
  <1>10. Coalesced
    BY ONLY <1>1, <1>2, <1>8, <1>9 DEF Coalesced
  <1> QED BY <1>7, <1>10

\* What a bin serves is a number.
LEMMA BinForTypes ==
  ASSUME NEW size \in 0..MaxSize
  PROVE  BinFor(size) \in Nat /\ F32ToU32(BinFor(size)) \in Nat
  <1>1. PICK s, q \in Nat : HasForm(size, s, q)
    BY FormExists
  <1>2. MantissaValue \in Nat
    BY Mantissa
  <1> DEFINE r == IF Power[s] * q = size THEN q ELSE q + 1
  <1>3. /\ s \in 0..30 /\ r \in Nat /\ r <= 2 * MantissaValue /\ (s = 0 \/ MantissaValue <= r)
        /\ BinFor(size) = s * MantissaValue + r
    <2>1. /\ s \in 0..30 /\ q \in Nat /\ q < 2 * MantissaValue /\ (s = 0 \/ MantissaValue <= q)
          /\ BinFor(size) = s * MantissaValue + q + (IF Power[s] * q = size THEN 0 ELSE 1)
      BY <1>1 DEF HasForm, BinFor
    <2>2. s * MantissaValue \in Nat
      BY <1>2, <2>1
    <2> QED BY <1>2, <2>1, <2>2
  <1> HIDE DEF r
  <1>4. F32ToU32(BinFor(size)) = Power[s] * r
    BY <1>3, FloatValue
  <1>5. Power[s] \in Nat
    BY <1>3, PowerDoubles
  <1> QED BY <1>2, <1>3, <1>4, <1>5

\* The search is a good fit.
LEMMA GoodSearch ==
  ASSUME NEW list, Good(self, live, list)
  PROVE  SearchIsGoodFit
  <1> DEFINE sizeOf == SizeOf(self)
  <1>1. self \in State /\ Bitmaps(self)
    BY DEF Good
  <1>2. \A n \in FreeNodes : self.m_nodes[n].dataSize = sizeOf[n] /\ n \in Nodes
    BY PlacesAre DEF SizeOf
  <1>3. /\ \A b \in Bins : self.m_binIndices[b] # NIL <=> FreeIn(b) # {}
        /\ self.m_usedBins = {b \in Bins : FreeIn(b) # {}}
        /\ \A n \in FreeNodes : /\ sizeOf[n] \in 0..Size
                                /\ U32ToF32RoundDown(sizeOf[n]) \in self.m_usedBins
        /\ \A b \in Bins : \A n \in FreeIn(b) :
             n \in FreeNodes /\ U32ToF32RoundDown(sizeOf[n]) = b
    BY BinsAre
  <1> HIDE DEF sizeOf
  <1>4. ASSUME NEW size \in Requests
        PROVE  LET bin == FindBin(self, size)
               IN  IF bin = NO_SPACE
                   THEN \A n \in FreeNodes : self.m_nodes[n].dataSize < F32ToU32(BinFor(size))
                   ELSE /\ self.m_binIndices[bin] # NIL
                        /\ \A n \in FreeIn(bin) : self.m_nodes[n].dataSize >= size
                        /\ \A n \in FreeNodes :
                             self.m_nodes[n].dataSize >= F32ToU32(BinFor(size))
                               => U32ToF32RoundDown(self.m_nodes[n].dataSize) >= bin
    <2>1. size \in 0..MaxSize /\ size \in Int
      BY OffsetAssumption
    <2>2. PICK bin : bin = FindBin(self, size)
      OBVIOUS
    <2>3. BinFor(size) \in Nat /\ F32ToU32(BinFor(size)) \in Nat
      BY ONLY <2>1, BinForTypes
    <2>4. \/ /\ bin = NO_SPACE /\ \A b \in self.m_usedBins : b < BinFor(size)
          \/ /\ bin \in self.m_usedBins /\ BinFor(size) <= bin
             /\ \A b \in self.m_usedBins : BinFor(size) <= b => bin <= b
      BY ONLY <1>1, <2>1, <2>2, FindBinIs
    <2>5. ASSUME NEW n \in FreeNodes
          PROVE  /\ sizeOf[n] \in Int /\ U32ToF32RoundDown(sizeOf[n]) \in self.m_usedBins
                 /\ U32ToF32RoundDown(sizeOf[n]) \in Int
                 /\ U32ToF32RoundDown(sizeOf[n]) < BinFor(size) => sizeOf[n] < F32ToU32(BinFor(size))
                 /\ BinFor(size) <= U32ToF32RoundDown(sizeOf[n]) => size <= sizeOf[n]
      <3>1. sizeOf[n] \in 0..Size /\ U32ToF32RoundDown(sizeOf[n]) \in self.m_usedBins
        BY ONLY <1>3, <2>5
      <3>2. sizeOf[n] \in 0..MaxSize /\ sizeOf[n] \in Int
        BY ONLY <3>1, Numbers
      <3>3. U32ToF32RoundDown(sizeOf[n]) < BinFor(size) => sizeOf[n] < F32ToU32(BinFor(size))
        BY ONLY <2>1, <3>2, RoundUpIsTight DEF BinFor
      <3>4. BinFor(size) <= U32ToF32RoundDown(sizeOf[n]) => size <= sizeOf[n]
        BY ONLY <2>1, <3>2, RoundUpServes DEF BinFor
      <3>5. U32ToF32RoundDown(sizeOf[n]) \in Int
        <4>1. U32ToF32RoundDown(sizeOf[n]) \in Bins
          BY ONLY <1>3, <3>1
        <4>2. \A b \in Bins : b \in Int
          BY BinOf
        <4> QED BY ONLY <4>1, <4>2
      <3> QED BY ONLY <3>1, <3>2, <3>3, <3>4, <3>5
    <2>6. CASE bin = NO_SPACE
      <3>1. NO_SPACE \notin self.m_usedBins
        BY ONLY <1>3, BinOf DEF NO_SPACE
      <3>2. \A n \in FreeNodes : sizeOf[n] < F32ToU32(BinFor(size))
        BY ONLY <2>4, <2>5, <2>6, <3>1
      <3> QED BY ONLY <1>2, <2>2, <2>6, <3>2
    <2>7. CASE bin # NO_SPACE
      <3>1. bin \in Bins /\ FreeIn(bin) # {} /\ bin \in Int
        <4>1. bin \in Bins /\ FreeIn(bin) # {}
          BY ONLY <1>3, <2>4, <2>7
        <4>2. \A b \in Bins : b \in Int
          BY BinOf
        <4> QED BY ONLY <4>1, <4>2
      <3>2. self.m_binIndices[bin] # NIL
        BY ONLY <1>3, <3>1
      <3>3. \A n \in FreeIn(bin) : n \in FreeNodes /\ sizeOf[n] >= size
        BY ONLY <1>3, <2>1, <2>4, <2>5, <2>7, <3>1
      <3>4. \A n \in FreeNodes : sizeOf[n] >= F32ToU32(BinFor(size)) => U32ToF32RoundDown(sizeOf[n]) >= bin
        BY ONLY <2>3, <2>4, <2>5, <2>7, <3>1
      <3> QED BY ONLY <1>2, <2>2, <2>7, <3>2, <3>3, <3>4
    <2> QED BY <2>6, <2>7
  <1> QED BY <1>4 DEF SearchIsGoodFit

-----------------------------------------------------------------------------
(* The theorems                                                            *)

LEMMA SoundHasPlaces ==
  ASSUME IInv, Sound
  PROVE  \E list : Good(self, live, list)
  BY DEF IInv, Placed

\* Over any sequence of setup, allocate, free, reset, moves and teardown every node
\* of m_nodes is spare, free in the list of one bin or that of one live allocation,
\* the lists and the bitmaps agree, and no number or link leaves its range.
THEOREM OffsetNodesAccounted == Spec => []NodesAccounted
  <1>1. IInv => NodesAccounted
    <2>1. IInv /\ Sound => NodesPartitioned /\ BinsCoherent
      BY SoundHasPlaces, GoodAccounts
    <2>2. IInv => TypeOK
      BY DEF IInv
    <2>3. ~Sound => NodesPartitioned /\ BinsCoherent
      BY DEF NodesPartitioned, BinsCoherent
    <2> QED BY <2>1, <2>2, <2>3 DEF NodesAccounted
  <1> QED BY <1>1, InvariantOfOffset, PTL

\* From neighbour to neighbour the free and the live nodes tile the range without a
\* gap or an overlap, and free leaves no two free nodes side by side.
THEOREM OffsetTiling == Spec => []Tiling
  <1>1. IInv => Tiling
    <2>1. IInv /\ Sound => NeighborsTile /\ Coalesced
      BY SoundHasPlaces, GoodTiles
    <2>2. ~Sound => NeighborsTile /\ Coalesced
      BY DEF NeighborsTile, Coalesced
    <2> QED BY <2>1, <2>2 DEF Tiling
  <1> QED BY <1>1, InvariantOfOffset, PTL

\* What allocate finds over the bitmaps is a region that is large enough, and when it
\* finds none, none is in a bin that serves the size.
THEOREM OffsetSearchIsGoodFit == Spec => []SearchIsGoodFit
  <1>1. IInv => SearchIsGoodFit
    <2>1. IInv /\ Sound => SearchIsGoodFit
      BY SoundHasPlaces, GoodSearch
    <2>2. ~Sound => SearchIsGoodFit
      BY DEF SearchIsGoodFit
    <2> QED BY <2>1, <2>2
  <1> QED BY <1>1, InvariantOfOffset, PTL

RegionOf(x) == [ptr |-> x.offset, len |-> x.len]
LiveRegions == {RegionOf(x) : x \in live}

\* A new allocation is a region apart from those of the others.
LEMMA AllocateRefines ==
  ASSUME IInv, NEW size \in Requests, AllocateTakes(size)
  PROVE  [Regions!Next]_LiveRegions
  <1>1. Sound
    BY DEF AllocateTakes, Sound
  <1>2. PICK list : Good(self, live, list)
    BY <1>1, SoundHasPlaces
  <1> DEFINE n == self.m_binIndices[FindBin(self, size)]
             x == [offset |-> OffsetOf(self)[n], len |-> size, node |-> n]
  <1>3. \/ live' = live \cup {x} /\ n \in Nodes /\ list[n] \in Bins /\ Placed(self', live \cup {x})
        \/ live' = live
    BY <1>1, <1>2, AllocateSteps
  <1>4. x.node = n
    OBVIOUS
  <1>5. PICK y : y = x
    OBVIOUS
  <1> HIDE DEF x
  <1>6. CASE live' = live
    <2>1. LiveRegions' = LiveRegions
      BY <1>6 DEF LiveRegions
    <2> QED BY <2>1
  <1>7. CASE live' = live \cup {x} /\ n \in Nodes /\ list[n] \in Bins /\ Placed(self', live \cup {x})
    <2>1. \A z \in live : z.node \in Nodes /\ list[z.node] = USED
      BY <1>2 DEF Good, LiveMatch
    <2>2. y \notin live
      <3>1. USED \notin Bins
        BY BinOf DEF USED, Heads
      <3> QED BY <1>4, <1>5, <1>7, <2>1, <3>1
    <2>3. PICK blocks : blocks = live \cup {y}
      OBVIOUS
    <2>4. PICK t, list2 : Good(t, blocks, list2)
      BY <1>5, <1>7, <2>3 DEF Placed
    <2>5. /\ y.offset \in 0..Size /\ y.len \in 0..Size
          /\ y.offset + y.len <= Size
          /\ \A z \in live : y.offset + y.len <= z.offset \/ z.offset + z.len <= y.offset
      <3>1. /\ \A z \in blocks : /\ z \in [offset : 0..Size, len : 0..Size, node : Nodes]
                                 /\ z.offset + z.len <= Size
            /\ \A w, z \in blocks : w # z => w.offset + w.len <= z.offset \/ z.offset + z.len <= w.offset
        BY <2>4, LiveApart
      <3> QED BY <2>2, <2>3, <3>1
    <2>6. LiveRegions' = LiveRegions \cup {RegionOf(y)}
      BY <1>5, <1>7 DEF LiveRegions
    <2>7. RegionOf(y) \in Regions!Region /\ Regions!InRange(RegionOf(y))
      BY <2>5 DEF RegionOf, Regions!Region, Regions!InRange
    <2>8. \A r \in LiveRegions : Regions!Apart(RegionOf(y), r)
      BY <2>5 DEF LiveRegions, RegionOf, Regions!Apart
    <2>9. \E r \in LiveRegions' : /\ r \in Regions!Region /\ Regions!InRange(r)
                                  /\ \A s \in LiveRegions : Regions!Apart(r, s)
                                  /\ LiveRegions' = LiveRegions \cup {r}
      <3>1. RegionOf(y) \in LiveRegions'
        BY <2>6
      <3> QED BY <2>6, <2>7, <2>8, <3>1
    <2> QED BY <2>9 DEF Regions!Next, Regions!Allocate, LiveRegions, RegionOf
  <1> QED BY <1>3, <1>6, <1>7

\* Every other step gives live allocations back or none.
LEMMA OthersRelease ==
  ASSUME live' \subseteq live
  PROVE  [Regions!Next]_LiveRegions
  BY DEF Regions!Next, Regions!Release, LiveRegions, RegionOf

LEMMA RefinesNext == IInv /\ [Next]_vars => [Regions!Next]_LiveRegions
  <1> SUFFICES ASSUME IInv, [Next]_vars PROVE [Regions!Next]_LiveRegions
    OBVIOUS
  <1>1. CASE \E size \in Requests : AllocateTakes(size)
    BY <1>1, AllocateRefines
  <1>2. CASE setup \/ reset \/ teardown \/ MoveAway \/ Destroy
    BY <1>2, OthersRelease DEF setup, reset, teardown, MoveAway, Destroy
  <1>3. ASSUME NEW x \in live, Free(x) PROVE [Regions!Next]_LiveRegions
    <2>1. live' \subseteq live
      BY <1>3 DEF Free
    <2> QED BY <2>1, OthersRelease
  <1>4. CASE UNCHANGED vars
    BY <1>4, OthersRelease DEF vars
  <1> QED BY <1>1, <1>2, <1>3, <1>4
          DEF Next, AllocateOutOfAllocations, AllocateOutOfSpace, FreeIgnored

\* The offset allocator implements the promise of every allocator here: an allocation
\* is a new region inside the range, apart from all that are live.
THEOREM OffsetImplementsRegions == Spec => ImplementsRegions
  <1>1. Init => Regions!Init
    BY DEF Init, Regions!Init
  <1>2. IInv /\ [Next]_vars => [Regions!Next]_LiveRegions
    BY RefinesNext
  <1> QED BY <1>1, <1>2, InvariantOfOffset, PTL
          DEF Spec, ImplementsRegions, Regions!Spec, LiveRegions, RegionOf

=============================================================================
