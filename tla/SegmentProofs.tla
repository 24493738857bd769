---------------------------- MODULE SegmentProofs ----------------------------
(***************************************************************************)
(* Proofs about Segment, for every geometry GeometryAssumption allows:     *)
(* the binmaps stay coherent and no two blocks ever share a unit;          *)
(* deallocate merges as far as it can, and allocate reports that it has no *)
(* block only when every block of the size is in use or lost; every step   *)
(* keeps the owners of all units, except for the merge of two blocks of    *)
(* the maximum size, which loses them.                                     *)
(***************************************************************************)
EXTENDS Segment, Arithmetic, FiniteSetTheorems, TLAPS

-----------------------------------------------------------------------------
(* Arithmetic of words and sizes                                           *)

LEMMA WordNat ==
  ASSUME NEW b \in Nat
  PROVE  Word(b) \in Nat
  BY DivFacts, GeometryAssumption DEF Word

\* A pair of bits that starts at an even bit lies in one word.
LEMMA WordPair ==
  ASSUME NEW b \in Nat
  PROVE  Word(2*b + 1) = Word(2*b)
  <1> DEFINE q == (2*b) \div WordBits
             h == WordBits \div 2
  <1>1. q \in Nat /\ WordBits * q <= 2*b /\ 2*b < WordBits * q + WordBits
    BY DivFacts, GeometryAssumption
  <1>2. h \in Nat /\ WordBits = 2 * h /\ WordBits \in Nat \ {0}
    BY GeometryAssumption, SMT
  <1> HIDE DEF q, h
  <1>3. WordBits * q = 2 * (h * q)
    BY <1>1, <1>2, SMT
  <1>4. h * q \in Nat
    BY <1>1, <1>2, SMT
  <1>5. 2*b + 1 < WordBits * q + WordBits
    BY <1>1, <1>2, <1>3, <1>4, SMT
  <1>6. (2*b + 1) \div WordBits = q
    BY <1>1, <1>2, <1>5, DivUnique
  <1> QED BY <1>6 DEF q, Word

\* A bit below the size of a layer has its word below the size of the next
\* layer, whether that layer exists or not.
LEMMA WordBelow ==
  ASSUME NEW n \in Nat, n < WordBits \/ n % WordBits = 0,
         NEW b \in 0..n-1
  PROVE  IF Word(n) = 0 THEN Word(b) = 0 ELSE Word(b) \in 0..Word(n)-1
  <1>1. WordBits \in Nat \ {0}
    BY GeometryAssumption
  <1>2. CASE n < WordBits
    BY <1>1, <1>2, SMT DEF Word
  <1>3. CASE n % WordBits = 0
    BY <1>1, <1>3, SMT DEF Word
  <1> QED BY <1>2, <1>3

-----------------------------------------------------------------------------
(* Binmaps                                                                 *)

LEMMA LeastOfIn ==
  ASSUME NEW S \in SUBSET Nat, S # {}
  PROVE  LeastOf(S) \in S /\ \A y \in S : LeastOf(S) <= y
  BY LeastExists DEF LeastOf

\* The first set bit of a word that is not empty.
LEMMA LeastInWord ==
  ASSUME NEW S \in SUBSET Nat, NEW x \in S
  PROVE  /\ LeastOf(WordBitsOf(S, Word(x))) \in S
         /\ Word(LeastOf(WordBitsOf(S, Word(x)))) = Word(x)
  <1> DEFINE T == WordBitsOf(S, Word(x))
  <1>1. T \in SUBSET Nat /\ x \in T
    BY DEF WordBitsOf
  <1>2. LeastOf(T) \in T
    BY <1>1, LeastOfIn
  <1> QED BY <1>2 DEF WordBitsOf

\* The words of all the bits of a layer are all the bits of the next layer.
LEMMA AllWords ==
  ASSUME NEW n \in Nat, n < WordBits \/ n % WordBits = 0, Word(n) # 0
  PROVE  {Word(b) : b \in 0..n-1} = 0..Word(n)-1
  <1>1. WordBits \in Nat \ {0} /\ Word(n) \in Nat
    BY GeometryAssumption, WordNat
  <1>2. \A b \in 0..n-1 : Word(b) \in 0..Word(n)-1
    BY WordBelow
  <1>3. ASSUME NEW w \in 0..Word(n)-1
        PROVE  \E b \in 0..n-1 : w = Word(b)
    <2>1. w \in Nat /\ w + 1 <= Word(n)
      BY <1>1
    <2>2. w * WordBits \in Nat /\ Word(w * WordBits) = w
      BY <1>1, <2>1, DivExact, SMT DEF Word
    <2>3. (w + 1) * WordBits <= Word(n) * WordBits
      BY <1>1, <2>1, SMT
    <2>4. WordBits * Word(n) <= n
      BY <1>1, DivFacts DEF Word
    <2>5. w * WordBits < n
      BY <1>1, <2>1, <2>3, <2>4, SMT
    <2> QED BY <2>2, <2>5
  <1> QED BY <1>2, <1>3

\* Sizes for which the layers of a binmap fit each other.
GoodSize(n) ==
  /\ n \in Nat
  /\ n < WordBits \/ n % WordBits = 0
  /\ Word(n) < WordBits \/ Word(n) % WordBits = 0
  /\ Word(Word(n)) <= WordBits

\* Levels as they are between two calls of the binmap operations.
GoodLevel(level) ==
  /\ level \in Level
  /\ GoodSize(level.size)
  /\ level.bin0 \subseteq 0..level.size-1
  /\ LevelCoherent(level)

LEMMA WordOfZero == Word(0) = 0
  BY GeometryAssumption, SMT DEF Word

\* The words of a level's bits, and the words of those, are in range.
LEMMA WordsInRange ==
  ASSUME NEW n, GoodSize(n), NEW b \in 0..n-1
  PROVE  /\ Word(b) \in Nat /\ Word(Word(b)) \in Nat
         /\ Word(n) = 0 => Word(b) = 0
         /\ Word(n) # 0 => Word(b) \in 0..Word(n)-1
         /\ Word(Word(n)) = 0 => Word(Word(b)) = 0
         /\ Word(Word(Word(b))) = 0
  <1>1. n \in Nat /\ Word(n) \in Nat /\ Word(Word(n)) \in Nat /\ WordBits \in Nat \ {0}
    BY WordNat, GeometryAssumption DEF GoodSize
  <1>2. Word(b) \in Nat /\ Word(Word(b)) \in Nat
    BY <1>1, WordNat
  <1>3. /\ Word(n) = 0 => Word(b) = 0
        /\ Word(n) # 0 => Word(b) \in 0..Word(n)-1
    BY <1>1, WordBelow DEF GoodSize
  <1>4. CASE Word(n) = 0
    BY <1>2, <1>3, <1>4, WordOfZero
  <1>5. CASE Word(n) # 0
    <2>1. /\ Word(Word(n)) = 0 => Word(Word(b)) = 0
          /\ Word(Word(n)) # 0 => Word(Word(b)) \in 0..Word(Word(n))-1
      BY <1>1, <1>3, <1>5, WordBelow DEF GoodSize
    <2>2. Word(Word(b)) < WordBits
      BY <1>1, <1>2, <2>1 DEF GoodSize
    <2>3. Word(Word(Word(b))) = 0
      BY <1>1, <1>2, <2>2, SMT DEF Word
    <2> QED BY <1>2, <1>3, <1>5, <2>1, <2>3
  <1> QED BY <1>4, <1>5

\* find_bit finds a set bit if the level has one, and tells if it has none.
LEMMA FindBitFinds ==
  ASSUME NEW level, GoodLevel(level)
  PROVE  IF level.bin0 = {} THEN FindBit(level) = -1 ELSE FindBit(level) \in level.bin0
  <1> DEFINE n  == level.size
             w2 == IF HasBin2(level) THEN LeastOf(WordBitsOf(level.bin2, 0)) ELSE 0
             w1 == IF HasBin1(level) THEN LeastOf(WordBitsOf(level.bin1, w2)) ELSE 0
             bit == LeastOf(WordBitsOf(level.bin0, w1))
  <1>1. /\ level \in Level /\ GoodSize(n) /\ level.bin0 \subseteq 0..n-1
        /\ LevelCoherent(level) /\ n \in Nat
    BY DEF GoodLevel, GoodSize
  <1>2. IsFiniteSet(level.bin0)
    <2>1. IsFiniteSet(0..n-1)
      BY <1>1, FS_Interval
    <2> QED BY <1>1, <2>1, FS_Subset
  <1>3. level.count # 0 <=> level.bin0 # {}
    BY <1>1, <1>2, FS_EmptySet DEF LevelCoherent
  <1>4. ASSUME level.bin0 # {}
        PROVE  bit \in level.bin0
    <2>1. HasBin2(level) => HasBin1(level)
      BY WordOfZero DEF HasBin1, HasBin2
    <2>2. \A b \in level.bin0 : Word(b) \in Nat /\ Word(Word(b)) \in Nat
      BY <1>1, WordsInRange
    <2>3. level.bin0 \in SUBSET Nat
      BY <1>1
    <2>4. PICK a \in level.bin0 : TRUE
      BY <1>4
    <2>8. Word(Word(Word(a))) = 0
      BY <1>1, WordsInRange
    <2>9. HasBin2(level) \/ Word(Word(a)) = 0
      BY <1>1, WordsInRange DEF HasBin2
    <2>10. HasBin1(level) \/ Word(a) = 0
      BY <1>1, WordsInRange DEF HasBin1
    <2>5. CASE HasBin2(level)
      <3>1. HasBin1(level)
        BY <2>1, <2>5
      <3>2. level.bin1 = {Word(b) : b \in level.bin0} /\ level.bin2 = {Word(w) : w \in level.bin1}
        BY <1>1, <2>5, <3>1 DEF LevelCoherent
      <3>3. level.bin1 \in SUBSET Nat /\ level.bin2 \in SUBSET Nat
        BY <2>2, <3>2
      <3>4. Word(Word(a)) \in level.bin2
        BY <2>4, <3>2
      <3>5. w2 \in level.bin2
        BY <2>5, <2>8, <3>3, <3>4, LeastInWord
      <3> HIDE DEF w2
      <3>6. PICK v \in level.bin1 : Word(v) = w2
        BY <3>2, <3>5
      <3>7. w1 \in level.bin1
        BY <3>1, <3>3, <3>6, LeastInWord
      <3> HIDE DEF w1
      <3>8. PICK b \in level.bin0 : Word(b) = w1
        BY <3>2, <3>7
      <3> QED BY <2>3, <3>8, LeastInWord
    <2>6. CASE HasBin1(level) /\ ~HasBin2(level)
      <3>1. level.bin1 = {Word(b) : b \in level.bin0}
        BY <1>1, <2>6 DEF LevelCoherent
      <3>2. level.bin1 \in SUBSET Nat /\ Word(a) \in level.bin1 /\ Word(Word(a)) = 0
        BY <2>2, <2>6, <2>9, <3>1
      <3>3. w2 = 0
        BY <2>6
      <3> HIDE DEF w2
      <3>4. w1 \in level.bin1
        BY <2>6, <3>2, <3>3, LeastInWord
      <3> HIDE DEF w1
      <3>5. PICK b \in level.bin0 : Word(b) = w1
        BY <3>1, <3>4
      <3> QED BY <2>3, <3>5, LeastInWord
    <2>7. CASE ~HasBin1(level)
      <3>1. w1 = 0 /\ Word(a) = 0
        BY <2>7, <2>10
      <3> HIDE DEF w1
      <3> QED BY <2>3, <3>1, LeastInWord
    <2> QED BY <2>5, <2>6, <2>7
  <1>5. FindBit(level) = IF level.count # 0 /\ bit < n THEN bit ELSE -1
    BY DEF FindBit
  <1> HIDE DEF w1, w2, bit
  <1>6. bit \in level.bin0 => bit < n
    BY <1>1
  <1> QED BY <1>3, <1>4, <1>5, <1>6

\* The words that have a bit set, after one bit is cleared.
LEMMA WordsAfterClr ==
  ASSUME NEW S, NEW x \in S
  PROVE  {Word(b) : b \in S \ {x}} =
           IF WordBitsOf(S \ {x}, Word(x)) = {}
           THEN {Word(b) : b \in S} \ {Word(x)}
           ELSE {Word(b) : b \in S}
  <1>1. CASE WordBitsOf(S \ {x}, Word(x)) = {}
    <2>1. \A b \in S \ {x} : Word(b) # Word(x)
      BY <1>1 DEF WordBitsOf
    <2> QED BY <1>1, <2>1
  <1>2. CASE WordBitsOf(S \ {x}, Word(x)) # {}
    <2>1. PICK c \in S \ {x} : Word(c) = Word(x)
      BY <1>2 DEF WordBitsOf
    <2> QED BY <1>2, <2>1
  <1> QED BY <1>1, <1>2

\* The words that have a bit set, after bits of one word are set.
LEMMA WordsAfterSet ==
  ASSUME NEW S, NEW B, NEW x \in B, \A b \in B : Word(b) = Word(x)
  PROVE  {Word(b) : b \in S \cup B} =
           IF WordBitsOf(S, Word(x)) = {}
           THEN {Word(b) : b \in S} \cup {Word(x)}
           ELSE {Word(b) : b \in S}
  <1>1. {Word(b) : b \in S \cup B} = {Word(b) : b \in S} \cup {Word(x)}
    OBVIOUS
  <1>2. CASE WordBitsOf(S, Word(x)) # {}
    <2>1. PICK c \in S : Word(c) = Word(x)
      BY <1>2 DEF WordBitsOf
    <2> QED BY <1>1, <1>2, <2>1
  <1> QED BY <1>1, <1>2

LEMMA LevelFinite ==
  ASSUME NEW level, GoodLevel(level)
  PROVE  /\ IsFiniteSet(level.bin0)
         /\ level.bin0 \in SUBSET Nat
         /\ level.count = 0 <=> level.bin0 = {}
  <1>1. level.size \in Nat /\ level.bin0 \subseteq 0..level.size-1
    BY DEF GoodLevel, GoodSize
  <1>2. IsFiniteSet(0..level.size-1)
    BY <1>1, FS_Interval
  <1>3. IsFiniteSet(level.bin0) /\ level.bin0 \in SUBSET Nat
    BY <1>1, <1>2, FS_Subset
  <1> QED BY <1>3, FS_EmptySet DEF GoodLevel, LevelCoherent

\* clr_bit keeps the layers and the count of a level in step.
LEMMA ClrBitGood ==
  ASSUME NEW level, GoodLevel(level), NEW bit \in level.bin0
  PROVE  LET new == ClrBit(level, bit)
         IN  /\ GoodLevel(new)
             /\ new.size = level.size
             /\ new.bin0 = level.bin0 \ {bit}
  <1> DEFINE new == ClrBit(level, bit)
  <1>1. /\ level \in Level /\ GoodSize(level.size) /\ LevelCoherent(level)
        /\ level.bin0 \subseteq 0..level.size-1 /\ level.bin0 \in SUBSET Nat
        /\ IsFiniteSet(level.bin0)
    BY LevelFinite DEF GoodLevel
  <1>2. /\ new.size = level.size /\ new.bin0 = level.bin0 \ {bit}
        /\ new.count = level.count - 1
        /\ HasBin1(new) = HasBin1(level) /\ HasBin2(new) = HasBin2(level)
    BY <1>1 DEF ClrBit, Level, HasBin1, HasBin2
  <1>3. new.count = Cardinality(new.bin0) /\ new.count \in Nat
    <2>1. /\ Cardinality(new.bin0) = Cardinality(level.bin0) - 1
          /\ IsFiniteSet(new.bin0)
      BY <1>1, <1>2, FS_RemoveElement
    <2> QED BY <1>1, <1>2, <2>1, FS_CardinalityType DEF LevelCoherent
  <1>4. HasBin1(level) =>
          new.bin1 = IF WordBitsOf(level.bin0 \ {bit}, Word(bit)) = {}
                     THEN level.bin1 \ {Word(bit)} ELSE level.bin1
    BY <1>1 DEF ClrBit, Level
  <1>5. HasBin1(level) => new.bin1 = {Word(b) : b \in new.bin0}
    <2> SUFFICES ASSUME HasBin1(level) PROVE new.bin1 = {Word(b) : b \in new.bin0}
      OBVIOUS
    <2>1. level.bin1 = {Word(b) : b \in level.bin0}
      BY <1>1 DEF LevelCoherent
    <2>2. {Word(b) : b \in level.bin0 \ {bit}} =
            IF WordBitsOf(level.bin0 \ {bit}, Word(bit)) = {}
            THEN {Word(b) : b \in level.bin0} \ {Word(bit)}
            ELSE {Word(b) : b \in level.bin0}
      BY WordsAfterClr
    <2> QED BY <1>2, <1>4, <2>1, <2>2, Zenon
  <1>6. HasBin2(level) => new.bin2 = {Word(w) : w \in new.bin1}
    <2> SUFFICES ASSUME HasBin2(level) PROVE new.bin2 = {Word(w) : w \in new.bin1}
      OBVIOUS
    <2>1. HasBin1(level)
      BY WordOfZero DEF HasBin1, HasBin2
    <2>2. /\ level.bin1 = {Word(b) : b \in level.bin0}
          /\ level.bin2 = {Word(w) : w \in level.bin1}
          /\ Word(bit) \in level.bin1
      BY <1>1, <2>1 DEF LevelCoherent
    <2>3. CASE WordBitsOf(level.bin0 \ {bit}, Word(bit)) = {}
      <3>1. new.bin1 = level.bin1 \ {Word(bit)}
        BY <1>4, <2>1, <2>3
      <3>2. new.bin2 = IF WordBitsOf(level.bin1 \ {Word(bit)}, Word(Word(bit))) = {}
                       THEN level.bin2 \ {Word(Word(bit))} ELSE level.bin2
        BY <1>1, <2>1, <2>3 DEF ClrBit, Level
      <3>3. {Word(w) : w \in level.bin1 \ {Word(bit)}} =
              IF WordBitsOf(level.bin1 \ {Word(bit)}, Word(Word(bit))) = {}
              THEN {Word(w) : w \in level.bin1} \ {Word(Word(bit))}
              ELSE {Word(w) : w \in level.bin1}
        BY <2>2, WordsAfterClr
      <3> QED BY <2>2, <3>1, <3>2, <3>3, Zenon
    <2>4. CASE WordBitsOf(level.bin0 \ {bit}, Word(bit)) # {}
      <3>1. new.bin1 = level.bin1
        BY <1>4, <2>1, <2>4
      <3>2. new.bin2 = level.bin2
        BY <1>1, <2>4 DEF ClrBit, Level
      <3> QED BY <2>2, <3>1, <3>2
    <2> QED BY <2>3, <2>4
  <1>7. new \in Level
    <2>1. new = [level EXCEPT !.count = new.count, !.bin0 = new.bin0,
                              !.bin1 = new.bin1, !.bin2 = new.bin2]
      BY <1>1 DEF ClrBit, Level
    <2>2. new.bin1 \subseteq level.bin1 /\ new.bin2 \subseteq level.bin2
      BY <1>1 DEF ClrBit, Level
    <2> QED BY <1>1, <1>2, <1>3, <2>1, <2>2 DEF Level
  <1> QED BY <1>1, <1>2, <1>3, <1>5, <1>6, <1>7 DEF GoodLevel, LevelCoherent

\* set_bit (without a free buddy) and set_2bits do, too.
LEMMA SetBitsGood ==
  ASSUME NEW level, GoodLevel(level), NEW bit, NEW bits \in SUBSET (0..level.size-1),
         bit \in bits, bits \cap level.bin0 = {}, \A b \in bits : Word(b) = Word(bit)
  PROVE  LET new == SetBits(level, bits, bit)
         IN  /\ GoodLevel(new)
             /\ new.size = level.size
             /\ new.bin0 = level.bin0 \cup bits
  <1> DEFINE new == SetBits(level, bits, bit)
  <1>1. /\ level \in Level /\ GoodSize(level.size) /\ LevelCoherent(level)
        /\ level.bin0 \subseteq 0..level.size-1 /\ level.bin0 \in SUBSET Nat
        /\ IsFiniteSet(level.bin0) /\ level.size \in Nat
    BY LevelFinite DEF GoodLevel, GoodSize
  <1>2. /\ new.size = level.size /\ new.bin0 = level.bin0 \cup bits
        /\ new.count = level.count + Cardinality(bits)
        /\ HasBin1(new) = HasBin1(level) /\ HasBin2(new) = HasBin2(level)
    BY <1>1 DEF SetBits, Level, HasBin1, HasBin2
  <1>3. new.count = Cardinality(new.bin0) /\ new.count \in Nat
    <2>1. IsFiniteSet(bits)
      <3>1. IsFiniteSet(0..level.size-1)
        BY <1>1, FS_Interval, SMTT(60)
      <3> QED BY <3>1, FS_Subset
    <2>2. /\ IsFiniteSet(new.bin0)
          /\ Cardinality(new.bin0) = Cardinality(level.bin0) + Cardinality(bits)
                                      - Cardinality({})
      <3>1. level.bin0 \cap bits = {}
        OBVIOUS
      <3> QED BY <1>1, <1>2, <2>1, <3>1, FS_Union
    <2>3. Cardinality({}) = 0
      BY FS_EmptySet
    <2> QED BY <1>1, <1>2, <2>1, <2>2, <2>3, FS_CardinalityType DEF LevelCoherent
  <1>4. HasBin1(level) =>
          new.bin1 = IF WordBitsOf(level.bin0, Word(bit)) = {}
                     THEN level.bin1 \cup {Word(bit)} ELSE level.bin1
    BY <1>1 DEF SetBits, Level
  <1>5. HasBin1(level) => new.bin1 = {Word(b) : b \in new.bin0}
    <2> SUFFICES ASSUME HasBin1(level) PROVE new.bin1 = {Word(b) : b \in new.bin0}
      OBVIOUS
    <2>1. level.bin1 = {Word(b) : b \in level.bin0}
      BY <1>1 DEF LevelCoherent
    <2>2. {Word(b) : b \in level.bin0 \cup bits} =
            IF WordBitsOf(level.bin0, Word(bit)) = {}
            THEN {Word(b) : b \in level.bin0} \cup {Word(bit)}
            ELSE {Word(b) : b \in level.bin0}
      BY WordsAfterSet
    <2> QED BY <1>2, <1>4, <2>1, <2>2, Zenon
  <1>6. HasBin2(level) => new.bin2 = {Word(w) : w \in new.bin1}
    <2> SUFFICES ASSUME HasBin2(level) PROVE new.bin2 = {Word(w) : w \in new.bin1}
      OBVIOUS
    <2>1. HasBin1(level)
      BY WordOfZero DEF HasBin1, HasBin2
    <2>2. level.bin2 = {Word(w) : w \in level.bin1}
      BY <1>1 DEF LevelCoherent
    <2>3. CASE WordBitsOf(level.bin0, Word(bit)) = {}
      <3>1. new.bin1 = level.bin1 \cup {Word(bit)}
        BY <1>4, <2>1, <2>3
      <3>2. new.bin2 = IF WordBitsOf(level.bin1, Word(Word(bit))) = {}
                       THEN level.bin2 \cup {Word(Word(bit))} ELSE level.bin2
        BY <1>1, <2>1, <2>3 DEF SetBits, Level
      <3>3. {Word(w) : w \in level.bin1 \cup {Word(bit)}} =
              IF WordBitsOf(level.bin1, Word(Word(bit))) = {}
              THEN {Word(w) : w \in level.bin1} \cup {Word(Word(bit))}
              ELSE {Word(w) : w \in level.bin1}
        BY WordsAfterSet
      <3> QED BY <2>2, <3>1, <3>2, <3>3, Zenon
    <2>4. CASE WordBitsOf(level.bin0, Word(bit)) # {}
      <3>1. new.bin1 = level.bin1
        BY <1>4, <2>1, <2>4
      <3>2. new.bin2 = level.bin2
        BY <1>1, <2>4 DEF SetBits, Level
      <3> QED BY <2>2, <3>1, <3>2
    <2> QED BY <2>3, <2>4
  <1>7. new \in Level
    <2>1. Word(bit) \in Nat /\ Word(Word(bit)) \in Nat
      <3>1. bit \in Nat
        BY <1>1
      <3> QED BY <3>1, WordNat
    <2>2. new.bin1 \subseteq level.bin1 \cup {Word(bit)}
      BY <1>1 DEF SetBits, Level
    <2>3. new.bin2 \subseteq level.bin2 \cup {Word(Word(bit))}
      BY <1>1 DEF SetBits, Level
    <2>4. new = [level EXCEPT !.count = new.count, !.bin0 = new.bin0,
                              !.bin1 = new.bin1, !.bin2 = new.bin2]
      BY <1>1 DEF SetBits, Level
    <2>5. level.bin1 \in SUBSET Nat /\ level.bin2 \in SUBSET Nat
      BY <1>1 DEF Level
    <2>6. new.bin1 \in SUBSET Nat /\ new.bin2 \in SUBSET Nat
      BY <2>1, <2>2, <2>3, <2>5
    <2>7. new.bin0 \in SUBSET Nat
      <3>1. bits \in SUBSET Nat
        BY <1>1
      <3> QED BY <1>1, <1>2, <3>1
    <2> HIDE DEF new
    <2> QED BY <1>1, <1>2, <1>3, <2>4, <2>6, <2>7 DEF Level
  <1> QED BY <1>1, <1>2, <1>3, <1>5, <1>6, <1>7 DEF GoodLevel, LevelCoherent

-----------------------------------------------------------------------------
(* Blocks                                                                  *)

BlockSet == [kind : {"free", "live", "work"}, ptr : Nat, index : Sizes]

\* Block b of size index i, owned as kind says.
Blk(kind, i, b) == [kind |-> kind, ptr |-> b * SegSize[i], index |-> i]

LEMMA Constants ==
  /\ TotalUnits \in Nat /\ WordBits \in Nat \ {0}
  /\ TopSize \in Sizes /\ 0 \in Sizes /\ Sizes \subseteq Nat
  BY GeometryAssumption DEF Sizes, TopSize

LEMMA Geometry ==
  ASSUME NEW i \in Sizes
  PROVE  /\ TotalUnits \in Nat
         /\ SegSize[i] \in Nat \ {0}
         /\ LevelSize(i) \in Nat
         /\ LevelSize(i) * SegSize[i] = TotalUnits
  <1>1. TotalUnits \in Nat /\ SegSize[i] \in Nat \ {0}
    BY GeometryAssumption
  <1>2. LevelSize(i) \in Nat
    BY <1>1, DivFacts DEF LevelSize
  <1> QED BY <1>1, <1>2, GeometryAssumption

LEMMA NextSize ==
  ASSUME NEW i \in Sizes
  PROVE  /\ i # TopSize => i + 1 \in Sizes
         /\ i # 0 => i - 1 \in Sizes /\ SegSize[i] = 2 * SegSize[i-1]
  BY GeometryAssumption DEF Sizes, TopSize

\* A level has twice the blocks of the next one.
LEMMA LevelSizeHalves ==
  ASSUME NEW i \in Sizes, i # 0
  PROVE  LevelSize(i-1) = 2 * LevelSize(i)
  <1> DEFINE a == LevelSize(i-1)
             b == LevelSize(i)
             s == SegSize[i-1]
  <1>1. a \in Nat /\ b \in Nat /\ s \in Nat \ {0} /\ a * s = b * (2 * s)
    BY Geometry, NextSize
  <1> HIDE DEF a, b, s
  <1>2. a * s = (2 * b) * s
    BY <1>1, SMT
  <1>3. (a * s) \div s = a /\ ((2 * b) * s) \div s = 2 * b
    BY <1>1, DivExact
  <1> QED BY <1>2, <1>3 DEF a, b

LEMMA LevelSizesGood ==
  /\ GoodSize(0)
  /\ \A i \in Sizes : GoodSize(LevelSize(i))
  <1>1. GoodSize(0)
    BY WordOfZero, Constants DEF GoodSize
  <1>2. ASSUME NEW i \in Sizes
        PROVE  GoodSize(LevelSize(i))
    <2>1. LevelSize(i) \in Nat /\ LevelSize(i) <= TotalUnits /\ TotalUnits \in Nat
      <3> DEFINE n == LevelSize(i)
                 s == SegSize[i]
      <3>1. n \in Nat /\ s \in Nat \ {0} /\ n * s = TotalUnits /\ TotalUnits \in Nat
        BY Geometry
      <3> HIDE DEF n, s
      <3>2. \E t \in Nat : s = t + 1
        <4>1. s = (s - 1) + 1 /\ s - 1 \in Nat
          BY <3>1
        <4> QED BY <4>1
      <3>3. n <= n * s
        BY <3>1, <3>2, SMT
      <3> QED BY <3>1, <3>3 DEF n
    <2>2. Word(LevelSize(i)) \in Nat /\ Word(TotalUnits) \in Nat
      BY <2>1, WordNat
    <2>3. Word(LevelSize(i)) <= Word(TotalUnits)
      BY <2>1, Constants, SMT DEF Word
    <2>4. Word(Word(LevelSize(i))) <= Word(Word(TotalUnits))
      BY <2>2, <2>3, Constants, SMT DEF Word
    <2>5. Word(Word(LevelSize(i))) \in Nat /\ Word(Word(TotalUnits)) \in Nat
      BY <2>2, WordNat
    <2> QED BY <2>1, <2>4, <2>5, Constants, GeometryAssumption DEF GoodSize
  <1> QED BY <1>1, <1>2

LEMMA BlockBounds ==
  ASSUME NEW i \in Sizes, NEW b \in 0..LevelSize(i)-1
  PROVE  /\ b * SegSize[i] \in 0..TotalUnits-1
         /\ b * SegSize[i] + SegSize[i] <= TotalUnits
  <1> DEFINE n == LevelSize(i)
             s == SegSize[i]
  <1>1. n \in Nat /\ s \in Nat \ {0} /\ n * s = TotalUnits /\ b \in 0..n-1
    BY Geometry
  <1> HIDE DEF n, s
  <1>2. b * s + s = (b + 1) * s
    BY <1>1, SMT
  <1>3. (b + 1) * s <= n * s
    BY <1>1, SMT
  <1>4. b * s \in Nat
    BY <1>1, SMT
  <1> QED BY <1>1, <1>2, <1>3, <1>4, SMT DEF s

\* Different bits of a level stand for blocks that are apart.
LEMMA SameSizeApart ==
  ASSUME NEW i \in Sizes, NEW b \in Nat, NEW c \in Nat, b # c,
         NEW k1, NEW k2
  PROVE  /\ Apart(Blk(k1, i, b), Blk(k2, i, c))
         /\ b * SegSize[i] # c * SegSize[i]
  <1> DEFINE s == SegSize[i]
  <1>1. s \in Nat \ {0}
    BY Geometry
  <1> HIDE DEF s
  <1>2. \A x, y \in Nat : x < y => x * s + s <= y * s
    BY <1>1, SMT
  <1>3. b * s \in Nat /\ c * s \in Nat
    BY <1>1, SMT
  <1>4. b < c \/ c < b
    OBVIOUS
  <1>5. (b * s + s <= c * s \/ c * s + s <= b * s) /\ b * s # c * s
    BY <1>1, <1>2, <1>3, <1>4, SMT
  <1> QED BY <1>5 DEF s, Apart, Blk

LEMMA ApartSymmetric ==
  ASSUME NEW r, NEW s, Apart(r, s)
  PROVE  Apart(s, r)
  BY DEF Apart

-----------------------------------------------------------------------------
(* The inductive invariant                                                 *)

\* What the client gives back starts at a block of its size.
LiveAligned ==
  \A r \in live : \E b \in 0..LevelSize(r.index)-1 : r.ptr = b * SegSize[r.index]

\* The loop of allocate holds a block that is still free.
SplitHoldsFree ==
  pc = "split" => /\ work.level >= work.index
                  /\ work.bit \in m_levels[work.level].bin0

DownIsEmpty == pc = "down" => live = {}

IInv ==
  /\ TypeOK
  /\ Coherent
  /\ Disjoint
  /\ LiveAligned
  /\ SplitHoldsFree
  /\ DownIsEmpty

\* What TypeOK and Coherent say of one level.
LEMMA LevelsGood ==
  ASSUME TypeOK, Coherent, NEW i \in Sizes
  PROVE  /\ GoodLevel(m_levels[i])
         /\ m_levels[i].size = IF pc = "down" THEN 0 ELSE LevelSize(i)
         /\ m_levels[i].bin0 \subseteq 0..LevelSize(i)-1
         /\ m_levels[i].bin0 \subseteq Nat
  <1>1. /\ m_levels[i] \in Level
        /\ m_levels[i].size = IF pc = "down" THEN 0 ELSE LevelSize(i)
        /\ m_levels[i].bin0 \subseteq 0..m_levels[i].size-1
    BY DEF TypeOK
  <1>2. GoodSize(m_levels[i].size)
    BY <1>1, LevelSizesGood
  <1>3. LevelCoherent(m_levels[i])
    BY DEF Coherent
  <1>4. m_levels[i].bin0 \subseteq 0..LevelSize(i)-1 /\ m_levels[i].bin0 \subseteq Nat
    BY <1>1, Geometry
  <1> QED BY <1>1, <1>2, <1>3, <1>4 DEF GoodLevel

\* And back: good levels of the right sizes, with the right m_size_free.
LEMMA CoherentFromLevels ==
  ASSUME \A i \in Sizes : GoodLevel(m_levels[i]),
         m_size_free = {i \in Sizes : m_levels[i].bin0 # {}}
  PROVE  Coherent
  BY DEF Coherent, GoodLevel

\* A set bit stands for a block that FreeBlocks has, and conversely.
LEMMA FreeBlocksIff ==
  ASSUME TypeOK, Coherent, NEW i \in Sizes, NEW b \in m_levels[i].bin0
  PROVE  Blk("free", i, b) \in FreeBlocks
  <1>1. b \in 0..LevelSize(i)-1
    BY LevelsGood
  <1>2. b * SegSize[i] \in 0..TotalUnits-1
    BY <1>1, BlockBounds
  <1> QED BY <1>2 DEF FreeBlocks, Blk

LEMMA FreeBlockIs ==
  ASSUME NEW r \in FreeBlocks
  PROVE  /\ r.index \in Sizes
         /\ \E b \in m_levels[r.index].bin0 : r = Blk("free", r.index, b)
  BY DEF FreeBlocks, Blk

LEMMA OwnedTyped ==
  ASSUME TypeOK
  PROVE  Owned \subseteq BlockSet
  <1>1. FreeBlocks \subseteq BlockSet
    BY Constants DEF FreeBlocks, BlockSet
  <1>2. LiveBlocks \subseteq BlockSet
    BY DEF LiveBlocks, BlockSet, TypeOK
  <1>3. WorkBlocks \subseteq BlockSet
    <2> SUFFICES ASSUME pc = "merge"
                 PROVE  /\ work.bit * SegSize[work.level] \in Nat
                        /\ work.level \in Sizes
      BY DEF WorkBlocks, BlockSet
    <2>1. work.level \in Sizes /\ work.bit \in 0..LevelSize(work.level)-1
      BY DEF TypeOK
    <2>2. work.bit * SegSize[work.level] \in 0..TotalUnits-1
      BY <2>1, BlockBounds
    <2> QED BY <2>1, <2>2
  <1> QED BY <1>1, <1>2, <1>3 DEF Owned

LEMMA InitIInv == Init => IInv
  <1> SUFFICES ASSUME Init PROVE IInv
    OBVIOUS
  <1>1. \A i \in Sizes : m_levels[i] = NoLevel
    BY DEF Init
  <1>2. /\ NoLevel \in Level /\ NoLevel.bin0 = {} /\ NoLevel.size = 0
        /\ LevelCoherent(NoLevel)
    BY WordOfZero, FS_EmptySet DEF NoLevel, Level, LevelCoherent, HasBin1, HasBin2
  <1>3. TypeOK
    <2>1. m_levels \in [Sizes -> Level]
      BY <1>2 DEF Init
    <2>2. work \in [index : Sizes, level : Sizes, bit : Nat \cup {-1}]
      BY Constants DEF Init, NoWork
    <2> QED BY <1>1, <1>2, <2>1, <2>2 DEF Init, TypeOK
  <1>4. Coherent
    BY <1>1, <1>2 DEF Init, Coherent
  <1>5. Disjoint
    <2>1. FreeBlocks = {} /\ LiveBlocks = {} /\ WorkBlocks = {}
      BY <1>1, <1>2 DEF Init, FreeBlocks, LiveBlocks, WorkBlocks
    <2> QED BY <2>1 DEF Disjoint, Owned
  <1> QED BY <1>3, <1>4, <1>5 DEF IInv, LiveAligned, SplitHoldsFree, DownIsEmpty, Init

\* A step that leaves the levels and the client's blocks alone, outside merge.
LEMMA KeepsBlocks ==
  ASSUME IInv, UNCHANGED <<m_levels, m_size_free, live>>, pc # "merge", pc' # "merge",
         pc # "down", pc' # "down"
  PROVE  Coherent' /\ Disjoint' /\ LiveAligned' /\ DownIsEmpty'
  <1>1. Coherent'
    BY DEF IInv, Coherent
  <1>2. FreeBlocks' = FreeBlocks /\ LiveBlocks' = LiveBlocks /\ WorkBlocks' = WorkBlocks
    BY DEF FreeBlocks, LiveBlocks, WorkBlocks
  <1>3. Disjoint'
    BY <1>2 DEF IInv, Disjoint, Owned
  <1> QED BY <1>1, <1>3 DEF IInv, LiveAligned, DownIsEmpty

LEMMA InitializeIInv ==
  ASSUME IInv, Initialize
  PROVE  IInv'
  <1>1. \A i \in Sizes : m_levels'[i] = NewLevel(i)
    BY DEF Initialize
  <1>2. ASSUME NEW i \in Sizes
        PROVE  /\ GoodLevel(NewLevel(i))
               /\ NewLevel(i).size = LevelSize(i)
               /\ NewLevel(i).bin0 = IF i = TopSize THEN 0..LevelSize(i)-1 ELSE {}
    <2> DEFINE n == LevelSize(i)
    <2>1. /\ n \in Nat /\ Word(n) \in Nat /\ Word(Word(n)) \in Nat /\ GoodSize(n)
      BY Geometry, WordNat, LevelSizesGood
    <2>2. NewLevel(i) \in Level
      BY <2>1 DEF NewLevel, Level
    <2>3. /\ NewLevel(i).size = n
          /\ NewLevel(i).count = IF i = TopSize THEN n ELSE 0
          /\ NewLevel(i).bin0 = IF i = TopSize THEN 0..n-1 ELSE {}
          /\ NewLevel(i).bin1 = IF i = TopSize THEN 0..Word(n)-1 ELSE {}
          /\ NewLevel(i).bin2 = IF i = TopSize THEN 0..Word(Word(n))-1 ELSE {}
      BY DEF NewLevel
    <2>4. Cardinality(0..n-1) = n /\ Cardinality({}) = 0
      BY <2>1, FS_Interval, FS_EmptySet
    <2>5. Word(n) # 0 => 0..Word(n)-1 = {Word(b) : b \in 0..n-1}
      BY <2>1, AllWords DEF GoodSize
    <2>6. Word(Word(n)) # 0 => 0..Word(Word(n))-1 = {Word(w) : w \in 0..Word(n)-1}
      BY <2>1, AllWords DEF GoodSize
    <2> HIDE DEF n
    <2>7. LevelCoherent(NewLevel(i))
      BY <2>3, <2>4, <2>5, <2>6 DEF LevelCoherent, HasBin1, HasBin2
    <2> QED BY <2>1, <2>2, <2>3, <2>7 DEF GoodLevel, n
  <1>3. TypeOK'
    <2>1. m_levels' \in [Sizes -> Level]
      BY <1>2 DEF Initialize, GoodLevel
    <2>2. \A i \in Sizes : /\ m_levels'[i].size = LevelSize(i)
                          /\ m_levels'[i].bin0 \subseteq 0..m_levels'[i].size-1
      BY <1>1, <1>2 DEF GoodLevel
    <2>3. pc' = "idle" /\ m_size_free' \subseteq Sizes
      BY Constants DEF Initialize
    <2> QED BY <2>1, <2>2, <2>3 DEF IInv, TypeOK, Initialize
  <1>4. Coherent'
    <2>1. TopSize \in Sizes /\ 0..LevelSize(TopSize)-1 # {}
      <3>1. LevelSize(TopSize) \in Nat /\ LevelSize(TopSize) # 0
        BY Constants, Geometry, GeometryAssumption
      <3> QED BY <3>1, Constants
    <2>2. m_size_free' = {i \in Sizes : m_levels'[i].bin0 # {}}
      BY <1>1, <1>2, <2>1 DEF Initialize
    <2>3. \A i \in Sizes : LevelCoherent(m_levels'[i])
      BY <1>1, <1>2 DEF GoodLevel
    <2> QED BY <2>2, <2>3 DEF Coherent, LevelCoherent, HasBin1, HasBin2
  <1>5. Disjoint'
    <2>1. LiveBlocks' = {} /\ WorkBlocks' = {}
      BY DEF IInv, DownIsEmpty, Initialize, LiveBlocks, WorkBlocks
    <2>2. ASSUME NEW r \in FreeBlocks'
          PROVE  \E b \in Nat : r = Blk("free", TopSize, b)
      <3>1. /\ r.index \in Sizes /\ r = [kind |-> "free", ptr |-> r.ptr, index |-> r.index]
            /\ \E b \in m_levels'[r.index].bin0 : r.ptr = b * SegSize[r.index]
        BY DEF FreeBlocks
      <3>2. PICK b \in NewLevel(r.index).bin0 : r.ptr = b * SegSize[r.index]
        BY <1>1, <3>1
      <3>3. r.index = TopSize /\ b \in 0..LevelSize(TopSize)-1
        BY <1>2, <3>1, <3>2
      <3>4. b \in Nat
        BY <3>3, Constants, Geometry
      <3> QED BY <3>1, <3>2, <3>3, <3>4 DEF Blk
    <2> QED BY <2>1, <2>2, SameSizeApart, Constants DEF Disjoint, Owned, Apart
  <1> QED BY <1>3, <1>4, <1>5 DEF IInv, Initialize, LiveAligned, SplitHoldsFree, DownIsEmpty

LEMMA InitIInvNext == Init' => IInv'
  BY InitIInv, PTL

LEMMA TeardownIInv ==
  ASSUME IInv, Teardown
  PROVE  IInv'
  BY InitIInvNext DEF Teardown, Init

LEMMA AllocateFailsIInv ==
  ASSUME IInv, NEW i \in Sizes, AllocateFails(i)
  PROVE  IInv'
  <1>1. /\ UNCHANGED <<m_levels, m_size_free, live, pc>> /\ pc = "idle"
        /\ work' = [index |-> i, level |-> i, bit |-> -1] /\ ret' = "oom"
    BY DEF AllocateFails
  <1>2. Coherent' /\ Disjoint' /\ LiveAligned' /\ DownIsEmpty'
    BY <1>1, KeepsBlocks
  <1>3. TypeOK'
    BY <1>1 DEF IInv, TypeOK
  <1> QED BY <1>1, <1>2, <1>3 DEF IInv, SplitHoldsFree

LEMMA DeallocateInvalidIInv ==
  ASSUME IInv, NEW ptr, NEW size, DeallocateInvalid(ptr, size)
  PROVE  IInv'
  <1>1. /\ UNCHANGED <<m_levels, m_size_free, live, pc>> /\ pc = "idle"
        /\ work' = NoWork /\ ret' = "invalid"
    BY DEF DeallocateInvalid
  <1>2. Coherent' /\ Disjoint' /\ LiveAligned' /\ DownIsEmpty'
    BY <1>1, KeepsBlocks
  <1>3. TypeOK'
    BY <1>1, Constants DEF IInv, TypeOK, NoWork
  <1> QED BY <1>1, <1>2, <1>3 DEF IInv, SplitHoldsFree

\* find_bit answers for the level that m_size_free names, so allocate starts
\* from a block that is free and large enough.
LEMMA AllocateFindsIInv ==
  ASSUME IInv, NEW i \in Sizes, AllocateFinds(i)
  PROVE  IInv'
  <1> DEFINE k == FreeIndex(i)
             b == FoundBit(i)
  <1>1. /\ UNCHANGED <<m_levels, m_size_free, live, ret>> /\ pc = "idle" /\ pc' = "split"
        /\ work' = [index |-> i, level |-> k, bit |-> b] /\ b # -1
    BY DEF AllocateFinds
  <1>2. TypeOK /\ Coherent
    BY DEF IInv
  <1>3. k \in m_size_free /\ k >= i
    <2> DEFINE S == {j \in m_size_free : j >= i}
    <2>1. ~ \A j \in m_size_free : j < i
      BY <1>1 DEF FoundBit
    <2>2. m_size_free \subseteq Sizes /\ i \in Nat /\ \A j \in m_size_free : j \in Nat
      BY <1>2, Constants DEF TypeOK
    <2>3. S \in SUBSET Nat /\ S # {}
      <3>1. PICK j \in m_size_free : ~(j < i)
        BY <2>1
      <3>2. j >= i
        BY <2>2, <3>1
      <3>3. j \in S
        BY <3>1, <3>2
      <3> QED BY <2>2, <3>3
    <2>4. LeastOf(S) \in S
      BY <2>3, LeastOfIn
    <2> QED BY <2>4 DEF FreeIndex
  <1>4. k \in Sizes /\ b \in m_levels[k].bin0 /\ b \in 0..LevelSize(k)-1
    <2>1. k \in Sizes /\ m_levels[k].bin0 # {}
      BY <1>2, <1>3 DEF Coherent
    <2>2. b = FindBit(m_levels[k])
      BY <1>1 DEF FoundBit
    <2>3. b \in m_levels[k].bin0
      BY <1>2, <2>1, <2>2, LevelsGood, FindBitFinds
    <2> QED BY <1>2, <2>1, <2>3, LevelsGood
  <1> HIDE DEF k, b
  <1>5. Coherent' /\ Disjoint' /\ LiveAligned' /\ DownIsEmpty'
    BY <1>1, KeepsBlocks
  <1>6. TypeOK'
    <2>1. b \in Nat
      BY <1>2, <1>4, LevelsGood
    <2> QED BY <1>1, <1>4, <2>1 DEF IInv, TypeOK
  <1> QED BY <1>1, <1>3, <1>4, <1>5, <1>6 DEF IInv, SplitHoldsFree

\* A step that replaces blocks P by blocks N of their units.
LEMMA DisjointAfter ==
  ASSUME Disjoint, NEW P, NEW N,
         \A r, s \in N : r # s => Apart(r, s),
         \A r \in N : \A s \in Owned \ P : Apart(r, s),
         Owned' \subseteq (Owned \ P) \cup N
  PROVE  Disjoint'
  <1>1. ASSUME NEW r \in Owned', NEW s \in Owned', r # s
        PROVE  Apart(r, s)
    <2>1. CASE r \in Owned \ P /\ s \in Owned \ P
      BY <1>1, <2>1 DEF Disjoint
    <2>2. CASE r \in N /\ s \in N
      BY <1>1, <2>2
    <2>3. CASE r \in N /\ s \in Owned \ P
      BY <2>3
    <2>4. CASE r \in Owned \ P /\ s \in N
      BY <2>4, ApartSymmetric
    <2> QED BY <2>1, <2>2, <2>3, <2>4
  <1> QED BY <1>1 DEF Disjoint, Apart

LEMMA BlkInjective ==
  ASSUME NEW kind, NEW i \in Sizes, NEW j \in Sizes, NEW b \in Nat, NEW c \in Nat,
         Blk(kind, i, b) = Blk(kind, j, c)
  PROVE  i = j /\ b = c
  <1>1. i = j /\ b * SegSize[i] = c * SegSize[j]
    BY DEF Blk
  <1> QED BY <1>1, SameSizeApart

\* The free blocks after a step, from the bits after it.
LEMMA FreeBlocksAfter ==
  ASSUME TypeOK, Coherent, NEW P, NEW N,
         \A j \in Sizes : \A c \in m_levels'[j].bin0 :
            \/ c \in m_levels[j].bin0 /\ Blk("free", j, c) \notin P
            \/ Blk("free", j, c) \in N
  PROVE  FreeBlocks' \subseteq (FreeBlocks \ P) \cup N
  <1> SUFFICES ASSUME NEW f \in FreeBlocks' PROVE f \in (FreeBlocks \ P) \cup N
    OBVIOUS
  <1>1. f.index \in Sizes /\ \E c \in m_levels'[f.index].bin0 : f = Blk("free", f.index, c)
    BY DEF FreeBlocks, Blk
  <1>2. PICK c \in m_levels'[f.index].bin0 : f = Blk("free", f.index, c)
    BY <1>1
  <1>3. CASE c \in m_levels[f.index].bin0 /\ Blk("free", f.index, c) \notin P
    BY <1>1, <1>2, <1>3, FreeBlocksIff
  <1> QED BY <1>1, <1>2, <1>3

\* Levels that stay good, and an m_size_free that follows them.
LEMMA CoherentAfter ==
  ASSUME \A i \in Sizes : GoodLevel(m_levels'[i]),
         m_size_free' = {i \in Sizes : m_levels'[i].bin0 # {}}
  PROVE  Coherent'
  <1>1. \A i \in Sizes : LevelCoherent(m_levels'[i])
    BY DEF GoodLevel
  <1> QED BY <1>1 DEF Coherent, LevelCoherent, HasBin1, HasBin2

\* allocate clears the bit of the block it returns.
LEMMA AllocateReturnsIInv ==
  ASSUME IInv, AllocateReturns
  PROVE  IInv'
  <1> DEFINE i == work.index
             b == work.bit
             new == ClrBit(m_levels[i], b)
             r == [ptr |-> b * SegSize[i], index |-> i]
             P == Blk("free", i, b)
             N == Blk("live", i, b)
  <1>1. /\ pc = "split" /\ pc' = "idle" /\ work' = NoWork /\ ret' = "ok"
        /\ m_levels' = [m_levels EXCEPT ![i] = new]
        /\ m_size_free' = SizeFreeAfterClr(i, new)
        /\ live' = live \cup {r}
        /\ work.level <= i
    BY DEF AllocateReturns
  <1>2. TypeOK /\ Coherent /\ Disjoint /\ LiveAligned /\ DownIsEmpty
    BY DEF IInv
  <1>3. i \in Sizes /\ work.level = i /\ b \in m_levels[i].bin0
    <2>1. work.level \in Nat /\ i \in Nat /\ i \in Sizes
      BY <1>2, Constants DEF TypeOK
    <2> QED BY <1>1, <2>1 DEF IInv, SplitHoldsFree
  <1>4. /\ GoodLevel(new) /\ new.bin0 = m_levels[i].bin0 \ {b}
        /\ new.size = m_levels[i].size /\ new.size = LevelSize(i)
    BY <1>1, <1>2, <1>3, LevelsGood, ClrBitGood
  <1>5. b \in 0..LevelSize(i)-1 /\ b * SegSize[i] \in Nat /\ b \in Nat
    <2>1. b \in 0..LevelSize(i)-1
      BY <1>2, <1>3, LevelsGood
    <2>2. b * SegSize[i] \in 0..TotalUnits-1
      BY <1>3, <2>1, BlockBounds
    <2> QED BY <1>3, <2>1, <2>2, Geometry
  <1> HIDE DEF i, b, new
  <1>6. \A j \in Sizes : m_levels'[j] = IF j = i THEN new ELSE m_levels[j]
    BY <1>1, <1>2, <1>3 DEF TypeOK
  <1>7. TypeOK'
    <2>1. m_levels' \in [Sizes -> Level]
      BY <1>1, <1>2, <1>4 DEF TypeOK, GoodLevel
    <2>2. \A j \in Sizes : /\ m_levels'[j].size = LevelSize(j)
                          /\ m_levels'[j].bin0 \subseteq 0..m_levels'[j].size-1
      BY <1>1, <1>2, <1>4, <1>6 DEF TypeOK, GoodLevel
    <2>3. m_size_free' \subseteq Sizes
      BY <1>1, <1>2 DEF SizeFreeAfterClr, TypeOK
    <2>4. work' \in [index : Sizes, level : Sizes, bit : Nat \cup {-1}]
      BY <1>1, Constants DEF NoWork
    <2>5. live' \subseteq [ptr : Nat, index : Sizes]
      BY <1>1, <1>2, <1>3, <1>5 DEF TypeOK
    <2> QED BY <1>1, <2>1, <2>2, <2>3, <2>4, <2>5 DEF TypeOK
  <1>8. Coherent'
    <2>1. \A j \in Sizes : GoodLevel(m_levels'[j])
      BY <1>2, <1>4, <1>6, LevelsGood
    <2>2. new.count = 0 <=> new.bin0 = {}
      BY <1>4, LevelFinite
    <2>3. m_size_free' = {j \in Sizes : m_levels'[j].bin0 # {}}
      BY <1>1, <1>2, <1>3, <1>6, <2>2 DEF SizeFreeAfterClr, Coherent
    <2> QED BY <2>1, <2>3, CoherentAfter
  <1>9. Disjoint'
    <2>1. P \in Owned
      BY <1>2, <1>3, FreeBlocksIff DEF Owned
    <2>2. FreeBlocks' \subseteq (FreeBlocks \ {P}) \cup {}
      <3>1. ASSUME NEW j \in Sizes, NEW c \in m_levels'[j].bin0
            PROVE  c \in m_levels[j].bin0 /\ Blk("free", j, c) # P
        <4>1. c \in m_levels[j].bin0 /\ c \in Nat /\ (j = i => c # b)
          BY <1>2, <1>4, <1>6, LevelsGood
        <4> QED BY <1>3, <1>5, <4>1, BlkInjective
      <3> HIDE DEF P
      <3> QED BY <1>2, <3>1, FreeBlocksAfter
    <2>3. LiveBlocks' \subseteq LiveBlocks \cup {N}
      <3> SUFFICES ASSUME NEW s \in live'
                   PROVE  [kind |-> "live", ptr |-> s.ptr, index |-> s.index] \in LiveBlocks \cup {N}
        BY DEF LiveBlocks
      <3>1. CASE s \in live
        BY <3>1 DEF LiveBlocks
      <3>2. CASE s = r
        BY <3>2 DEF Blk
      <3> QED BY <1>1, <3>1, <3>2
    <2>4. WorkBlocks' = {} /\ \A l \in LiveBlocks : l # P
      BY <1>1 DEF WorkBlocks, LiveBlocks, Blk
    <2>5. Owned' \subseteq (Owned \ {P}) \cup {N}
      BY <2>2, <2>3, <2>4 DEF Owned
    <2>6. \A s \in Owned \ {P} : Apart(N, s)
      <3>1. \A s \in Owned \ {P} : Apart(P, s)
        BY <1>2, <2>1 DEF Disjoint
      <3> QED BY <3>1 DEF Apart, Blk
    <2> HIDE DEF P, N
    <2>7. /\ \A s, t \in {N} : s # t => Apart(s, t)
          /\ \A s \in {N} : \A t \in Owned \ {P} : Apart(s, t)
      BY <2>6
    <2> QED BY <1>2, <2>5, <2>7, DisjointAfter
  <1>10. LiveAligned'
    BY <1>1, <1>2, <1>5 DEF LiveAligned
  <1> QED BY <1>1, <1>7, <1>8, <1>9, <1>10 DEF IInv, SplitHoldsFree, DownIsEmpty

\* An iteration of the loop of allocate: the two halves take the parent's place.
LEMMA SplitIInv ==
  ASSUME IInv, Split
  PROVE  IInv'
  <1> DEFINE k == work.level
             b == work.bit
             c == 2 * b
             upper == ClrBit(m_levels[k], b)
             lower == SetBits(m_levels[k-1], {c, c + 1}, c)
             P == Blk("free", k, b)
             N == {Blk("free", k-1, c), Blk("free", k-1, c+1)}
  <1>1. /\ pc = "split" /\ UNCHANGED <<pc, ret, live>> /\ k > work.index
        /\ m_levels' = [m_levels EXCEPT ![k] = upper, ![k-1] = lower]
        /\ m_size_free' = SizeFreeAfterClr(k, upper) \cup {k-1}
        /\ work' = [work EXCEPT !.level = k-1, !.bit = c]
    BY DEF Split
  <1>2. TypeOK /\ Coherent /\ Disjoint /\ LiveAligned /\ DownIsEmpty
    BY DEF IInv
  <1>3. /\ k \in Sizes /\ work.index \in Sizes /\ k # 0 /\ k - 1 \in Sizes
        /\ k \in Nat /\ k - 1 >= work.index
        /\ b \in m_levels[k].bin0
    <2>1. k \in Sizes /\ work.index \in Sizes /\ k \in Nat /\ work.index \in Nat
      BY <1>2, Constants DEF TypeOK
    <2>2. b \in m_levels[k].bin0
      BY <1>1 DEF IInv, SplitHoldsFree
    <2> QED BY <1>1, <2>1, <2>2, NextSize
  <1>4. /\ b \in 0..LevelSize(k)-1 /\ b \in Nat /\ c \in Nat
        /\ c \in 0..LevelSize(k-1)-1 /\ c + 1 \in 0..LevelSize(k-1)-1
    <2>1. b \in 0..LevelSize(k)-1 /\ LevelSize(k) \in Nat /\ LevelSize(k-1) = 2 * LevelSize(k)
      BY <1>2, <1>3, LevelsGood, Geometry, LevelSizeHalves
    <2> QED BY <2>1, SMT
  <1>5. SegSize[k] = 2 * SegSize[k-1] /\ SegSize[k-1] \in Nat \ {0}
    BY <1>3, NextSize, Geometry
  <1>6. /\ c * SegSize[k-1] = b * SegSize[k]
        /\ (c + 1) * SegSize[k-1] = b * SegSize[k] + SegSize[k-1]
        /\ b * SegSize[k] \in Nat
    <2> DEFINE s == SegSize[k-1]
    <2>1. s \in Nat \ {0} /\ SegSize[k] = 2 * s /\ b \in Nat /\ c = 2 * b
      BY <1>4, <1>5
    <2> HIDE DEF s, c, b
    <2>2. (2 * b) * s = b * (2 * s) /\ (2 * b + 1) * s = b * (2 * s) + s /\ b * (2 * s) \in Nat
      BY <2>1, SMT
    <2> QED BY <2>1, <2>2 DEF s
  <1>7. P \in Owned
    BY <1>2, <1>3, FreeBlocksIff DEF Owned
  <1>8. {c, c + 1} \cap m_levels[k-1].bin0 = {}
    <2> SUFFICES ASSUME NEW d \in {c, c + 1}, d \in m_levels[k-1].bin0
                 PROVE  FALSE
      OBVIOUS
    <2>1. Blk("free", k-1, d) \in Owned
      BY <1>2, <1>3, FreeBlocksIff DEF Owned
    <2>2. Blk("free", k-1, d) # P
      BY <1>3 DEF Blk
    <2>3. Apart(Blk("free", k-1, d), P)
      BY <1>2, <1>7, <2>1, <2>2 DEF Disjoint
    <2>4. \/ d * SegSize[k-1] + SegSize[k-1] <= b * SegSize[k]
          \/ b * SegSize[k] + SegSize[k] <= d * SegSize[k-1]
      BY <2>3 DEF Apart, Blk
    <2>5. d * SegSize[k-1] = b * SegSize[k] \/ d * SegSize[k-1] = b * SegSize[k] + SegSize[k-1]
      BY <1>6
    <2> HIDE DEF c, b, k
    <2> QED BY <1>5, <1>6, <2>4, <2>5, SMT
  <1>9. /\ GoodLevel(upper) /\ upper.bin0 = m_levels[k].bin0 \ {b}
        /\ upper.size = LevelSize(k)
    BY <1>1, <1>2, <1>3, LevelsGood, ClrBitGood
  <1>10. /\ GoodLevel(lower) /\ lower.bin0 = m_levels[k-1].bin0 \cup {c, c + 1}
         /\ lower.size = LevelSize(k-1)
    <2>1. GoodLevel(m_levels[k-1]) /\ m_levels[k-1].size = LevelSize(k-1)
      BY <1>1, <1>2, <1>3, LevelsGood
    <2>2. \A d \in {c, c + 1} : Word(d) = Word(c)
      BY <1>4, WordPair
    <2>3. {c, c + 1} \in SUBSET (0..m_levels[k-1].size-1) /\ c \in {c, c + 1}
      BY <1>4, <2>1
    <2> HIDE DEF c
    <2> QED BY <1>8, <2>1, <2>2, <2>3, SetBitsGood
  <1> HIDE DEF k, b, c, upper, lower
  <1>11. \A j \in Sizes : m_levels'[j] = IF j = k THEN upper
                                        ELSE IF j = k-1 THEN lower ELSE m_levels[j]
    BY <1>1, <1>2, <1>3 DEF TypeOK
  <1>12. TypeOK'
    <2>1. m_levels' \in [Sizes -> Level]
      BY <1>1, <1>2, <1>9, <1>10 DEF TypeOK, GoodLevel
    <2>2. \A j \in Sizes : /\ m_levels'[j].size = LevelSize(j)
                          /\ m_levels'[j].bin0 \subseteq 0..m_levels'[j].size-1
      BY <1>1, <1>2, <1>9, <1>10, <1>11 DEF TypeOK, GoodLevel
    <2>3. m_size_free' \subseteq Sizes
      BY <1>1, <1>2, <1>3 DEF SizeFreeAfterClr, TypeOK
    <2>4. /\ work' \in [index : Sizes, level : Sizes, bit : Nat \cup {-1}]
          /\ work'.level = k-1 /\ work'.bit = c
      BY <1>1, <1>2, <1>3, <1>4 DEF TypeOK
    <2> QED BY <1>1, <1>2, <1>4, <2>1, <2>2, <2>3, <2>4 DEF TypeOK
  <1>13. Coherent'
    <2>1. \A j \in Sizes : GoodLevel(m_levels'[j])
      BY <1>2, <1>9, <1>10, <1>11, LevelsGood
    <2>2. upper.count = 0 <=> upper.bin0 = {}
      BY <1>9, LevelFinite
    <2>3. m_size_free = {j \in Sizes : m_levels[j].bin0 # {}}
      BY <1>2 DEF Coherent
    <2>4. m_size_free' = {j \in Sizes : m_levels'[j].bin0 # {}}
      <3>1. ASSUME NEW j \in Sizes
            PROVE  j \in m_size_free' <=> m_levels'[j].bin0 # {}
        <4>1. CASE j = k
          <5>1. k \in m_size_free /\ k # k-1
            BY <1>3, <2>3
          <5>2. m_size_free' = (IF upper.count = 0 THEN m_size_free \ {k} ELSE m_size_free)
                               \cup {k-1}
            BY <1>1 DEF SizeFreeAfterClr
          <5>3. m_levels'[j].bin0 = upper.bin0
            BY <1>11, <4>1
          <5>4. CASE upper.count = 0
            BY <2>2, <4>1, <5>1, <5>2, <5>3, <5>4
          <5>5. CASE upper.count # 0
            BY <2>2, <4>1, <5>1, <5>2, <5>3, <5>5
          <5> QED BY <5>4, <5>5
        <4>2. CASE j = k-1
          <5>1. lower.bin0 # {}
            BY <1>10
          <5>2. m_levels'[j].bin0 = lower.bin0
            BY <1>3, <1>11, <4>2
          <5>3. j \in m_size_free'
            BY <1>1, <4>2
          <5> QED BY <5>1, <5>2, <5>3
        <4>3. CASE j # k /\ j # k-1
          BY <1>1, <1>11, <2>3, <4>3 DEF SizeFreeAfterClr
        <4> QED BY <4>1, <4>2, <4>3
      <3>2. m_size_free' \subseteq Sizes
        BY <1>1, <1>3, <2>3 DEF SizeFreeAfterClr
      <3> QED BY <3>1, <3>2
    <2> QED BY <2>1, <2>4, CoherentAfter
  <1>14. Disjoint'
    <2>1. FreeBlocks' \subseteq (FreeBlocks \ {P}) \cup N
      <3>1. ASSUME NEW j \in Sizes, NEW d \in m_levels'[j].bin0
            PROVE  \/ d \in m_levels[j].bin0 /\ Blk("free", j, d) \notin {P}
                   \/ Blk("free", j, d) \in N
        <4>1. \/ j = k-1 /\ d \in {c, c + 1}
              \/ d \in m_levels[j].bin0 /\ (j = k => d # b)
          BY <1>3, <1>9, <1>10, <1>11
        <4>2. CASE j = k-1 /\ d \in {c, c + 1}
          BY <4>2
        <4>3. CASE d \in m_levels[j].bin0 /\ (j = k => d # b)
          <5>1. d \in Nat
            BY <1>2, <4>3, LevelsGood
          <5> QED BY <1>3, <1>4, <4>3, <5>1, BlkInjective
        <4> QED BY <4>1, <4>2, <4>3
      <3> HIDE DEF P, N
      <3> QED BY <1>2, <3>1, FreeBlocksAfter
    <2>2. LiveBlocks' = LiveBlocks /\ WorkBlocks' = {} /\ P \notin LiveBlocks
      BY <1>1 DEF LiveBlocks, WorkBlocks, Blk
    <2>3. Owned' \subseteq (Owned \ {P}) \cup N
      BY <2>1, <2>2 DEF Owned
    <2>4. \A s, t \in N : s # t => Apart(s, t)
      BY <1>3, <1>4, SameSizeApart
    <2>5. ASSUME NEW s \in N, NEW t \in Owned \ {P}
          PROVE  Apart(s, t)
      <3>1. Apart(P, t)
        BY <1>2, <1>7 DEF Disjoint
      <3>2. t \in BlockSet
        BY <1>2, OwnedTyped
      <3>3. t.ptr \in Nat /\ SegSize[t.index] \in Nat \ {0}
        BY <3>2, Geometry DEF BlockSet
      <3>4. \/ b * SegSize[k] + SegSize[k] <= t.ptr
            \/ t.ptr + SegSize[t.index] <= b * SegSize[k]
        BY <3>1 DEF Apart, Blk
      <3>5. /\ SegSize[s.index] = SegSize[k-1]
            /\ s.ptr = b * SegSize[k] \/ s.ptr = b * SegSize[k] + SegSize[k-1]
        BY <1>6 DEF Blk
      <3> HIDE DEF N, P
      <3>6. s.ptr + SegSize[s.index] <= t.ptr \/ t.ptr + SegSize[t.index] <= s.ptr
        BY <1>5, <1>6, <3>3, <3>4, <3>5, SMT
      <3> QED BY <3>6 DEF Apart
    <2> HIDE DEF P, N
    <2> QED BY <1>2, <2>3, <2>4, <2>5, DisjointAfter
  <1>15. SplitHoldsFree'
    <2>1. work'.level = k-1 /\ work'.bit = c /\ work'.index = work.index
      BY <1>1, <1>2 DEF TypeOK
    <2> QED BY <1>3, <1>10, <1>11, <2>1 DEF SplitHoldsFree
  <1>16. LiveAligned' /\ DownIsEmpty'
    BY <1>1, <1>2 DEF LiveAligned, DownIsEmpty
  <1> QED BY <1>12, <1>13, <1>14, <1>15, <1>16 DEF IInv

\* deallocate takes the block from the client and recovers its bit.
LEMMA DeallocateIInv ==
  ASSUME IInv, NEW r \in live, Deallocate(r)
  PROVE  IInv'
  <1> DEFINE i == r.index
             P == [kind |-> "live", ptr |-> r.ptr, index |-> i]
             N == [kind |-> "work", ptr |-> r.ptr, index |-> i]
  <1>1. /\ pc = "idle" /\ pc' = "merge" /\ live' = live \ {r}
        /\ UNCHANGED <<m_levels, m_size_free, ret>>
        /\ work' = [index |-> i, level |-> i, bit |-> r.ptr \div SegSize[i]]
    BY DEF Deallocate
  <1>2. TypeOK /\ Coherent /\ Disjoint /\ LiveAligned
    BY DEF IInv
  <1>3. r \in [ptr : Nat, index : Sizes] /\ i \in Sizes
    BY <1>2 DEF TypeOK
  <1>4. PICK b \in 0..LevelSize(i)-1 : r.ptr = b * SegSize[i]
    BY <1>2 DEF LiveAligned
  <1>5. r.ptr \div SegSize[i] = b /\ b \in Nat
    <2>1. b \in Nat /\ SegSize[i] \in Nat \ {0}
      BY <1>3, <1>4, Geometry
    <2> QED BY <1>4, <2>1, DivExact
  <1>6. TypeOK'
    BY <1>1, <1>2, <1>3, <1>4, <1>5 DEF TypeOK
  <1>7. Coherent'
    BY <1>1, <1>2 DEF Coherent
  <1>8. Disjoint'
    <2>1. P \in Owned
      BY DEF Owned, LiveBlocks
    <2>2. FreeBlocks' = FreeBlocks /\ P \notin FreeBlocks /\ WorkBlocks = {}
      BY <1>1 DEF FreeBlocks, WorkBlocks
    <2>3. WorkBlocks' = {N}
      BY <1>1, <1>4, <1>5 DEF WorkBlocks
    <2>4. LiveBlocks' \subseteq LiveBlocks \ {P}
      <3> SUFFICES ASSUME NEW s \in live \ {r}
                   PROVE  /\ [kind |-> "live", ptr |-> s.ptr, index |-> s.index] \in LiveBlocks
                          /\ [kind |-> "live", ptr |-> s.ptr, index |-> s.index] # P
        BY <1>1 DEF LiveBlocks
      <3>1. s \in [ptr : Nat, index : Sizes] /\ s # r
        BY <1>2 DEF TypeOK
      <3>2. s.ptr # r.ptr \/ s.index # r.index
        BY <1>3, <3>1
      <3> QED BY <3>2 DEF LiveBlocks
    <2>5. Owned' \subseteq (Owned \ {P}) \cup {N}
      BY <2>2, <2>3, <2>4 DEF Owned
    <2>6. /\ \A s, t \in {N} : s # t => Apart(s, t)
          /\ \A s \in {N} : \A t \in Owned \ {P} : Apart(s, t)
      <3>1. \A t \in Owned \ {P} : Apart(P, t)
        BY <1>2, <2>1 DEF Disjoint
      <3> QED BY <3>1 DEF Apart
    <2> HIDE DEF P, N
    <2> QED BY <1>2, <2>5, <2>6, DisjointAfter
  <1> QED BY <1>1, <1>2, <1>6, <1>7, <1>8 DEF IInv, LiveAligned, SplitHoldsFree, DownIsEmpty

\* deallocate ends: the block becomes a free block of its size.
LEMMA DeallocateReturnsIInv ==
  ASSUME IInv, DeallocateReturns
  PROVE  IInv'
  <1> DEFINE k == work.level
             b == work.bit
             new == SetBits(m_levels[k], {b}, b)
             P == Blk("work", k, b)
             N == Blk("free", k, b)
  <1>1. /\ pc = "merge" /\ pc' = "idle" /\ work' = NoWork /\ ret' = "ok"
        /\ m_levels' = [m_levels EXCEPT ![k] = new]
        /\ m_size_free' = m_size_free \cup {k}
        /\ UNCHANGED live
    BY DEF DeallocateReturns, Return
  <1>2. TypeOK /\ Coherent /\ Disjoint /\ LiveAligned
    BY DEF IInv
  <1>3. k \in Sizes /\ b \in 0..LevelSize(k)-1 /\ b \in Nat
    <2>1. k \in Sizes /\ b \in 0..LevelSize(k)-1
      BY <1>1, <1>2 DEF TypeOK
    <2> QED BY <2>1, Geometry
  <1>4. P \in Owned /\ WorkBlocks = {P}
    BY <1>1 DEF Owned, WorkBlocks, Blk
  <1>5. b \notin m_levels[k].bin0
    <2> SUFFICES ASSUME b \in m_levels[k].bin0 PROVE FALSE
      OBVIOUS
    <2>1. N \in Owned /\ N # P
      BY <1>2, <1>3, FreeBlocksIff DEF Owned, Blk
    <2>2. Apart(N, P)
      BY <1>2, <1>4, <2>1 DEF Disjoint
    <2>3. b * SegSize[k] + SegSize[k] <= b * SegSize[k]
      BY <2>2 DEF Apart, Blk
    <2>4. b * SegSize[k] \in 0..TotalUnits-1 /\ SegSize[k] \in Nat \ {0} /\ TotalUnits \in Nat
      BY <1>3, BlockBounds, Geometry
    <2> QED BY <2>3, <2>4, SMT
  <1>6. /\ GoodLevel(new) /\ new.bin0 = m_levels[k].bin0 \cup {b}
        /\ new.size = LevelSize(k)
    <2>1. GoodLevel(m_levels[k]) /\ m_levels[k].size = LevelSize(k)
      BY <1>1, <1>2, <1>3, LevelsGood
    <2>2. {b} \in SUBSET (0..m_levels[k].size-1) /\ {b} \cap m_levels[k].bin0 = {}
      BY <1>3, <1>5, <2>1
    <2> HIDE DEF b
    <2> QED BY <2>1, <2>2, SetBitsGood
  <1> HIDE DEF k, b, new
  <1>7. \A j \in Sizes : m_levels'[j] = IF j = k THEN new ELSE m_levels[j]
    BY <1>1, <1>2, <1>3 DEF TypeOK
  <1>8. TypeOK'
    <2>1. m_levels' \in [Sizes -> Level]
      BY <1>1, <1>2, <1>6 DEF TypeOK, GoodLevel
    <2>2. \A j \in Sizes : /\ m_levels'[j].size = LevelSize(j)
                          /\ m_levels'[j].bin0 \subseteq 0..m_levels'[j].size-1
      BY <1>1, <1>2, <1>6, <1>7 DEF TypeOK, GoodLevel
    <2>3. m_size_free' \subseteq Sizes
      BY <1>1, <1>2, <1>3 DEF TypeOK
    <2>4. work' \in [index : Sizes, level : Sizes, bit : Nat \cup {-1}]
      BY <1>1, Constants DEF NoWork
    <2> QED BY <1>1, <1>2, <2>1, <2>2, <2>3, <2>4 DEF TypeOK
  <1>9. Coherent'
    <2>1. \A j \in Sizes : GoodLevel(m_levels'[j])
      BY <1>2, <1>6, <1>7, LevelsGood
    <2>2. new.bin0 # {}
      BY <1>6
    <2>3. m_size_free' = {j \in Sizes : m_levels'[j].bin0 # {}}
      BY <1>1, <1>2, <1>3, <1>7, <2>2 DEF Coherent
    <2> QED BY <2>1, <2>3, CoherentAfter
  <1>10. Disjoint'
    <2>1. FreeBlocks' \subseteq (FreeBlocks \ {P}) \cup {N}
      <3>1. ASSUME NEW j \in Sizes, NEW c \in m_levels'[j].bin0
            PROVE  \/ c \in m_levels[j].bin0 /\ Blk("free", j, c) \notin {P}
                   \/ Blk("free", j, c) \in {N}
        <4>1. c \in m_levels[j].bin0 \/ (j = k /\ c = b)
          BY <1>6, <1>7
        <4> QED BY <4>1 DEF Blk
      <3> HIDE DEF P, N
      <3> QED BY <1>2, <3>1, FreeBlocksAfter
    <2>2. LiveBlocks' = LiveBlocks /\ WorkBlocks' = {} /\ P \notin LiveBlocks
      BY <1>1 DEF LiveBlocks, WorkBlocks, Blk
    <2>3. Owned' \subseteq (Owned \ {P}) \cup {N}
      BY <2>1, <2>2 DEF Owned
    <2>4. /\ \A s, t \in {N} : s # t => Apart(s, t)
          /\ \A s \in {N} : \A t \in Owned \ {P} : Apart(s, t)
      <3>1. \A t \in Owned \ {P} : Apart(P, t)
        BY <1>2, <1>4 DEF Disjoint
      <3> QED BY <3>1 DEF Apart, Blk
    <2> HIDE DEF P, N
    <2> QED BY <1>2, <2>3, <2>4, DisjointAfter
  <1> QED BY <1>1, <1>2, <1>8, <1>9, <1>10 DEF IInv, LiveAligned, SplitHoldsFree, DownIsEmpty

\* An iteration of the loop of deallocate: the free buddy leaves its level and
\* both halves go on as their parent, or, at the maximum size, as nobody's.
LEMMA MergeIInv ==
  ASSUME IInv, Merge
  PROVE  IInv'
  <1> DEFINE k == work.level
             b == work.bit
             v == Buddy(b)
             new == ClrBit(m_levels[k], v)
             W == Blk("work", k, b)
             V == Blk("free", k, v)
             N == Blk("work", k+1, b \div 2)
  <1>1. /\ pc = "merge" /\ v \in m_levels[k].bin0
        /\ m_levels' = [m_levels EXCEPT ![k] = new]
        /\ m_size_free' = SizeFreeAfterClr(k, new)
        /\ UNCHANGED live
    BY DEF Merge, BuddyIsFree
  <1>0. k + 1 >= NumSizes <=> k = TopSize
    <2>1. k \in Sizes
      BY DEF IInv, TypeOK
    <2> QED BY <2>1, GeometryAssumption, SMTT(60) DEF Sizes, TopSize
  <1>2. IF k = TopSize
        THEN pc' = "idle" /\ work' = NoWork /\ ret' = "ok"
        ELSE /\ work' = [work EXCEPT !.level = k+1, !.bit = b \div 2]
             /\ UNCHANGED <<pc, ret>>
    BY <1>0 DEF Merge, Return, LoopEnds
  <1>3. TypeOK /\ Coherent /\ Disjoint /\ LiveAligned
    BY DEF IInv
  <1>4. k \in Sizes /\ b \in 0..LevelSize(k)-1 /\ b \in Nat /\ v \in Nat
    <2>1. k \in Sizes /\ b \in 0..LevelSize(k)-1
      BY <1>1, <1>3 DEF TypeOK
    <2>2. v \in Nat
      BY <1>1, <1>3, <2>1, LevelsGood
    <2> QED BY <2>1, <2>2, Geometry
  <1>5. W \in Owned /\ WorkBlocks = {W} /\ V \in Owned /\ V \in FreeBlocks
    <2>1. V \in FreeBlocks
      BY <1>1, <1>3, <1>4, FreeBlocksIff
    <2> QED BY <1>1, <2>1 DEF Owned, WorkBlocks, Blk
  <1>6. /\ GoodLevel(new) /\ new.bin0 = m_levels[k].bin0 \ {v}
        /\ new.size = LevelSize(k)
    <2>1. GoodLevel(m_levels[k]) /\ m_levels[k].size = LevelSize(k)
      BY <1>1, <1>3, <1>4, LevelsGood
    <2> QED BY <1>1, <2>1, ClrBitGood
  <1>7. /\ b \div 2 \in Nat
        /\ \/ b = 2 * (b \div 2) /\ v = 2 * (b \div 2) + 1
           \/ b = 2 * (b \div 2) + 1 /\ v = 2 * (b \div 2)
    <2> HIDE DEF b
    <2> QED BY <1>4, SMT DEF Buddy
  <1> HIDE DEF k, b, v, new
  <1>8. \A j \in Sizes : m_levels'[j] = IF j = k THEN new ELSE m_levels[j]
    BY <1>1, <1>3, <1>4 DEF TypeOK
  <1>9. k # TopSize => /\ k + 1 \in Sizes /\ SegSize[k+1] = 2 * SegSize[k]
                       /\ b \div 2 \in 0..LevelSize(k+1)-1
    <2> SUFFICES ASSUME k # TopSize
                 PROVE  /\ k + 1 \in Sizes /\ SegSize[k+1] = 2 * SegSize[k]
                        /\ b \div 2 \in 0..LevelSize(k+1)-1
      OBVIOUS
    <2>1. k + 1 \in Sizes /\ k \in Nat
      BY <1>4, NextSize, Constants
    <2>2. k + 1 # 0 /\ (k + 1) - 1 = k
      BY <2>1
    <2>3. SegSize[k+1] = 2 * SegSize[(k+1)-1] /\ LevelSize((k+1)-1) = 2 * LevelSize(k+1)
      BY <2>1, <2>2, NextSize, LevelSizeHalves
    <2>4. SegSize[k+1] = 2 * SegSize[k] /\ LevelSize(k) = 2 * LevelSize(k+1)
      BY <2>2, <2>3
    <2>5. LevelSize(k+1) \in Nat
      BY <2>1, Geometry
    <2> QED BY <1>4, <1>7, <2>1, <2>4, <2>5, SMT
  <1>10. TypeOK'
    <2>1. m_levels' \in [Sizes -> Level]
      BY <1>1, <1>3, <1>6 DEF TypeOK, GoodLevel
    <2>2. \A j \in Sizes : /\ m_levels'[j].size = LevelSize(j)
                          /\ m_levels'[j].bin0 \subseteq 0..m_levels'[j].size-1
      BY <1>1, <1>3, <1>6, <1>8 DEF TypeOK, GoodLevel
    <2>3. m_size_free' \subseteq Sizes
      BY <1>1, <1>3 DEF SizeFreeAfterClr, TypeOK
    <2>4. CASE k = TopSize
      BY <1>1, <1>2, <1>3, <2>1, <2>2, <2>3, <2>4, Constants DEF TypeOK, NoWork
    <2>5. CASE k # TopSize
      <3>1. /\ work' \in [index : Sizes, level : Sizes, bit : Nat \cup {-1}]
            /\ work'.level = k+1 /\ work'.bit = b \div 2
        <4>1. work' = [work EXCEPT !.level = k+1, !.bit = b \div 2] /\ k + 1 \in Sizes
          BY <1>2, <1>9, <2>5
        <4>2. b \div 2 \in Nat /\ work \in [index : Sizes, level : Sizes, bit : Nat \cup {-1}]
          BY <1>3, <1>7 DEF TypeOK
        <4> QED BY <4>1, <4>2
      <3> QED BY <1>1, <1>2, <1>3, <1>9, <2>1, <2>2, <2>3, <2>5, <3>1 DEF TypeOK
    <2> QED BY <2>4, <2>5
  <1>11. Coherent'
    <2>1. \A j \in Sizes : GoodLevel(m_levels'[j])
      BY <1>3, <1>6, <1>8, LevelsGood
    <2>2. new.count = 0 <=> new.bin0 = {}
      BY <1>6, LevelFinite
    <2>3. m_size_free' = {j \in Sizes : m_levels'[j].bin0 # {}}
      BY <1>1, <1>3, <1>4, <1>8, <2>2 DEF SizeFreeAfterClr, Coherent
    <2> QED BY <2>1, <2>3, CoherentAfter
  <1>12. FreeBlocks' \subseteq (FreeBlocks \ {V}) \cup {}
    <2>1. ASSUME NEW j \in Sizes, NEW c \in m_levels'[j].bin0
          PROVE  c \in m_levels[j].bin0 /\ Blk("free", j, c) # V
      <3>1. c \in m_levels[j].bin0 /\ c \in Nat /\ (j = k => c # v)
        BY <1>3, <1>6, <1>8, LevelsGood
      <3> QED BY <1>4, <3>1, BlkInjective
    <2> HIDE DEF V
    <2> QED BY <1>3, <2>1, FreeBlocksAfter
  <1>13. /\ LiveBlocks' = LiveBlocks /\ V \notin LiveBlocks /\ W \notin LiveBlocks
         /\ W \notin FreeBlocks
    BY <1>1 DEF LiveBlocks, FreeBlocks, Blk
  <1>14. Disjoint'
    <2>1. CASE k = TopSize
      <3>1. WorkBlocks' = {}
        BY <1>2, <2>1 DEF WorkBlocks
      <3>2. Owned' \subseteq (Owned \ {V, W}) \cup {}
        BY <1>12, <1>13, <3>1 DEF Owned
      <3> HIDE DEF V, W
      <3> QED BY <1>3, <3>2, DisjointAfter, ZenonT(60)
    <2>2. CASE k # TopSize
      <3>1. WorkBlocks' = {N}
        <4>1. pc' = "merge" /\ work'.level = k+1 /\ work'.bit = b \div 2
          BY <1>1, <1>2, <1>3, <2>2 DEF TypeOK
        <4> QED BY <4>1 DEF WorkBlocks, Blk
      <3>2. Owned' \subseteq (Owned \ {V, W}) \cup {N}
        BY <1>12, <1>13, <3>1 DEF Owned
      <3>3. ASSUME NEW t \in Owned \ {V, W}
            PROVE  Apart(N, t)
        <4> DEFINE s == SegSize[k]
                   p == b \div 2
        <4>1. Apart(W, t) /\ Apart(V, t)
          BY <1>3, <1>5 DEF Disjoint
        <4>2. t \in BlockSet
          BY <1>3, OwnedTyped
        <4>3. t.ptr \in Nat /\ SegSize[t.index] \in Nat \ {0}
          BY <4>2, Geometry DEF BlockSet
        <4>4. s \in Nat \ {0} /\ p \in Nat /\ SegSize[k+1] = 2 * s
          BY <1>4, <1>7, <1>9, <2>2, Geometry
        <4>5. /\ b * s + s <= t.ptr \/ t.ptr + SegSize[t.index] <= b * s
              /\ v * s + s <= t.ptr \/ t.ptr + SegSize[t.index] <= v * s
          BY <4>1 DEF Apart, Blk
        <4>6. (b = 2 * p /\ v = 2 * p + 1) \/ (b = 2 * p + 1 /\ v = 2 * p)
          BY <1>7
        <4> HIDE DEF s, p
        <4>7. (2 * p) * s = p * (2 * s) /\ (2 * p + 1) * s = p * (2 * s) + s /\ p * (2 * s) \in Nat
          BY <4>4, SMT
        <4>8. p * (2 * s) + 2 * s <= t.ptr \/ t.ptr + SegSize[t.index] <= p * (2 * s)
          <5>1. CASE b = 2 * p /\ v = 2 * p + 1
            BY <4>3, <4>4, <4>5, <4>7, <5>1, SMT
          <5>2. CASE b = 2 * p + 1 /\ v = 2 * p
            BY <4>3, <4>4, <4>5, <4>7, <5>2, SMT
          <5> QED BY <4>6, <5>1, <5>2
        <4> QED BY <4>4, <4>8 DEF Apart, Blk, p
      <3> HIDE DEF V, W, N
      <3>4. /\ \A s, t \in {N} : s # t => Apart(s, t)
            /\ \A s \in {N} : \A t \in Owned \ {V, W} : Apart(s, t)
        BY <3>3
      <3> QED BY <1>3, <3>2, <3>4, DisjointAfter
    <2> QED BY <2>1, <2>2
  <1>15. pc' \in {"idle", "merge"}
    BY <1>1, <1>2
  <1> QED BY <1>1, <1>3, <1>10, <1>11, <1>14, <1>15
          DEF IInv, LiveAligned, SplitHoldsFree, DownIsEmpty

-----------------------------------------------------------------------------
(* The theorems                                                            *)

LEMMA IInvInductive == IInv /\ [Next]_vars => IInv'
  <1> SUFFICES ASSUME IInv, [Next]_vars
               PROVE  IInv'
    OBVIOUS
  <1>1. CASE Initialize
    BY <1>1, InitializeIInv
  <1>2. CASE Teardown
    BY <1>2, TeardownIInv
  <1>3. ASSUME NEW i \in Sizes, AllocateFails(i) PROVE IInv'
    BY <1>3, AllocateFailsIInv
  <1>4. ASSUME NEW i \in Sizes, AllocateFinds(i) PROVE IInv'
    BY <1>4, AllocateFindsIInv
  <1>5. CASE Split
    BY <1>5, SplitIInv
  <1>6. CASE AllocateReturns
    BY <1>6, AllocateReturnsIInv
  <1>7. ASSUME NEW a \in BadArguments, DeallocateInvalid(a[1], a[2]) PROVE IInv'
    BY <1>7, DeallocateInvalidIInv
  <1>8. ASSUME NEW r \in live, Deallocate(r) PROVE IInv'
    BY <1>8, DeallocateIInv
  <1>9. CASE Merge
    BY <1>9, MergeIInv
  <1>10. CASE DeallocateReturns
    BY <1>10, DeallocateReturnsIInv
  <1>11. CASE UNCHANGED vars
    <2>1. UNCHANGED <<m_levels, m_size_free, pc, work, ret, live>>
      BY <1>11 DEF vars
    <2>2. TypeOK'
      BY <2>1 DEF IInv, TypeOK
    <2>3. Coherent'
      BY <2>1 DEF IInv, Coherent
    <2>4. FreeBlocks' = FreeBlocks /\ LiveBlocks' = LiveBlocks /\ WorkBlocks' = WorkBlocks
      BY <2>1 DEF FreeBlocks, LiveBlocks, WorkBlocks
    <2>5. Disjoint'
      BY <2>4 DEF IInv, Disjoint, Owned
    <2> QED BY <2>1, <2>2, <2>3, <2>5 DEF IInv, LiveAligned, SplitHoldsFree, DownIsEmpty
  <1> QED BY <1>1, <1>2, <1>3, <1>4, <1>5, <1>6, <1>7, <1>8, <1>9, <1>10, <1>11 DEF Next

LEMMA InvariantOfSegment == Spec => []IInv
  BY InitIInv, IInvInductive, PTL DEF Spec

\* The buddy allocator stays type correct: every set bit is below the size of
\* its level, and the loops stay within the levels.
THEOREM SegmentTypeOK == Spec => []TypeOK
  <1>1. IInv => TypeOK
    BY DEF IInv
  <1> QED BY <1>1, InvariantOfSegment, PTL

\* Two blocks, free, handed out or being given back, never share a unit,
\* whatever the geometry: no memory is handed out twice.
THEOREM SegmentDisjoint == Spec => []Disjoint
  <1>1. IInv => Disjoint
    BY DEF IInv
  <1> QED BY <1>1, InvariantOfSegment, PTL

\* The layers of the binmaps, the counts and m_size_free always agree, so that
\* find_bit never follows a bit into an empty word.
THEOREM SegmentCoherent == Spec => []Coherent
  <1>1. IInv => Coherent
    BY DEF IInv
  <1> QED BY <1>1, InvariantOfSegment, PTL

-----------------------------------------------------------------------------
(* Segment implements RegionAllocator                                      *)

\* The regions the client holds, as the refinement mapping has them.
RegionOf(r) == [ptr |-> r.ptr, len |-> SegSize[r.index]]
LiveRegions == {RegionOf(r) : r \in live}

\* The block that allocate is about to return is apart from all the client has.
LEMMA FoundApartFromLive ==
  ASSUME IInv, pc = "split", work.level <= work.index,
         NEW new, new = [ptr |-> work.bit * SegSize[work.index], index |-> work.index]
  PROVE  /\ new.ptr \in 0..TotalUnits-1 /\ new.index \in Sizes
         /\ new.ptr + SegSize[new.index] <= TotalUnits
         /\ \A s \in live : Apart(new, s)
  <1> DEFINE i == work.index
             b == work.bit
  <1>1. TypeOK /\ Coherent /\ Disjoint
    BY DEF IInv
  <1>2. i \in Sizes /\ work.level = i /\ b \in m_levels[i].bin0
    <2>1. work.level \in Nat /\ i \in Nat /\ i \in Sizes
      BY <1>1, Constants DEF TypeOK
    <2> QED BY <2>1 DEF IInv, SplitHoldsFree
  <1>3. b \in 0..LevelSize(i)-1
    BY <1>1, <1>2, LevelsGood
  <1> HIDE DEF i, b
  <1>4. b * SegSize[i] \in 0..TotalUnits-1 /\ b * SegSize[i] + SegSize[i] <= TotalUnits
    BY <1>2, <1>3, BlockBounds
  <1>5. Blk("free", i, b) \in Owned
    BY <1>1, <1>2, FreeBlocksIff DEF Owned
  <1>6. ASSUME NEW s \in live
        PROVE  Apart(new, s)
    <2> DEFINE l == [kind |-> "live", ptr |-> s.ptr, index |-> s.index]
    <2>1. l \in Owned
      BY DEF Owned, LiveBlocks
    <2>2. l # Blk("free", i, b)
      BY DEF Blk
    <2>3. Apart(Blk("free", i, b), l)
      BY <1>1, <1>5, <2>1, <2>2 DEF Disjoint
    <2> QED BY <2>3 DEF Apart, Blk, i, b
  <1> QED BY <1>2, <1>4, <1>6 DEF i, b

LEMMA RefinesAllocate ==
  ASSUME IInv, AllocateReturns
  PROVE  Regions!Allocate
  <1> DEFINE new == [ptr |-> work.bit * SegSize[work.index], index |-> work.index]
  <1>1. pc = "split" /\ work.level <= work.index /\ live' = live \cup {new}
    BY DEF AllocateReturns
  <1>2. /\ new.ptr \in 0..TotalUnits-1 /\ new.index \in Sizes
        /\ new.ptr + SegSize[new.index] <= TotalUnits
        /\ \A s \in live : Apart(new, s)
    BY <1>1, FoundApartFromLive
  <1> HIDE DEF new
  <1>3. LiveRegions' = LiveRegions \cup {RegionOf(new)}
    BY <1>1 DEF LiveRegions, RegionOf
  <1>4. RegionOf(new) \in Regions!Region /\ Regions!InRange(RegionOf(new))
    <2>1. SegSize[new.index] \in Nat \ {0} /\ TotalUnits \in Nat
      BY <1>2, Geometry, GeometryAssumption
    <2>2. SegSize[new.index] \in 0..TotalUnits /\ new.ptr \in 0..TotalUnits
      BY <1>2, <2>1
    <2> QED BY <1>2, <2>2 DEF Regions!Region, Regions!InRange, RegionOf
  <1>5. \A s \in LiveRegions : Regions!Apart(RegionOf(new), s)
    BY <1>2 DEF LiveRegions, RegionOf, Regions!Apart, Apart
  <1> QED BY <1>3, <1>4, <1>5 DEF Regions!Allocate, LiveRegions, RegionOf

\* Every other step takes blocks from the client or leaves it what it has.
LEMMA RefinesRelease ==
  ASSUME live' \subseteq live
  PROVE  Regions!Release
  BY DEF Regions!Release

LEMMA RefinesNext ==
  ASSUME IInv, [Next]_vars
  PROVE  [Regions!Next]_LiveRegions
  <1>1. CASE AllocateReturns
    BY <1>1, RefinesAllocate DEF Regions!Next
  <1>2. CASE ~AllocateReturns
    <2>1. live' \subseteq live
      BY <1>2 DEF Next, vars, Initialize, Teardown, AllocateFails, AllocateFinds, Split,
                  DeallocateInvalid, Deallocate, Merge, Return, DeallocateReturns
    <2> QED BY <2>1, RefinesRelease DEF Regions!Next
  <1> QED BY <1>1, <1>2

\* Whatever the geometry, a client sees a region allocator: every block it gets
\* is inside the range and apart from all the blocks it still holds.
THEOREM SegmentImplementsRegions == Spec => ImplementsRegions
  <1>1. Init => Regions!Init
    BY DEF Init, Regions!Init
  <1>2. IInv /\ [Next]_vars => [Regions!Next]_LiveRegions
    BY RefinesNext
  <1> QED BY <1>1, <1>2, InvariantOfSegment, PTL
          DEF Spec, ImplementsRegions, Regions!Spec, LiveRegions, RegionOf


-----------------------------------------------------------------------------
(* Merging: the inductive invariant                                        *)

\* Below the maximum size two free buddies are the halves of a block that a
\* running allocate has just split, and it goes on with one of them.
PairsAreSplit ==
  \A i \in Sizes \ {TopSize} : \A b \in m_levels[i].bin0 :
    Buddy(b) \in m_levels[i].bin0 =>
      pc = "split" /\ i = work.level /\ work.bit \in {b, Buddy(b)}

\* While the report stands, no block of the size or a larger one gets free.
OOMLevels == (pc = "idle" /\ ret = "oom") => \A k \in m_size_free : k < work.index

DownSaysNone == pc = "down" => ret = "none"

MInv ==
  /\ IInv
  /\ PairsAreSplit
  /\ OOMLevels
  /\ DownSaysNone

LEMMA BuddyFacts ==
  ASSUME NEW b \in Nat
  PROVE  /\ Buddy(b) \in Nat /\ Buddy(b) # b
         /\ Buddy(Buddy(b)) = b
         /\ Buddy(2*b) = 2*b + 1 /\ Buddy(2*b + 1) = 2*b
  BY SMT DEF Buddy

LEMMA BitsAreNat ==
  ASSUME IInv, NEW i \in Sizes
  PROVE  m_levels[i] \in Level /\ m_levels[i].bin0 \subseteq Nat
  BY LevelsGood DEF IInv, TypeOK

\* What the operations of a binmap do to its lowest layer.
LEMMA LowestLayer ==
  ASSUME NEW level \in Level, NEW bit, NEW bits
  PROVE  /\ ClrBit(level, bit).bin0 = level.bin0 \ {bit}
         /\ SetBits(level, bits, bit).bin0 = level.bin0 \cup bits
  BY DEF ClrBit, SetBits, Level

\* Pairs that a step leaves are pairs that there were.
LEMMA FewerPairs ==
  ASSUME MInv, \A i \in Sizes : m_levels'[i].bin0 \subseteq m_levels[i].bin0,
         pc # "split"
  PROVE  PairsAreSplit'
  BY DEF MInv, PairsAreSplit, Buddy

LEMMA SplitPairs ==
  ASSUME MInv, Split
  PROVE  PairsAreSplit'
  <1> DEFINE k   == work.level
             bit == 2 * work.bit
             upper == ClrBit(m_levels[k], work.bit)
             lower == SetBits(m_levels[k-1], {bit, bit + 1}, bit)
  <1>1. /\ pc = "split" /\ pc' = "split"
        /\ m_levels' = [m_levels EXCEPT ![k] = upper, ![k-1] = lower]
        /\ work' = [work EXCEPT !.level = k-1, !.bit = bit]
        /\ k > work.index
    BY DEF Split
  <1>2. /\ k \in Sizes /\ k - 1 \in Sizes /\ k # k - 1 /\ work.bit \in m_levels[k].bin0
        /\ work.bit \in Nat /\ m_levels \in [Sizes -> Level]
        /\ work'.level = k - 1 /\ work'.bit = bit
    <2>1. /\ k \in Sizes /\ work.index \in Sizes /\ m_levels \in [Sizes -> Level]
          /\ work \in [index : Sizes, level : Sizes, bit : Nat \cup {-1}]
      BY DEF MInv, IInv, TypeOK
    <2>2. k - 1 \in Sizes /\ k # k - 1
      BY <1>1, <2>1, NextSize, Constants
    <2>3. work.bit \in m_levels[k].bin0
      BY <1>1 DEF MInv, IInv, SplitHoldsFree
    <2> QED BY <1>1, <2>1, <2>2, <2>3, BitsAreNat DEF MInv
  <1>3. /\ m_levels'[k].bin0 = m_levels[k].bin0 \ {work.bit}
        /\ m_levels'[k-1].bin0 = m_levels[k-1].bin0 \cup {bit, bit + 1}
        /\ \A i \in Sizes \ {k, k-1} : m_levels'[i] = m_levels[i]
    <2>1. upper.bin0 = m_levels[k].bin0 \ {work.bit}
      BY <1>2, LowestLayer
    <2>2. lower.bin0 = m_levels[k-1].bin0 \cup {bit, bit + 1}
      BY <1>2, LowestLayer
    <2> HIDE DEF upper, lower
    <2> QED BY <1>1, <1>2, <2>1, <2>2
  <1>4. bit \in Nat /\ Buddy(bit) = bit + 1 /\ Buddy(bit + 1) = bit
    BY <1>2, BuddyFacts
  <1> HIDE DEF k, bit, upper, lower
  <1> SUFFICES ASSUME NEW i \in Sizes \ {TopSize}, NEW b \in m_levels'[i].bin0,
                      Buddy(b) \in m_levels'[i].bin0
               PROVE  i = k - 1 /\ bit \in {b, Buddy(b)}
    BY <1>1, <1>2 DEF PairsAreSplit, Buddy
  <1>5. ASSUME b \in m_levels[i].bin0, Buddy(b) \in m_levels[i].bin0
        PROVE  i = k /\ work.bit \in {b, Buddy(b)}
    BY <1>5 DEF MInv, PairsAreSplit, k
  <1>6. CASE i = k
    BY <1>3, <1>5, <1>6
  <1>7. CASE i \notin {k, k-1}
    BY <1>3, <1>5, <1>7
  <1>8. CASE i = k - 1
    <2>1. b \in Nat
      BY <1>2, <1>3, <1>4, <1>8, BitsAreNat DEF MInv
    <2>2. CASE b \in {bit, bit + 1}
      BY <1>4, <1>8, <2>2
    <2>3. CASE b \notin {bit, bit + 1}
      <3>1. b \in m_levels[i].bin0
        BY <1>3, <1>8, <2>3
      <3>2. CASE Buddy(b) \in {bit, bit + 1}
        <4>1. b \in {bit, bit + 1}
          BY <1>4, <2>1, <3>2, BuddyFacts
        <4> QED BY <2>3, <4>1
      <3>3. CASE Buddy(b) \notin {bit, bit + 1}
        BY <1>2, <1>3, <1>5, <1>8, <3>1, <3>3
      <3> QED BY <3>2, <3>3
    <2> QED BY <2>2, <2>3
  <1> QED BY <1>6, <1>7, <1>8

LEMMA AllocateReturnsPairs ==
  ASSUME MInv, AllocateReturns
  PROVE  PairsAreSplit'
  <1> DEFINE k == work.index
  <1>1. /\ pc = "split"
        /\ m_levels' = [m_levels EXCEPT ![k] = ClrBit(m_levels[k], work.bit)]
        /\ work.level <= k
    BY DEF AllocateReturns
  <1>2. k \in Sizes /\ work.level = k /\ m_levels \in [Sizes -> Level]
    <2>1. work.level \in Nat /\ k \in Nat /\ k \in Sizes /\ work.level >= k
      BY <1>1, Constants DEF MInv, IInv, TypeOK, SplitHoldsFree
    <2> QED BY <1>1, <2>1 DEF MInv, IInv, TypeOK
  <1>3. /\ m_levels'[k].bin0 = m_levels[k].bin0 \ {work.bit}
        /\ \A i \in Sizes \ {k} : m_levels'[i] = m_levels[i]
    BY <1>1, <1>2, LowestLayer
  <1> HIDE DEF k
  <1> SUFFICES ASSUME NEW i \in Sizes \ {TopSize}, NEW b \in m_levels'[i].bin0,
                      Buddy(b) \in m_levels'[i].bin0
               PROVE  FALSE
    BY DEF PairsAreSplit, Buddy
  <1>4. b \in m_levels[i].bin0 /\ Buddy(b) \in m_levels[i].bin0
    BY <1>3
  <1>5. i = k /\ work.bit \in {b, Buddy(b)}
    BY <1>2, <1>4 DEF MInv, PairsAreSplit
  <1> QED BY <1>3, <1>5

\* Only a bit whose buddy is not set is set.
LEMMA DeallocateReturnsPairs ==
  ASSUME MInv, DeallocateReturns
  PROVE  PairsAreSplit'
  <1> DEFINE k == work.level
  <1>1. /\ pc = "merge" /\ Buddy(work.bit) \notin m_levels[k].bin0
        /\ m_levels' = [m_levels EXCEPT ![k] = SetBits(@, {work.bit}, work.bit)]
    BY DEF DeallocateReturns, BuddyIsFree
  <1>2. k \in Sizes /\ m_levels \in [Sizes -> Level] /\ work.bit \in Nat
    <2>1. k \in Sizes /\ work.bit \in 0..LevelSize(k)-1
      BY <1>1 DEF MInv, IInv, TypeOK
    <2> QED BY <2>1, Geometry DEF MInv, IInv, TypeOK
  <1>3. /\ m_levels'[k].bin0 = m_levels[k].bin0 \cup {work.bit}
        /\ \A i \in Sizes \ {k} : m_levels'[i] = m_levels[i]
    BY <1>1, <1>2, LowestLayer
  <1> HIDE DEF k
  <1> SUFFICES ASSUME NEW i \in Sizes \ {TopSize}, NEW b \in m_levels'[i].bin0,
                      Buddy(b) \in m_levels'[i].bin0
               PROVE  FALSE
    BY DEF PairsAreSplit, Buddy
  <1>4. ~(b \in m_levels[i].bin0 /\ Buddy(b) \in m_levels[i].bin0)
    BY <1>1 DEF MInv, PairsAreSplit
  <1>5. i = k /\ (b = work.bit \/ Buddy(b) = work.bit)
    BY <1>3, <1>4
  <1>6. b \in Nat
    BY <1>2, <1>3, <1>5, BitsAreNat DEF MInv
  <1>7. Buddy(work.bit) # work.bit /\ Buddy(Buddy(b)) = b /\ Buddy(b) # b
    BY <1>2, <1>6, BuddyFacts
  <1>8. CASE b = work.bit
    BY <1>1, <1>3, <1>5, <1>7, <1>8
  <1>9. CASE Buddy(b) = work.bit
    BY <1>1, <1>3, <1>5, <1>7, <1>9
  <1> QED BY <1>5, <1>8, <1>9

LEMMA MergePairs ==
  ASSUME MInv, Merge
  PROVE  PairsAreSplit'
  <1> DEFINE k == work.level
             new == ClrBit(m_levels[k], Buddy(work.bit))
  <1>1. pc = "merge" /\ m_levels' = [m_levels EXCEPT ![k] = new]
    BY DEF Merge
  <1>2. k \in Sizes /\ m_levels \in [Sizes -> Level]
    BY DEF MInv, IInv, TypeOK
  <1>3. \A i \in Sizes : m_levels'[i].bin0 \subseteq m_levels[i].bin0
    <2>1. new.bin0 = m_levels[k].bin0 \ {Buddy(work.bit)}
      BY <1>2, LowestLayer
    <2> HIDE DEF new, k
    <2> QED BY <1>1, <1>2, <2>1
  <1> QED BY <1>1, <1>3, FewerPairs

LEMMA InitializePairs ==
  ASSUME Initialize
  PROVE  PairsAreSplit'
  <1>1. \A i \in Sizes \ {TopSize} : m_levels'[i].bin0 = {}
    BY DEF Initialize, NewLevel
  <1> QED BY <1>1 DEF PairsAreSplit

LEMMA EmptyPairs ==
  ASSUME Init \/ Teardown
  PROVE  /\ Init => PairsAreSplit
         /\ Teardown => PairsAreSplit'
  BY DEF Init, Teardown, PairsAreSplit, NoLevel

-----------------------------------------------------------------------------
(* The report                                                              *)

\* find_bit finds a block in every level that m_size_free names.
LEMMA FailsOnlyIfNone ==
  ASSUME MInv, NEW i \in Sizes, AllocateFails(i)
  PROVE  \A k \in m_size_free : k < i
  <1> SUFFICES ASSUME ~\A k \in m_size_free : k < i
               PROVE  FALSE
    OBVIOUS
  <1> DEFINE S == {k \in m_size_free : k >= i}
             k == FreeIndex(i)
  <1>1. m_size_free \subseteq Sizes /\ Coherent /\ TypeOK /\ i \in Nat
    BY Constants DEF MInv, IInv, TypeOK
  <1>2. S \in SUBSET Nat /\ S # {}
    <2>1. m_size_free \subseteq Nat
      BY <1>1, Constants
    <2>2. PICK x \in m_size_free : ~(x < i)
      OBVIOUS
    <2>3. x \in S
      BY <1>1, <2>1, <2>2
    <2> QED BY <2>1, <2>3
  <1>3. k \in S
    BY <1>2, LeastOfIn DEF FreeIndex
  <1>4. k \in Sizes /\ m_levels[k].bin0 # {}
    BY <1>1, <1>3 DEF Coherent
  <1>5. FindBit(m_levels[k]) \in m_levels[k].bin0
    BY <1>1, <1>4, LevelsGood, FindBitFinds
  <1>6. FindBit(m_levels[k]) \in Nat
    BY <1>4, <1>5, BitsAreNat DEF MInv
  <1>7. FindBit(m_levels[k]) = -1
    BY DEF AllocateFails, FoundBit
  <1> QED BY <1>6, <1>7

LEMMA InitMInv == Init => MInv
  <1> SUFFICES ASSUME Init PROVE MInv
    OBVIOUS
  <1>1. IInv /\ PairsAreSplit
    BY InitIInv, EmptyPairs
  <1> QED BY <1>1 DEF MInv, OOMLevels, DownSaysNone, Init

LEMMA MInvInductive == MInv /\ [Next]_vars => MInv'
  <1> SUFFICES ASSUME MInv, [Next]_vars
               PROVE  PairsAreSplit' /\ OOMLevels' /\ DownSaysNone'
    BY IInvInductive DEF MInv
  <1> USE DEF MInv
  <1>1. CASE Initialize
    BY <1>1, InitializePairs DEF Initialize, OOMLevels, DownSaysNone
  <1>2. CASE Teardown
    BY <1>2, EmptyPairs DEF Teardown, OOMLevels, DownSaysNone
  <1>3. ASSUME NEW i \in Sizes, AllocateFails(i)
        PROVE  PairsAreSplit' /\ OOMLevels' /\ DownSaysNone'
    <2>1. m_levels' = m_levels /\ m_size_free' = m_size_free /\ pc = "idle" /\ pc' = pc
          /\ work'.index = i
      BY <1>3 DEF AllocateFails
    <2>2. PairsAreSplit'
      BY <2>1, FewerPairs
    <2>3. OOMLevels'
      BY <1>3, <2>1, FailsOnlyIfNone DEF OOMLevels
    <2> QED BY <2>1, <2>2, <2>3 DEF DownSaysNone
  <1>4. ASSUME NEW i \in Sizes, AllocateFinds(i)
        PROVE  PairsAreSplit' /\ OOMLevels' /\ DownSaysNone'
    <2>1. m_levels' = m_levels /\ pc = "idle" /\ pc' = "split"
      BY <1>4 DEF AllocateFinds
    <2>2. PairsAreSplit'
      BY <2>1, FewerPairs
    <2> QED BY <2>1, <2>2 DEF OOMLevels, DownSaysNone
  <1>5. CASE Split
    BY <1>5, SplitPairs DEF Split, OOMLevels, DownSaysNone
  <1>6. CASE AllocateReturns
    BY <1>6, AllocateReturnsPairs DEF AllocateReturns, OOMLevels, DownSaysNone
  <1>7. ASSUME NEW a \in BadArguments, DeallocateInvalid(a[1], a[2])
        PROVE  PairsAreSplit' /\ OOMLevels' /\ DownSaysNone'
    <2>1. m_levels' = m_levels /\ pc = "idle" /\ pc' = "idle" /\ ret' = "invalid"
      BY <1>7 DEF DeallocateInvalid
    <2> QED BY <2>1, FewerPairs DEF OOMLevels, DownSaysNone
  <1>8. ASSUME NEW r \in live, Deallocate(r)
        PROVE  PairsAreSplit' /\ OOMLevels' /\ DownSaysNone'
    <2>1. m_levels' = m_levels /\ pc = "idle" /\ pc' = "merge"
      BY <1>8 DEF Deallocate
    <2> QED BY <2>1, FewerPairs DEF OOMLevels, DownSaysNone
  <1>9. CASE Merge
    <2>1. pc' = "merge" \/ (pc' = "idle" /\ ret' = "ok")
      BY <1>9 DEF Merge, Return
    <2> QED BY <1>9, <2>1, MergePairs DEF OOMLevels, DownSaysNone
  <1>10. CASE DeallocateReturns
    BY <1>10, DeallocateReturnsPairs DEF DeallocateReturns, Return, OOMLevels, DownSaysNone
  <1>11. CASE UNCHANGED vars
    BY <1>11 DEF vars, PairsAreSplit, OOMLevels, DownSaysNone
  <1> QED BY <1>1, <1>2, <1>3, <1>4, <1>5, <1>6, <1>7, <1>8, <1>9, <1>10, <1>11 DEF Next

LEMMA InvariantOfMerging == Spec => []MInv
  BY InitMInv, MInvInductive, PTL DEF Spec

\* Between calls no two free buddies are left apart below the maximum size,
\* whatever the geometry and the order in which blocks are given back.
THEOREM SegmentCoalesced == Spec => []Coalesced
  <1>1. MInv => Coalesced
    BY DEF MInv, PairsAreSplit, Coalesced
  <1> QED BY <1>1, InvariantOfMerging, PTL

-----------------------------------------------------------------------------
(* Blocks within blocks                                                    *)

\* A larger block holds an even number of smaller ones.
LEMMA EvenMultiple ==
  ASSUME NEW i \in Sizes, NEW j \in Sizes, j < i
  PROVE  \E p \in Nat \ {0} : SegSize[i] = (2 * p) * SegSize[j]
  <1> DEFINE P(k) == \E p \in Nat \ {0} : SegSize[k] = (2 * p) * SegSize[j]
             S == {k \in Sizes : j < k /\ ~P(k)}
  <1> SUFFICES ASSUME S # {} PROVE FALSE
    OBVIOUS
  <1>1. S \in SUBSET Nat
    BY Constants
  <1>2. PICK k \in S : \A y \in S : k <= y
    BY <1>1, LeastExists
  <1>3. k \in Sizes /\ j < k /\ k \in Nat /\ j \in Nat /\ k # 0 /\ ~P(k)
    BY Constants
  <1>4. k - 1 \in Sizes /\ SegSize[k] = 2 * SegSize[k-1]
    BY <1>3, NextSize
  <1>5. CASE k - 1 = j
    <2>1. SegSize[k] = (2 * 1) * SegSize[j]
      BY <1>4, <1>5
    <2> QED BY <1>3, <2>1
  <1>6. CASE k - 1 # j
    <2>1. j < k - 1 /\ ~(k <= k - 1)
      BY <1>3, <1>6
    <2>2. P(k - 1)
      BY <1>2, <1>4, <2>1
    <2>3. PICK p \in Nat \ {0} : SegSize[k-1] = (2 * p) * SegSize[j]
      BY <2>2
    <2>4. SegSize[j] \in Nat
      BY Geometry
    <2> DEFINE s == SegSize[j]
    <2> HIDE DEF s
    <2>5. 2 * ((2 * p) * s) = (2 * (2 * p)) * s /\ 2 * p \in Nat \ {0}
      BY <2>4, SMT DEF s
    <2> QED BY <1>3, <1>4, <2>3, <2>5 DEF s
  <1> QED BY <1>5, <1>6

\* Products with one factor in common are in the order of the other factor.
LEMMA OrderOfProducts ==
  ASSUME NEW s \in Nat \ {0}, NEW a \in Nat, NEW b \in Nat
  PROVE  (a < b => a * s + s <= b * s) /\ (a * s < b * s => a < b) /\ a * s \in Nat
  <1>1. \A x, y \in Nat : x < y => x * s + s <= y * s
    BY SMT
  <1>2. a * s \in Nat /\ b * s \in Nat
    BY SMT
  <1>3. CASE a < b
    BY <1>1, <1>3
  <1>4. CASE a = b
    BY <1>2, <1>4
  <1>5. CASE b < a
    <2>1. b * s + s <= a * s
      BY <1>1, <1>5
    <2> QED BY <1>2, <1>5, <2>1
  <1> QED BY <1>2, <1>3, <1>4, <1>5

\* The number of the first of the small blocks in a large one.
LEMMA FirstPart ==
  ASSUME NEW s \in Nat \ {0}, NEW h \in Nat, NEW p \in Nat \ {0}
  PROVE  /\ h * p \in Nat
         /\ h * ((2 * p) * s) = (2 * (h * p)) * s
         /\ h * ((2 * p) * s) + (2 * p) * s = (2 * (h * p) + 2 * p) * s
  <1>1. h * p \in Nat /\ 2 * p \in Nat
    BY SMT
  <1>2. h * ((2 * p) * s) = (h * (2 * p)) * s
    BY <1>1, ProductAssociates
  <1>3. h * (2 * p) = 2 * (h * p)
    BY SMT
  <1>4. \A x, y \in Nat : x * s + y * s = (x + y) * s
    BY SMT
  <1>5. 2 * (h * p) \in Nat
    BY <1>1
  <1> QED BY <1>1, <1>2, <1>3, <1>4, <1>5

\* A small block that shares a unit with a large one is a part of it, and so is
\* its buddy.
LEMMA BuddyInside ==
  ASSUME NEW s \in Nat \ {0}, NEW h \in Nat, NEW p \in Nat \ {0},
         NEW c \in Nat, NEW x \in Nat,
         h * ((2 * p) * s) <= x, x < h * ((2 * p) * s) + (2 * p) * s,
         c * s <= x, x < c * s + s,
         NEW v \in {c, Buddy(c)}
  PROVE  /\ v \in Nat /\ v * s \in Nat
         /\ h * ((2 * p) * s) <= v * s
         /\ v * s < h * ((2 * p) * s) + (2 * p) * s
  <1> DEFINE n == h * p
             e == 2 * n
             f == 2 * n + 2 * p
  <1>1. /\ n \in Nat /\ e \in Nat /\ f \in Nat
        /\ h * ((2 * p) * s) = e * s
        /\ h * ((2 * p) * s) + (2 * p) * s = f * s
    <2>1. n \in Nat /\ h * ((2 * p) * s) = e * s /\ h * ((2 * p) * s) + (2 * p) * s = f * s
      BY FirstPart
    <2> HIDE DEF n
    <2> QED BY <2>1
  <1>2. e <= c /\ c < f
    <2> HIDE DEF e, f
    <2>1. c * s + s = (c + 1) * s /\ c * s \in Nat /\ e * s \in Nat /\ f * s \in Nat
      <3>1. c * s + s = (c + 1) * s
        BY SMT
      <3> QED BY <1>1, <3>1, OrderOfProducts
    <2>2. e * s < (c + 1) * s /\ c * s < f * s
      BY <1>1, <2>1
    <2>3. e < c + 1 /\ c < f
      BY <1>1, <2>2, OrderOfProducts
    <2> QED BY <1>1, <2>3
  <1>3. v \in Nat /\ e <= v /\ v < f
    <2> HIDE DEF n
    <2> QED BY <1>1, <1>2, SMT DEF Buddy
  <1> HIDE DEF e, f
  <1>4. /\ v * s \in Nat /\ e * s \in Nat /\ f * s \in Nat
        /\ v * s + s <= f * s
        /\ e < v => e * s + s <= v * s
    BY <1>1, <1>3, OrderOfProducts
  <1>5. e * s <= v * s
    <2>1. CASE e = v
      BY <1>4, <2>1
    <2>2. CASE e < v
      BY <1>4, <2>2
    <2> QED BY <1>1, <1>3, <2>1, <2>2
  <1> QED BY <1>1, <1>3, <1>4, <1>5

-----------------------------------------------------------------------------
(* No report while there is a block                                        *)

\* Block b of size index i has unit x.
Has(i, b, x) == b * SegSize[i] <= x /\ x < b * SegSize[i] + SegSize[i]

\* A free block and another free block of some size share no unit.
LEMMA FreeApart ==
  ASSUME IInv, NEW i \in Sizes, NEW b \in m_levels[i].bin0,
         NEW j \in Sizes, NEW c \in m_levels[j].bin0, i # j,
         NEW x \in Nat, Has(i, b, x)
  PROVE  ~Has(j, c, x)
  <1>1. Blk("free", i, b) \in Owned /\ Blk("free", j, c) \in Owned
    BY FreeBlocksIff DEF IInv, Owned
  <1>2. Apart(Blk("free", i, b), Blk("free", j, c))
    BY <1>1 DEF IInv, Disjoint, Blk
  <1>3. /\ b * SegSize[i] \in Nat /\ SegSize[i] \in Nat
        /\ c * SegSize[j] \in Nat /\ SegSize[j] \in Nat
    <2>1. Blk("free", i, b) \in BlockSet /\ Blk("free", j, c) \in BlockSet
      BY <1>1, OwnedTyped DEF IInv
    <2> QED BY <2>1, Geometry DEF BlockSet, Blk
  <1> QED BY <1>2, <1>3 DEF Apart, Blk, Has

\* A block made of free blocks that are all smaller: of the smallest of them
\* the buddy is free as well, and merging has not been done.
LEMMA NotMadeOfSmaller ==
  ASSUME MInv, pc = "idle",
         NEW i \in Sizes, NEW b \in 0..LevelSize(i)-1,
         \A x \in Nat : Has(i, b, x) =>
            \E j \in Sizes : j < i /\ \E c \in m_levels[j].bin0 : Has(j, c, x)
  PROVE  FALSE
  <1> DEFINE J == {j \in Sizes : j < i /\ \E c \in m_levels[j].bin0 :
                                            \E x \in Nat : Has(i, b, x) /\ Has(j, c, x)}
  <1>1. b \in Nat /\ b * SegSize[i] \in Nat /\ SegSize[i] \in Nat \ {0}
    <2>1. b * SegSize[i] \in 0..TotalUnits-1
      BY BlockBounds
    <2> QED BY <2>1, Geometry
  <1>2. Has(i, b, b * SegSize[i])
    BY <1>1 DEF Has
  <1>3. J \in SUBSET Nat /\ J # {}
    BY <1>1, <1>2, Constants
  <1>4. PICK m \in J : \A j \in J : m <= j
    BY <1>3, LeastExists
  <1>5. m \in Sizes /\ m < i /\ m # TopSize
    <2>1. i <= TopSize /\ i \in Nat /\ m \in Nat /\ m < i
      BY <1>3, GeometryAssumption DEF Sizes, TopSize
    <2> QED BY <2>1
  <1>6. PICK c \in m_levels[m].bin0 : \E x \in Nat : Has(i, b, x) /\ Has(m, c, x)
    BY <1>4
  <1>7. PICK x \in Nat : Has(i, b, x) /\ Has(m, c, x)
    BY <1>6
  <1> DEFINE s == SegSize[m]
             v == Buddy(c)
  <1>8. c \in Nat /\ v \in Nat /\ v # c /\ s \in Nat \ {0}
    BY <1>5, BitsAreNat, BuddyFacts, Geometry DEF MInv
  <1>9. Has(i, b, v * s) /\ v * s \in Nat
    <2>1. PICK p \in Nat \ {0} : SegSize[i] = (2 * p) * s
      BY <1>5, EvenMultiple
    <2> HIDE DEF s
    <2>2. /\ b * ((2 * p) * s) <= x /\ x < b * ((2 * p) * s) + (2 * p) * s
          /\ c * s <= x /\ x < c * s + s
      BY <1>7, <2>1 DEF Has, s
    <2>3. /\ b * ((2 * p) * s) <= v * s /\ v * s < b * ((2 * p) * s) + (2 * p) * s
          /\ v * s \in Nat
      BY <1>1, <1>8, <2>2, BuddyInside
    <2> QED BY <2>1, <2>3 DEF Has
  <1>10. PICK j \in Sizes : j < i /\ \E d \in m_levels[j].bin0 : Has(j, d, v * s)
    BY <1>9
  <1>11. PICK d \in m_levels[j].bin0 : Has(j, d, v * s)
    BY <1>10
  <1>12. j \in J /\ m <= j /\ j \in Nat /\ m \in Nat /\ d \in Nat
    BY <1>3, <1>4, <1>9, <1>10, <1>11, BitsAreNat DEF MInv
  <1>13. CASE j = m
    <2>1. d = v
      <3> HIDE DEF v, s
      <3>1. d * s <= v * s /\ v * s < d * s + s /\ d * s \in Nat /\ v * s \in Nat
        BY <1>8, <1>11, <1>12, <1>13, OrderOfProducts DEF Has, s
      <3>2. ~(v < d) /\ ~(d < v)
        <4>1. (v < d => v * s + s <= d * s) /\ (d < v => d * s + s <= v * s)
          BY <1>8, <1>12, OrderOfProducts
        <4> QED BY <1>8, <3>1, <4>1
      <3> QED BY <1>8, <1>12, <3>2
    <2>2. v \in m_levels[m].bin0
      BY <1>11, <1>13, <2>1
    <2> QED BY <1>5, <2>2 DEF MInv, PairsAreSplit
  <1>14. CASE j # m
    <2>1. m < j
      BY <1>12, <1>14
    <2>2. PICK p \in Nat \ {0} : SegSize[j] = (2 * p) * s
      BY <1>5, <2>1, EvenMultiple
    <2> HIDE DEF s, v
    <2>3. /\ d * ((2 * p) * s) <= v * s /\ v * s < d * ((2 * p) * s) + (2 * p) * s
          /\ v * s <= v * s /\ v * s < v * s + s
      BY <1>8, <1>9, <1>11, <2>2 DEF Has
    <2>4. c = Buddy(v)
      BY <1>8, BuddyFacts DEF v
    <2>5. /\ d * ((2 * p) * s) <= c * s /\ c * s < d * ((2 * p) * s) + (2 * p) * s
          /\ c * s \in Nat
      BY <1>8, <1>9, <1>12, <2>3, <2>4, BuddyInside
    <2>6. Has(j, d, c * s) /\ Has(m, c, c * s)
      BY <1>8, <2>2, <2>5 DEF Has, s
    <2> QED BY <1>5, <1>14, <2>5, <2>6, FreeApart DEF MInv
  <1> QED BY <1>13, <1>14

LEMMA ReportHonest == MInv => OOMIsHonest
  <1> SUFFICES ASSUME MInv, pc = "idle", ret = "oom",
                      NEW b \in 0..LevelSize(work.index)-1,
                      LET block == [ptr |-> b * SegSize[work.index], index |-> work.index]
                      IN  /\ \A r \in live : Apart(block, r)
                          /\ \A x \in Lost : ~(/\ block.ptr <= x
                                               /\ x < block.ptr + SegSize[block.index])
               PROVE  FALSE
    BY DEF OOMIsHonest
  <1> DEFINE i == work.index
             block == [ptr |-> b * SegSize[i], index |-> i]
  <1>1. i \in Sizes /\ TypeOK /\ Coherent
    BY DEF MInv, IInv, TypeOK
  <1>2. \A x \in Nat : Has(i, b, x) => x \in 0..TotalUnits-1
    BY <1>1, BlockBounds, Geometry DEF Has
  <1>3. ASSUME NEW x \in Nat, Has(i, b, x)
        PROVE  \E j \in Sizes : j < i /\ \E c \in m_levels[j].bin0 : Has(j, c, x)
    <2>1. x \notin Lost
      BY <1>3 DEF Has
    <2>2. PICK r \in Owned : r.ptr <= x /\ x < r.ptr + SegSize[r.index]
      BY <1>2, <1>3, <2>1 DEF Lost
    <2>3. r \notin LiveBlocks
      <3> SUFFICES ASSUME NEW l \in live,
                          r = [kind |-> "live", ptr |-> l.ptr, index |-> l.index]
                   PROVE  FALSE
        BY DEF LiveBlocks
      <3>1. Apart(block, l)
        OBVIOUS
      <3>2. /\ l.ptr \in Nat /\ SegSize[l.index] \in Nat
            /\ b * SegSize[i] \in Nat /\ SegSize[i] \in Nat
        BY <1>1, BlockBounds, Geometry DEF TypeOK
      <3> QED BY <1>3, <2>2, <3>1, <3>2 DEF Apart, Has
    <2>4. r \in FreeBlocks
      BY <2>3 DEF Owned, WorkBlocks
    <2>5. PICK c \in m_levels[r.index].bin0 : r = Blk("free", r.index, c)
      BY <2>4, FreeBlockIs
    <2>6. r.index \in Sizes /\ r.index \in m_size_free /\ r.index < i
      BY <1>1, <2>4, <2>5, FreeBlockIs DEF Coherent, MInv, OOMLevels
    <2>7. Has(r.index, c, x)
      BY <2>2, <2>5 DEF Has, Blk
    <2> QED BY <2>6, <2>7
  <1> QED BY <1>1, <1>3, NotMadeOfSmaller

\* When allocate reports "Fragmented / OOM", every aligned block of the size
\* has a unit in use or lost: no sequence of calls makes it miss a block.
THEOREM SegmentOOMIsHonest == Spec => []OOMIsHonest
  BY ReportHonest, InvariantOfMerging, PTL


-----------------------------------------------------------------------------
(* Owners of a unit                                                        *)

FreeHas(x) == \E i \in Sizes : \E b \in m_levels[i].bin0 : Has(i, b, x)
LiveHas(x) == \E r \in live : r.ptr <= x /\ x < r.ptr + SegSize[r.index]
WorkHas(x) == pc = "merge" /\ Has(work.level, work.bit, x)

Kept(x) == FreeHas(x) \/ LiveHas(x) \/ WorkHas(x)

Units == 0..TotalUnits-1

\* The units nobody owns, from the bits, the blocks and the running call.
LEMMA LostIff == IInv => Lost = {x \in Units : ~Kept(x)}
  <1> SUFFICES ASSUME IInv, NEW x \in Units
               PROVE  Kept(x) <=> \E r \in Owned : r.ptr <= x /\ x < r.ptr + SegSize[r.index]
    BY DEF Lost, Units
  <1>1. TypeOK /\ Coherent
    BY DEF IInv
  <1>2. FreeHas(x) <=> \E r \in FreeBlocks : r.ptr <= x /\ x < r.ptr + SegSize[r.index]
    <2>1. ASSUME NEW i \in Sizes, NEW b \in m_levels[i].bin0, Has(i, b, x)
          PROVE  \E r \in FreeBlocks : r.ptr <= x /\ x < r.ptr + SegSize[r.index]
      <3>1. Blk("free", i, b) \in FreeBlocks
        BY <1>1, FreeBlocksIff
      <3>2. Blk("free", i, b).ptr = b * SegSize[i] /\ Blk("free", i, b).index = i
        BY DEF Blk
      <3> QED BY <2>1, <3>1, <3>2 DEF Has
    <2>2. ASSUME NEW r \in FreeBlocks, r.ptr <= x, x < r.ptr + SegSize[r.index]
          PROVE  FreeHas(x)
      <3>1. PICK b \in m_levels[r.index].bin0 : r = Blk("free", r.index, b)
        BY FreeBlockIs
      <3>2. r.index \in Sizes /\ Has(r.index, b, x)
        BY <2>2, <3>1, FreeBlockIs DEF Has, Blk
      <3> QED BY <3>2 DEF FreeHas
    <2> QED BY <2>1, <2>2 DEF FreeHas
  <1>3. LiveHas(x) <=> \E r \in LiveBlocks : r.ptr <= x /\ x < r.ptr + SegSize[r.index]
    <2>1. ASSUME NEW r \in live
          PROVE  LET l == [kind |-> "live", ptr |-> r.ptr, index |-> r.index]
                 IN  l \in LiveBlocks /\ l.ptr = r.ptr /\ l.index = r.index
      BY DEF LiveBlocks
    <2>2. ASSUME NEW l \in LiveBlocks
          PROVE  \E r \in live : l.ptr = r.ptr /\ l.index = r.index
      BY DEF LiveBlocks
    <2> QED BY <2>1, <2>2 DEF LiveHas
  <1>4. WorkHas(x) <=> \E r \in WorkBlocks : r.ptr <= x /\ x < r.ptr + SegSize[r.index]
    <2> DEFINE w == [kind |-> "work", ptr |-> work.bit * SegSize[work.level],
                     index |-> work.level]
    <2>1. WorkBlocks = IF pc = "merge" THEN {w} ELSE {}
      BY DEF WorkBlocks
    <2>2. w.ptr = work.bit * SegSize[work.level] /\ w.index = work.level
      OBVIOUS
    <2> HIDE DEF w
    <2> QED BY <2>1, <2>2 DEF WorkHas, Has
  <1> QED BY <1>2, <1>3, <1>4 DEF Kept, Owned

LEMMA LostIffNext == IInv' => Lost' = {x \in Units : ~Kept(x)'}
  <1>1. (IInv => Lost = {x \in Units : ~Kept(x)})'
    BY LostIff, PTL
  <1> QED BY <1>1 DEF Units

\* A step after which the same units are kept loses nothing.
LEMMA NothingLostBy ==
  ASSUME IInv, IInv', \A x \in Units : Kept(x)' <=> Kept(x)
  PROVE  Lost' = Lost
  BY LostIff, LostIffNext

\* A block has the units of its two halves.
LEMMA HalvesHave ==
  ASSUME NEW i \in Sizes, i # 0, NEW n \in Nat, NEW x \in Nat
  PROVE  Has(i, n, x) <=> Has(i-1, 2*n, x) \/ Has(i-1, 2*n + 1, x)
  <1> DEFINE s == SegSize[i-1]
  <1>1. s \in Nat \ {0} /\ SegSize[i] = 2 * s
    BY NextSize, Geometry
  <1> HIDE DEF s
  <1>2. /\ n * (2 * s) = (2 * n) * s
        /\ (2 * n + 1) * s = (2 * n) * s + s
        /\ (2 * n) * s \in Nat
    <2>1. 2 * n \in Nat
      OBVIOUS
    <2> QED BY <1>1, <2>1, SMT
  <1> QED BY <1>1, <1>2 DEF Has, s

\* When one level loses or gets a bit.
LEMMA FreeHasAfter ==
  ASSUME NEW k \in Sizes, NEW x,
         \A i \in Sizes \ {k} : m_levels'[i] = m_levels[i]
  PROVE  /\ \A b \in m_levels[k].bin0 : m_levels'[k].bin0 = m_levels[k].bin0 \ {b} =>
              (FreeHas(x) <=> FreeHas(x)' \/ Has(k, b, x))
         /\ \A b : m_levels'[k].bin0 = m_levels[k].bin0 \cup {b} =>
              (FreeHas(x)' <=> FreeHas(x) \/ Has(k, b, x))
  <1>1. ASSUME NEW b \in m_levels[k].bin0, m_levels'[k].bin0 = m_levels[k].bin0 \ {b}
        PROVE  FreeHas(x) <=> FreeHas(x)' \/ Has(k, b, x)
    BY <1>1 DEF FreeHas, Has
  <1>2. ASSUME NEW b, m_levels'[k].bin0 = m_levels[k].bin0 \cup {b}
        PROVE  FreeHas(x)' <=> FreeHas(x) \/ Has(k, b, x)
    BY <1>2 DEF FreeHas, Has
  <1> QED BY <1>1, <1>2

\* The levels after an operation on one of them.
LEMMA OneLevel ==
  ASSUME IInv, NEW k \in Sizes, NEW b,
         \/ m_levels' = [m_levels EXCEPT ![k] = ClrBit(m_levels[k], b)]
         \/ m_levels' = [m_levels EXCEPT ![k] = SetBits(m_levels[k], {b}, b)]
  PROVE  /\ \A i \in Sizes \ {k} : m_levels'[i] = m_levels[i]
         /\ m_levels' = [m_levels EXCEPT ![k] = ClrBit(m_levels[k], b)] =>
              m_levels'[k].bin0 = m_levels[k].bin0 \ {b}
         /\ m_levels' = [m_levels EXCEPT ![k] = SetBits(m_levels[k], {b}, b)] =>
              m_levels'[k].bin0 = m_levels[k].bin0 \cup {b}
  <1>1. m_levels \in [Sizes -> Level] /\ m_levels[k] \in Level
    BY DEF IInv, TypeOK
  <1>2. /\ ClrBit(m_levels[k], b).bin0 = m_levels[k].bin0 \ {b}
        /\ SetBits(m_levels[k], {b}, b).bin0 = m_levels[k].bin0 \cup {b}
    BY <1>1, LowestLayer
  <1> QED BY <1>1, <1>2

-----------------------------------------------------------------------------
(* The steps that lose nothing                                             *)

LEMMA SplitKeeps ==
  ASSUME IInv, IInv', Split
  PROVE  Lost' = Lost
  <1> DEFINE k   == work.level
             b   == work.bit
             bit == 2 * b
             upper == ClrBit(m_levels[k], b)
             lower == SetBits(m_levels[k-1], {bit, bit + 1}, bit)
  <1>1. /\ pc = "split" /\ pc' = "split" /\ live' = live
        /\ m_levels' = [m_levels EXCEPT ![k] = upper, ![k-1] = lower]
        /\ k > work.index
    BY DEF Split
  <1>2. /\ k \in Sizes /\ k - 1 \in Sizes /\ k # 0 /\ k # k - 1 /\ b \in m_levels[k].bin0
        /\ b \in Nat /\ m_levels \in [Sizes -> Level]
    <2>1. /\ k \in Sizes /\ work.index \in Sizes /\ m_levels \in [Sizes -> Level]
      BY DEF IInv, TypeOK
    <2>2. k - 1 \in Sizes /\ k # k - 1 /\ k # 0
      <3>1. k \in Nat /\ work.index \in Nat
        BY <2>1, Constants
      <3>2. k # 0 /\ k # k - 1
        BY <1>1, <3>1
      <3> QED BY <2>1, <3>2, NextSize
    <2>3. b \in m_levels[k].bin0
      BY <1>1 DEF IInv, SplitHoldsFree
    <2> QED BY <1>1, <2>1, <2>2, <2>3, BitsAreNat
  <1>3. /\ m_levels'[k].bin0 = m_levels[k].bin0 \ {b}
        /\ m_levels'[k-1].bin0 = m_levels[k-1].bin0 \cup {bit, bit + 1}
        /\ \A i \in Sizes \ {k, k-1} : m_levels'[i] = m_levels[i]
    <2>1. upper.bin0 = m_levels[k].bin0 \ {b}
      BY <1>2, LowestLayer
    <2>2. lower.bin0 = m_levels[k-1].bin0 \cup {bit, bit + 1}
      BY <1>2, LowestLayer
    <2> HIDE DEF upper, lower
    <2> QED BY <1>1, <1>2, <2>1, <2>2
  <1> HIDE DEF k, b, upper, lower
  <1>4. ASSUME NEW x \in Units
        PROVE  FreeHas(x)' <=> FreeHas(x)
    <2>1. Has(k, b, x) <=> Has(k-1, bit, x) \/ Has(k-1, bit + 1, x)
      BY <1>2, HalvesHave, Constants DEF Units
    <2>2. ASSUME FreeHas(x)
          PROVE  FreeHas(x)'
      <3>1. PICK i \in Sizes : \E c \in m_levels[i].bin0 : Has(i, c, x)
        BY <2>2 DEF FreeHas
      <3>2. PICK c \in m_levels[i].bin0 : Has(i, c, x)
        BY <3>1
      <3>3. CASE i = k /\ c = b
        BY <1>2, <1>3, <2>1, <3>2, <3>3 DEF FreeHas, Has
      <3>4. CASE i # k \/ c # b
        <4>1. c \in m_levels'[i].bin0
          BY <1>3, <3>4
        <4> QED BY <3>2, <4>1 DEF FreeHas, Has
      <3> QED BY <3>3, <3>4
    <2>3. ASSUME FreeHas(x)'
          PROVE  FreeHas(x)
      <3>1. PICK i \in Sizes : \E c \in m_levels'[i].bin0 : Has(i, c, x)
        BY <2>3 DEF FreeHas, Has
      <3>2. PICK c \in m_levels'[i].bin0 : Has(i, c, x)
        BY <3>1
      <3>3. CASE i = k - 1 /\ c \in {bit, bit + 1}
        BY <1>2, <2>1, <3>2, <3>3 DEF FreeHas
      <3>4. CASE ~(i = k - 1 /\ c \in {bit, bit + 1})
        <4>1. c \in m_levels[i].bin0
          BY <1>3, <3>4
        <4> QED BY <3>2, <4>1 DEF FreeHas
      <3> QED BY <3>3, <3>4
    <2> QED BY <2>2, <2>3
  <1>5. \A x \in Units : Kept(x)' <=> Kept(x)
    BY <1>1, <1>4 DEF Kept, LiveHas, WorkHas
  <1> QED BY <1>5, NothingLostBy

LEMMA AllocateReturnsKeeps ==
  ASSUME IInv, IInv', AllocateReturns
  PROVE  Lost' = Lost
  <1> DEFINE k == work.index
             b == work.bit
             r == [ptr |-> b * SegSize[k], index |-> k]
  <1>1. /\ pc = "split" /\ pc' = "idle" /\ work.level <= k
        /\ m_levels' = [m_levels EXCEPT ![k] = ClrBit(m_levels[k], b)]
        /\ live' = live \cup {r}
    BY DEF AllocateReturns
  <1>2. k \in Sizes /\ b \in m_levels[k].bin0
    <2>1. work.level \in Nat /\ k \in Nat /\ k \in Sizes /\ work.level >= k
      BY <1>1, Constants DEF IInv, TypeOK, SplitHoldsFree
    <2> QED BY <1>1, <2>1 DEF IInv, SplitHoldsFree
  <1>3. /\ m_levels'[k].bin0 = m_levels[k].bin0 \ {b}
        /\ \A i \in Sizes \ {k} : m_levels'[i] = m_levels[i]
    BY <1>1, <1>2, OneLevel
  <1>4. \A x \in Units : Has(k, b, x) <=> r.ptr <= x /\ x < r.ptr + SegSize[r.index]
    BY DEF Has
  <1> HIDE DEF k, b, r
  <1>5. \A x \in Units : FreeHas(x) <=> FreeHas(x)' \/ Has(k, b, x)
    BY <1>2, <1>3, FreeHasAfter
  <1>6. \A x \in Units : LiveHas(x)' <=> LiveHas(x) \/ Has(k, b, x)
    BY <1>1, <1>4 DEF LiveHas
  <1>7. \A x \in Units : Kept(x)' <=> Kept(x)
    BY <1>1, <1>5, <1>6 DEF Kept, WorkHas
  <1> QED BY <1>7, NothingLostBy

LEMMA DeallocateKeeps ==
  ASSUME IInv, IInv', NEW r \in live, Deallocate(r)
  PROVE  Lost' = Lost
  <1> DEFINE k == r.index
             n == r.ptr \div SegSize[k]
  <1>1. /\ pc = "idle" /\ pc' = "merge" /\ m_levels' = m_levels
        /\ work'.level = k /\ work'.bit = n
        /\ live' = live \ {r}
    BY DEF Deallocate
  <1>2. k \in Sizes /\ n * SegSize[k] = r.ptr
    <2>1. k \in Sizes
      BY DEF IInv, TypeOK
    <2>2. PICK b \in 0..LevelSize(k)-1 : r.ptr = b * SegSize[k]
      BY DEF IInv, LiveAligned
    <2>3. b \in Nat /\ SegSize[k] \in Nat \ {0}
      BY <2>1, Geometry
    <2>4. n = b
      BY <2>2, <2>3, DivExact
    <2> QED BY <2>1, <2>2, <2>4
  <1> HIDE DEF k, n
  <1>3. \A x \in Units : FreeHas(x)' <=> FreeHas(x)
    BY <1>1 DEF FreeHas, Has
  <1>4. \A x \in Units : LiveHas(x) <=> LiveHas(x)' \/ Has(k, n, x)
    BY <1>1, <1>2 DEF LiveHas, Has, k
  <1>5. \A x \in Units : WorkHas(x)' <=> Has(k, n, x)
    BY <1>1 DEF WorkHas, Has
  <1>6. \A x \in Units : Kept(x)' <=> Kept(x)
    BY <1>1, <1>3, <1>4, <1>5 DEF Kept, WorkHas
  <1> QED BY <1>6, NothingLostBy

LEMMA DeallocateReturnsKeeps ==
  ASSUME IInv, IInv', DeallocateReturns
  PROVE  Lost' = Lost
  <1> DEFINE k == work.level
             b == work.bit
  <1>1. /\ pc = "merge" /\ pc' = "idle" /\ live' = live
        /\ m_levels' = [m_levels EXCEPT ![k] = SetBits(m_levels[k], {b}, b)]
    BY DEF DeallocateReturns, Return
  <1>2. k \in Sizes
    BY DEF IInv, TypeOK
  <1>3. /\ m_levels'[k].bin0 = m_levels[k].bin0 \cup {b}
        /\ \A i \in Sizes \ {k} : m_levels'[i] = m_levels[i]
    BY <1>1, <1>2, OneLevel
  <1>4. \A x : WorkHas(x) <=> Has(k, b, x)
    BY <1>1 DEF WorkHas
  <1> HIDE DEF k, b
  <1>5. \A x \in Units : FreeHas(x)' <=> FreeHas(x) \/ Has(k, b, x)
    BY <1>2, <1>3, FreeHasAfter
  <1>6. \A x \in Units : LiveHas(x)' <=> LiveHas(x)
    BY <1>1 DEF LiveHas
  <1>7. \A x \in Units : Kept(x)' <=> Kept(x)
    BY <1>1, <1>4, <1>5, <1>6 DEF Kept, WorkHas
  <1> QED BY <1>7, NothingLostBy

-----------------------------------------------------------------------------
(* Merge                                                                   *)

\* What a merge takes from the binmap.
LEMMA MergeTakes ==
  ASSUME IInv, Merge
  PROVE  /\ work.level \in Sizes /\ work.bit \in Nat /\ pc = "merge" /\ live' = live
         /\ Buddy(work.bit) \in m_levels[work.level].bin0
         /\ \A i \in Sizes \ {work.level} : m_levels'[i] = m_levels[i]
         /\ m_levels'[work.level].bin0 = m_levels[work.level].bin0 \ {Buddy(work.bit)}
         /\ \A x \in Units :
              FreeHas(x) <=> FreeHas(x)' \/ Has(work.level, Buddy(work.bit), x)
         /\ \A x \in Units : LiveHas(x)' <=> LiveHas(x)
         /\ LoopEnds(work.level) <=> work.level = TopSize
  <1> DEFINE k == work.level
             v == Buddy(work.bit)
  <1>1. /\ pc = "merge" /\ v \in m_levels[k].bin0 /\ live' = live
        /\ m_levels' = [m_levels EXCEPT ![k] = ClrBit(m_levels[k], v)]
    BY DEF Merge, BuddyIsFree
  <1>2. k \in Sizes /\ work.bit \in Nat
    <2>1. k \in Sizes /\ work.bit \in 0..LevelSize(k)-1
      BY <1>1 DEF IInv, TypeOK
    <2> QED BY <2>1, Geometry
  <1>3. /\ m_levels'[k].bin0 = m_levels[k].bin0 \ {v}
        /\ \A i \in Sizes \ {k} : m_levels'[i] = m_levels[i]
    BY <1>1, <1>2, OneLevel
  <1>4. LoopEnds(k) <=> k = TopSize
    BY <1>2, GeometryAssumption, SMTT(60) DEF LoopEnds, Sizes, TopSize
  <1> HIDE DEF k, v
  <1>5. \A x \in Units : FreeHas(x) <=> FreeHas(x)' \/ Has(k, v, x)
    BY <1>1, <1>2, <1>3, FreeHasAfter
  <1>6. \A x \in Units : LiveHas(x)' <=> LiveHas(x)
    BY <1>1 DEF LiveHas
  <1> QED BY <1>1, <1>2, <1>3, <1>4, <1>5, <1>6 DEF k, v

LEMMA MergeKeeps ==
  ASSUME IInv, IInv', Merge, work.level # TopSize
  PROVE  Lost' = Lost
  <1> DEFINE k == work.level
             b == work.bit
             v == Buddy(b)
             n == b \div 2
  <1>1. /\ k \in Sizes /\ b \in Nat /\ k + 1 \in Sizes /\ k + 1 # 0
        /\ pc = "merge" /\ pc' = "merge" /\ work'.level = k + 1 /\ work'.bit = n
    <2>1. k \in Sizes /\ b \in Nat /\ pc = "merge" /\ ~LoopEnds(k)
      BY MergeTakes
    <2>2. k + 1 \in Sizes /\ k + 1 # 0
      <3>1. k \in Nat
        BY <2>1, Constants
      <3>2. k + 1 # 0
        BY <3>1
      <3> QED BY <2>1, <3>2, NextSize
    <2>3. work' = [work EXCEPT !.level = k+1, !.bit = b \div 2] /\ pc' = pc
      BY <2>1 DEF Merge
    <2>4. work \in [index : Sizes, level : Sizes, bit : Nat \cup {-1}]
      BY DEF IInv, TypeOK
    <2> QED BY <2>1, <2>2, <2>3, <2>4
  <1>2. n \in Nat /\ (\/ b = 2 * n /\ v = 2 * n + 1
                      \/ b = 2 * n + 1 /\ v = 2 * n)
    <2> HIDE DEF b
    <2> QED BY <1>1, SMT DEF Buddy
  <1>3. \A x \in Units : FreeHas(x) <=> FreeHas(x)' \/ Has(k, v, x)
    BY MergeTakes
  <1>4. \A x \in Units : LiveHas(x)' <=> LiveHas(x)
    BY MergeTakes
  <1>5. \A x : WorkHas(x) <=> Has(k, b, x)
    BY <1>1 DEF WorkHas
  <1>6. \A x : WorkHas(x)' <=> Has(k + 1, n, x)
    BY <1>1 DEF WorkHas, Has
  <1> HIDE DEF k, b, v, n
  <1>7. ASSUME NEW x \in Units
        PROVE  Has(k + 1, n, x) <=> Has(k, b, x) \/ Has(k, v, x)
    <2>1. x \in Nat /\ k \in Nat /\ (k + 1) - 1 = k
      BY <1>1, Constants DEF Units
    <2>2. Has(k + 1, n, x) <=> Has(k, 2 * n, x) \/ Has(k, 2 * n + 1, x)
      BY <1>1, <1>2, <2>1, HalvesHave
    <2> QED BY <1>2, <2>2
  <1>8. \A x \in Units : Kept(x)' <=> Kept(x)
    BY <1>3, <1>4, <1>5, <1>6, <1>7 DEF Kept
  <1> QED BY <1>8, NothingLostBy

\* A unit as an element of a block, by division.
LEMMA HasByDivision ==
  ASSUME NEW i \in Sizes, NEW b \in Nat, NEW x \in Nat
  PROVE  Has(i, b, x) <=> x \div SegSize[i] = b
  <1> DEFINE s == SegSize[i]
  <1>1. s \in Nat \ {0}
    BY Geometry
  <1> HIDE DEF s
  <1>2. b * s = s * b
    BY <1>1, SMT
  <1>3. x \div s = b => s * b <= x /\ x < s * b + s
    BY <1>1, DivFacts
  <1>4. s * b <= x /\ x < s * b + s => x \div s = b
    BY <1>1, DivUnique
  <1> QED BY <1>2, <1>3, <1>4 DEF Has, s

\* The units of the two blocks have no other owner.
LEMMA MergedHaveNoOther ==
  ASSUME IInv, Merge, NEW x \in Units,
         Has(work.level, work.bit, x) \/ Has(work.level, Buddy(work.bit), x)
  PROVE  ~FreeHas(x)' /\ ~LiveHas(x)
  <1> DEFINE k == work.level
             b == work.bit
             v == Buddy(b)
  <1>1. /\ k \in Sizes /\ b \in Nat /\ v \in m_levels[k].bin0 /\ pc = "merge"
        /\ TypeOK /\ Coherent /\ Disjoint
    BY MergeTakes DEF IInv
  <1>2. Blk("work", k, b) \in Owned /\ Blk("free", k, v) \in Owned
    BY <1>1, FreeBlocksIff DEF Owned, WorkBlocks, Blk
  <1>3. PICK q \in {Blk("work", k, b), Blk("free", k, v)} :
               q.ptr <= x /\ x < q.ptr + SegSize[q.index]
    BY DEF Blk, Has
  <1>4. ASSUME NEW o \in Owned, o # q, o.ptr <= x, x < o.ptr + SegSize[o.index]
        PROVE  FALSE
    <2>1. Apart(q, o)
      BY <1>1, <1>2, <1>4 DEF Disjoint
    <2>2. q \in BlockSet /\ o \in BlockSet
      BY <1>1, <1>2, OwnedTyped
    <2>3. /\ q.ptr \in Nat /\ o.ptr \in Nat /\ x \in Int
          /\ SegSize[q.index] \in Nat /\ SegSize[o.index] \in Nat
      BY <2>2, Geometry DEF BlockSet, Units
    <2> QED BY <1>3, <1>4, <2>1, <2>3 DEF Apart
  <1>5. ~LiveHas(x)
    <2> SUFFICES ASSUME NEW r \in live, r.ptr <= x, x < r.ptr + SegSize[r.index]
                 PROVE  FALSE
      BY DEF LiveHas
    <2> DEFINE o == [kind |-> "live", ptr |-> r.ptr, index |-> r.index]
    <2>1. o \in Owned /\ o # q
      BY <1>3 DEF Owned, LiveBlocks, Blk
    <2> QED BY <1>4, <2>1
  <1>6. ~FreeHas(x)'
    <2> SUFFICES ASSUME NEW i \in Sizes, NEW c \in m_levels'[i].bin0, Has(i, c, x)
                 PROVE  FALSE
      BY DEF FreeHas, Has
    <2>1. c \in m_levels[i].bin0 /\ (i # k \/ c # v)
      BY MergeTakes
    <2>2. Blk("free", i, c) \in Owned
      BY <1>1, <2>1, FreeBlocksIff DEF Owned
    <2>3. c \in Nat /\ v \in Nat
      BY <1>1, <2>1, BitsAreNat
    <2>4. Blk("free", i, c) # Blk("free", k, v)
      BY <1>1, <2>1, <2>3, BlkInjective
    <2>5. Blk("free", i, c) # q
      BY <1>3, <2>4 DEF Blk
    <2> QED BY <1>4, <2>2, <2>5 DEF Blk, Has
  <1> QED BY <1>5, <1>6

\* The merge of two blocks of the maximum size: exactly their units are lost.
LEMMA MergeLoses ==
  ASSUME IInv, IInv', Merge, work.level = TopSize
  PROVE  Lost' = Lost \cup {x \in 0..TotalUnits-1 :
                              x \div SegSize[TopSize] \in {work.bit, Buddy(work.bit)}}
  <1> DEFINE k == work.level
             b == work.bit
             v == Buddy(b)
  <1>1. k \in Sizes /\ b \in Nat /\ v \in Nat /\ pc = "merge" /\ pc' = "idle"
    <2>1. k \in Sizes /\ b \in Nat /\ pc = "merge" /\ LoopEnds(k)
      BY MergeTakes
    <2>2. pc' = "idle"
      BY <2>1 DEF Merge, Return
    <2> QED BY <2>1, <2>2, BuddyFacts
  <1>2. ASSUME NEW x \in Units
        PROVE  Kept(x) <=> Kept(x)' \/ Has(k, b, x) \/ Has(k, v, x)
    <2>1. FreeHas(x) <=> FreeHas(x)' \/ Has(k, v, x)
      BY MergeTakes
    <2>2. LiveHas(x)' <=> LiveHas(x)
      BY MergeTakes
    <2>3. WorkHas(x) <=> Has(k, b, x)
      BY <1>1 DEF WorkHas
    <2>4. ~WorkHas(x)'
      BY <1>1 DEF WorkHas
    <2> QED BY <2>1, <2>2, <2>3, <2>4 DEF Kept
  <1>3. ASSUME NEW x \in Units, Has(k, b, x) \/ Has(k, v, x)
        PROVE  ~Kept(x)'
    <2>1. ~FreeHas(x)' /\ ~LiveHas(x)
      BY <1>3, MergedHaveNoOther
    <2>2. ~LiveHas(x)'
      BY <2>1, MergeTakes
    <2>3. ~WorkHas(x)'
      BY <1>1 DEF WorkHas
    <2> QED BY <2>1, <2>2, <2>3 DEF Kept
  <1>4. \A x \in Units : Has(k, b, x) \/ Has(k, v, x) <=> x \div SegSize[k] \in {b, v}
    BY <1>1, HasByDivision, Constants DEF Units
  <1>5. Lost = {x \in Units : ~Kept(x)} /\ Lost' = {x \in Units : ~Kept(x)'}
    BY LostIff, LostIffNext
  <1> HIDE DEF v
  <1>6. Lost' = Lost \cup {x \in Units : x \div SegSize[k] \in {b, v}}
    BY <1>2, <1>3, <1>4, <1>5
  <1> QED BY <1>6 DEF Units, v

-----------------------------------------------------------------------------

LEMMA LossStep ==
  ASSUME IInv, IInv', Next, pc # "down", pc' # "down", Lost' # Lost
  PROVE  /\ pc = "merge" /\ work.level = TopSize /\ BuddyIsFree
         /\ Lost' = Lost \cup {x \in 0..TotalUnits-1 :
                                 x \div SegSize[TopSize] \in {work.bit, Buddy(work.bit)}}
  <1>1. ~Initialize /\ ~Teardown
    BY DEF Initialize, Teardown
  <1>2. ~Split /\ ~AllocateReturns /\ ~DeallocateReturns
    BY SplitKeeps, AllocateReturnsKeeps, DeallocateReturnsKeeps
  <1>3. \A r \in live : ~Deallocate(r)
    BY DeallocateKeeps
  <1>4. ASSUME m_levels' = m_levels, live' = live, pc # "merge", pc' # "merge"
        PROVE  FALSE
    <2>1. \A x \in Units : Kept(x)' <=> Kept(x)
      BY <1>4 DEF Kept, FreeHas, LiveHas, WorkHas, Has
    <2> QED BY <2>1, NothingLostBy
  <1>5. \A i \in Sizes : ~AllocateFails(i) /\ ~AllocateFinds(i)
    BY <1>4 DEF AllocateFails, AllocateFinds
  <1>6. \A a \in BadArguments : ~DeallocateInvalid(a[1], a[2])
    BY <1>4 DEF DeallocateInvalid
  <1>7. Merge
    BY <1>1, <1>2, <1>3, <1>5, <1>6 DEF Next
  <1>8. work.level = TopSize
    BY <1>7, MergeKeeps
  <1> QED BY <1>7, <1>8, MergeLoses DEF Merge

\* Whatever the geometry and the calls, units get lost in one way only: when
\* deallocate merges two blocks of the maximum size, and these units only.
THEOREM SegmentLossOnlyAtTop == Spec => LossOnlyAtTop
  <1> DEFINE A == pc # "down" /\ pc' # "down" /\ Lost' # Lost =>
                    /\ pc = "merge" /\ work.level = TopSize /\ BuddyIsFree
                    /\ Lost' = Lost \cup {x \in 0..TotalUnits-1 :
                                 x \div SegSize[TopSize] \in {work.bit, Buddy(work.bit)}}
  <1>1. IInv /\ IInv' /\ [Next]_vars => [A]_vars
    BY LossStep
  <1> QED BY <1>1, InvariantOfSegment, PTL DEF Spec, LossOnlyAtTop

=============================================================================
