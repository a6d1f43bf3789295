---------------------------- MODULE BitmapProofs ----------------------------
(***************************************************************************)
(* Proofs about the searches for free bits, for every bitmap, word size    *)
(* and scan index.                                                         *)
(*                                                                         *)
(* ArrayBit_GetFreeFrom may miss a free bit: it enters a word after the    *)
(* first one at the bit it entered the first one at.  When it does, the    *)
(* first word was not full, so it has a free bit below the scan index, and *)
(* the second search of BITMAP_GetFreeCycle finds that one (CycleIsFree).  *)
(***************************************************************************)
EXTENDS Bitmap, Wrap

\* A set of naturals that has an element has a least one.
LEMMA MinFacts ==
  ASSUME NEW S, S \subseteq Nat, S # {}
  PROVE  Min(S) \in S /\ \A y \in S : Min(S) <= y
  BY Least DEF Min

\* First answers with the least element below size, if there is one.
LEMMA FirstFacts ==
  ASSUME NEW S, S \subseteq Nat, NEW size \in Nat
  PROVE  \/ /\ First(S, size) = -1
            /\ \A y \in S : y >= size
         \/ /\ First(S, size) \in S /\ First(S, size) < size
            /\ \A y \in S : First(S, size) <= y
  <1>1. CASE S = {}  BY <1>1 DEF First
  <1>2. CASE S # {}
    <2>1. Min(S) \in S /\ Min(S) \in Nat /\ \A y \in S : Min(S) <= y  BY <1>2, MinFacts
    <2>2. CASE Min(S) >= size
      <3>1. \A y \in S : y >= size  BY <2>1, <2>2
      <3> QED  BY <3>1, <2>2 DEF First
    <2>3. CASE ~(Min(S) >= size)
      <3>1. First(S, size) = Min(S)  BY <1>2, <2>3 DEF First
      <3> QED  BY <3>1, <2>1, <2>3
    <2> QED  BY <2>2, <2>3
  <1> QED  BY <1>1, <1>2

\* The word of a bit.
LEMMA WordOf ==
  ASSUME NEW x \in Nat
  PROVE  /\ x \div WordBits \in Nat
         /\ x % WordBits \in 0..WordBits-1
         /\ x \in Word(x \div WordBits)
  <1>1. WordBits \in Nat /\ WordBits > 0  BY BitmapAssumption
  <1>2. /\ x % WordBits \in 0..WordBits-1 /\ x \div WordBits \in Int
        /\ x = WordBits * (x \div WordBits) + (x % WordBits)
    BY <1>1, DivMod
  <1>3. PICK q \in Int : q = x \div WordBits  BY <1>2
  <1>4. PICK r \in 0..WordBits-1 : r = x % WordBits  BY <1>2
  <1>5. x = WordBits * q + r  BY <1>2, <1>3, <1>4
  <1>6. q >= 0
    <2>1. CASE q <= -1
      <3>1. WordBits * q <= -WordBits  BY <1>1, <2>1
      <3> QED  BY <3>1, <1>1, <1>5
    <2> QED  BY <2>1
  <1>7. x = q * WordBits + r  BY <1>1, <1>5
  <1>8. x \in Word(q)  BY <1>7 DEF Word
  <1> QED  BY <1>2, <1>3, <1>6, <1>8

\* The bits of a word.
LEMMA InWord ==
  ASSUME NEW i \in Nat, NEW x \in Word(i)
  PROVE  /\ x \in Nat /\ x \div WordBits = i
         /\ i * WordBits <= x /\ x < i * WordBits + WordBits
         /\ x = i * WordBits + (x % WordBits)
  <1>1. WordBits \in Nat /\ WordBits > 0  BY BitmapAssumption
  <1>2. PICK j \in 0..WordBits-1 : x = i * WordBits + j  BY DEF Word
  <1>3. i * WordBits \in Nat /\ i * WordBits = WordBits * i  BY <1>1
  <1>4. x \in Nat /\ i * WordBits <= x /\ x < i * WordBits + WordBits  BY <1>1, <1>2, <1>3
  <1>5. /\ x % WordBits \in 0..WordBits-1 /\ x \div WordBits \in Int
        /\ x = WordBits * (x \div WordBits) + (x % WordBits)
    BY <1>1, <1>4, DivMod
  <1>6. x = WordBits * i + j  BY <1>2, <1>3
  <1>7. x \div WordBits = i /\ x % WordBits = j
    BY <1>1, <1>5, <1>6, DivModUnique
  <1> QED  BY <1>2, <1>4, <1>7

\* Every bit below size is in one of the words.
LEMMA InWords ==
  ASSUME NEW size \in Nat, NEW x \in Nat, x < size
  PROVE  x \div WordBits \in 0..Words(size)-1
  <1>1. WordBits \in Nat /\ WordBits > 0  BY BitmapAssumption
  <1>2. PICK q \in Nat : q = x \div WordBits  BY WordOf
  <1>3. q * WordBits <= x  BY <1>2, WordOf, InWord
  <1>4. PICK a \in Nat : a = size + WordBits - 1  BY <1>1
  <1>5. /\ a \div WordBits \in Int /\ a % WordBits \in 0..WordBits-1
        /\ a = WordBits * (a \div WordBits) + (a % WordBits)
    BY <1>1, DivMod
  <1>6. PICK w \in Int : w = a \div WordBits  BY <1>5
  <1>7. WordBits * w > a - WordBits  BY <1>1, <1>5, <1>6
  <1>8. WordBits * w > q * WordBits  BY <1>1, <1>3, <1>4, <1>7
  <1>9. q < w
    <2>1. CASE w <= q
      <3>1. WordBits * w <= WordBits * q  BY <1>1, <2>1
      <3> QED  BY <3>1, <1>1, <1>8
    <2> QED  BY <2>1
  <1>10. Words(size) = w  BY <1>4, <1>6 DEF Words
  <1> QED  BY <1>2, <1>9, <1>10

\* The plain search: the words cover the prefix, and hold naturals only.
LEMMA GetFreeFacts ==
  ASSUME NEW b, NEW size \in Nat
  PROVE  \/ /\ ArrayBit_GetFree(b, size) = -1
            /\ \A x \in 0..size-1 : x \in b
         \/ /\ ArrayBit_GetFree(b, size) \in (0..size-1) \ b
            /\ \A x \in (0..size-1) \ b : ArrayBit_GetFree(b, size) <= x
  <1> DEFINE S == (UNION {Word(i) : i \in 0..Words(size)-1}) \ b
             f == First(S, size)
  <1>1. S \subseteq Nat
    <2>1. \A i \in 0..Words(size)-1 : i \in Nat /\ Word(i) \subseteq Nat  BY InWord
    <2> QED  BY <2>1
  <1>2. \A x \in (0..size-1) \ b : x \in S
    <2>1. ASSUME NEW x \in (0..size-1) \ b  PROVE x \in S
      <3>1. x \in Nat /\ x < size  OBVIOUS
      <3>2. x \div WordBits \in 0..Words(size)-1 /\ x \in Word(x \div WordBits)
        BY <3>1, InWords, WordOf
      <3> QED  BY <3>2
    <2> QED  BY <2>1
  <1>3. \A x \in S : x \notin b  OBVIOUS
  <1>4. ArrayBit_GetFree(b, size) = f  BY DEF ArrayBit_GetFree
  <1> HIDE DEF S
  <1>5. \/ f = -1 /\ \A y \in S : y >= size
        \/ f \in S /\ f < size /\ \A y \in S : f <= y
    BY <1>1, FirstFacts
  <1> HIDE DEF f
  <1>6. CASE f = -1 /\ \A y \in S : y >= size
    BY <1>2, <1>4, <1>6
  <1>7. CASE f \in S /\ f < size /\ \A y \in S : f <= y
    <2>1. f \in 0..size-1 /\ f \notin b  BY <1>1, <1>3, <1>7
    <2> QED  BY <1>2, <1>4, <1>7, <2>1
  <1> QED  BY <1>5, <1>6, <1>7

\* What the search from an index on looks at.
Ahead(b, size, from) ==
    UNION {{x \in Word(i) \ b : x % WordBits >= EntryBit(b, from, i)} :
              i \in (from \div WordBits)..(Words(size) - 1)}

\* The search from an index on answers with a free bit, if with any.
LEMMA GetFreeFromFacts ==
  ASSUME NEW b, NEW size \in Nat, NEW from \in 0..size-1
  PROVE  \/ /\ ArrayBit_GetFreeFrom(b, size, from) = -1
            /\ \A x \in Ahead(b, size, from) : x >= size
         \/ ArrayBit_GetFreeFrom(b, size, from) \in (0..size-1) \ b
  <1> DEFINE S == Ahead(b, size, from)
             f == First(S, size)
  <1>1. from \in Nat /\ from \div WordBits \in Nat /\ ~(from >= size)
    <2>1. from \in Nat /\ ~(from >= size)  OBVIOUS
    <2> QED  BY <2>1, WordOf
  <1>2. S \subseteq Nat /\ \A x \in S : x \notin b
    <2>1. \A i \in (from \div WordBits)..(Words(size)-1) : i \in Nat /\ Word(i) \subseteq Nat
      BY <1>1, InWord
    <2> QED  BY <2>1 DEF Ahead
  <1>3. ArrayBit_GetFreeFrom(b, size, from) = f  BY <1>1 DEF ArrayBit_GetFreeFrom, Ahead
  <1> HIDE DEF S
  <1>4. \/ f = -1 /\ \A y \in S : y >= size
        \/ f \in S /\ f < size /\ \A y \in S : f <= y
    BY <1>2, FirstFacts
  <1> HIDE DEF f
  <1> QED  BY <1>2, <1>3, <1>4 DEF S

\* A free bit the search passes over leaves one below where it started.
LEMMA PassedOver ==
  ASSUME NEW b, NEW size \in Nat, NEW from \in 0..size-1, NEW x \in from..size-1, x \notin b,
         \A y \in Ahead(b, size, from) : y >= size
  PROVE  \E y \in 0..from-1 : y \notin b
  <1>1. WordBits \in Nat /\ WordBits > 0  BY BitmapAssumption
  <1>2. from \in Nat /\ x \in Nat /\ x < size /\ from <= x  OBVIOUS
  <1>3. PICK f \in Nat : f = from \div WordBits  BY <1>2, WordOf
  <1>4. PICK i \in Nat : i = x \div WordBits  BY <1>2, WordOf
  <1>5. /\ x \in Word(i) /\ from \in Word(f)
        /\ x % WordBits \in 0..WordBits-1 /\ from % WordBits \in 0..WordBits-1
    BY <1>2, <1>3, <1>4, WordOf
  <1>6. /\ x = i * WordBits + (x % WordBits)
        /\ from = f * WordBits + (from % WordBits)
    BY <1>5, InWord
  <1>7. i \in 0..Words(size)-1 /\ f \in 0..Words(size)-1
    BY <1>2, <1>3, <1>4, InWords
  <1>8. f <= i
    <2>1. CASE i < f
      <3>1. i * WordBits + WordBits <= f * WordBits
        <4>1. (i + 1) * WordBits <= f * WordBits  BY <1>1, <2>1
        <4> QED  BY <4>1, <1>1
      <3> QED  BY <3>1, <1>1, <1>2, <1>5, <1>6
    <2> QED  BY <2>1
  <1>9. \A j \in f..Words(size)-1 : \A y \in Word(j) \ b :
           y % WordBits >= EntryBit(b, from, j) => y >= size
    BY <1>3 DEF Ahead
  <1>10. ~(x % WordBits >= EntryBit(b, from, i))
    <2>1. i \in f..Words(size)-1  BY <1>7, <1>8
    <2> QED  BY <2>1, <1>2, <1>5, <1>9
  <1>11. EntryBit(b, from, i) # 0  BY <1>1, <1>5, <1>10
  <1>12. /\ \A k \in f..i-1 : ~(Word(k) \subseteq b)
         /\ EntryBit(b, from, i) = from % WordBits
    BY <1>3, <1>11 DEF EntryBit
  <1>13. f < i
    <2>1. CASE f = i  BY <2>1, <1>1, <1>2, <1>5, <1>6, <1>10, <1>12
    <2> QED  BY <2>1, <1>8
  <1>14. PICK y \in Word(f) : y \notin b
    <2>1. f \in f..i-1  BY <1>13
    <2> QED  BY <2>1, <1>12
  <1>15. /\ y \in Nat /\ y % WordBits \in 0..WordBits-1
         /\ y = f * WordBits + (y % WordBits) /\ y < f * WordBits + WordBits
    BY <1>14, InWord, WordOf
  <1>16. y < size
    <2>1. f * WordBits + WordBits <= i * WordBits
      <3>1. (f + 1) * WordBits <= i * WordBits  BY <1>1, <1>13
      <3> QED  BY <3>1, <1>1
    <2> QED  BY <2>1, <1>1, <1>2, <1>5, <1>6, <1>15
  <1>17. EntryBit(b, from, f) = from % WordBits
    <2>1. f..f-1 = {}  OBVIOUS
    <2> QED  BY <2>1, <1>3 DEF EntryBit
  <1>18. ~(y % WordBits >= from % WordBits)
    <2>1. f \in f..Words(size)-1  BY <1>7
    <2>2. y \in Word(f) \ b  BY <1>14
    <2> QED  BY <2>1, <2>2, <1>9, <1>15, <1>16, <1>17
  <1>19. y < from  BY <1>1, <1>5, <1>6, <1>15, <1>18
  <1> QED  BY <1>2, <1>14, <1>15, <1>19

\* BITMAP_GetFreeCycle answers with a free bit, or there is none.
LEMMA CycleIsFree ==
  ASSUME NEW b, NEW scan \in 0..BitNum-1
  PROVE  \/ BITMAP_GetFreeCycle(b, scan) \in (0..BitNum-1) \ b
         \/ /\ BITMAP_GetFreeCycle(b, scan) = -1
            /\ 0..BitNum-1 \subseteq b
  <1>1. BitNum \in Nat /\ scan \in Nat  BY BitmapAssumption
  <1> DEFINE ahead == ArrayBit_GetFreeFrom(b, BitNum, scan)
             behind == ArrayBit_GetFree(b, scan)
  <1>2. \/ ahead = -1 /\ \A x \in Ahead(b, BitNum, scan) : x >= BitNum
        \/ ahead \in (0..BitNum-1) \ b
    BY <1>1, GetFreeFromFacts
  <1>3. \/ behind = -1 /\ \A x \in 0..scan-1 : x \in b
        \/ behind \in (0..scan-1) \ b
    BY <1>1, GetFreeFacts
  <1>4. BITMAP_GetFreeCycle(b, scan) = IF ahead >= 0 THEN ahead ELSE behind
    BY DEF BITMAP_GetFreeCycle
  <1> HIDE DEF ahead, behind
  <1>5. CASE ahead \in (0..BitNum-1) \ b  BY <1>1, <1>4, <1>5
  <1>6. CASE ahead = -1 /\ \A x \in Ahead(b, BitNum, scan) : x >= BitNum
    <2>1. BITMAP_GetFreeCycle(b, scan) = behind  BY <1>4, <1>6
    <2>2. CASE behind \in (0..scan-1) \ b  BY <2>1, <2>2, <1>1
    <2>3. CASE behind = -1 /\ \A x \in 0..scan-1 : x \in b
      <3>1. ASSUME NEW x \in 0..BitNum-1  PROVE x \in b
        <4>1. CASE x < scan  BY <4>1, <2>3, <1>1
        <4>2. CASE ~(x < scan)
          <5>1. x \in scan..BitNum-1  BY <4>2, <1>1
          <5>2. x \notin b => \E y \in 0..scan-1 : y \notin b
            BY <5>1, <1>1, <1>6, PassedOver
          <5> QED  BY <5>2, <2>3
        <4> QED  BY <4>1, <4>2
      <3> QED  BY <3>1, <2>1, <2>3
    <2> QED  BY <2>2, <2>3, <1>3
  <1> QED  BY <1>2, <1>5, <1>6

\* The scan index stays inside the bitmap.
LEMMA NextScanInside ==
  ASSUME NEW i \in 0..BitNum-1
  PROVE  NextScan(i) \in 0..BitNum-1
  BY BitmapAssumption DEF NextScan

-----------------------------------------------------------------------------
\* Only bits of the bitmap are set, and the scan index stays inside it.
THEOREM BitmapTypeCorrect == Spec => []TypeOK
  <1>1. Init => TypeOK  BY BitmapAssumption DEF Init, TypeOK
  <1>2. TypeOK /\ [Next]_vars => TypeOK'
    <2> SUFFICES ASSUME TypeOK, [Next]_vars  PROVE TypeOK'
      OBVIOUS
    <2>1. ASSUME NEW i \in 0..BitNum-1, BITMAP_SET(i) \/ BITMAP_CLR(i)  PROVE TypeOK'
      BY <2>1 DEF TypeOK, BITMAP_SET, BITMAP_CLR
    <2>2. CASE GetFreeCycle
      <3>1. CASE BITMAP_GetFreeCycle(bits, uiScanIndex) < 0
        BY <2>2, <3>1 DEF GetFreeCycle, TypeOK
      <3>2. CASE ~(BITMAP_GetFreeCycle(bits, uiScanIndex) < 0)
        <4>1. BITMAP_GetFreeCycle(bits, uiScanIndex) \in 0..BitNum-1
          BY <3>2, CycleIsFree DEF TypeOK
        <4> QED  BY <2>2, <3>2, <4>1, NextScanInside DEF GetFreeCycle, TypeOK
      <3> QED  BY <3>1, <3>2
    <2>3. CASE UNCHANGED vars  BY <2>3 DEF vars, TypeOK
    <2> QED  BY <2>1, <2>2, <2>3 DEF Next
  <1> QED  BY <1>1, <1>2, PTL DEF Spec

\* BITMAP_GetFreeCycle finds a free bit whenever there is one, in spite of
\* the words its first search enters too late.
THEOREM CycleAlwaysFinds == Spec => []CycleFinds
  <1>1. TypeOK => CycleFinds
    <2> SUFFICES ASSUME TypeOK  PROVE CycleFinds
      OBVIOUS
    <2>1. \/ BITMAP_GetFreeCycle(bits, uiScanIndex) \in (0..BitNum-1) \ bits
          \/ /\ BITMAP_GetFreeCycle(bits, uiScanIndex) = -1
             /\ 0..BitNum-1 \subseteq bits
      BY CycleIsFree DEF TypeOK
    <2> QED  BY <2>1 DEF CycleFinds, TypeOK
  <1> QED  BY <1>1, BitmapTypeCorrect, PTL

\* ArrayBit_GetFree answers with the lowest free bit of the prefix it is
\* given, whatever its length.
THEOREM FreeAlwaysLowest == Spec => []FreeIsLowest
  <1>1. TypeOK => FreeIsLowest
    <2> SUFFICES ASSUME NEW size \in 0..BitNum
                 PROVE  ArrayBit_GetFree(bits, size) =
                           IF (0..size-1) \ bits = {} THEN -1 ELSE Min((0..size-1) \ bits)
      BY DEF FreeIsLowest
    <2>1. size \in Nat  BY BitmapAssumption
    <2> DEFINE free == (0..size-1) \ bits
               g == ArrayBit_GetFree(bits, size)
    <2>2. \/ g = -1 /\ free = {}
          \/ g \in free /\ \A x \in free : g <= x
      BY <2>1, GetFreeFacts
    <2>3. free \subseteq Nat  BY <2>1
    <2> HIDE DEF g, free
    <2>4. CASE g = -1 /\ free = {}  BY <2>4 DEF g, free
    <2>5. CASE g \in free /\ \A x \in free : g <= x
      <3>1. Min(free) \in free /\ \A x \in free : Min(free) <= x  BY <2>3, <2>5, MinFacts
      <3>2. g <= Min(free) /\ Min(free) <= g /\ g \in Nat /\ Min(free) \in Nat
        BY <2>3, <2>5, <3>1
      <3>3. g = Min(free)  BY <3>2
      <3> QED  BY <2>5, <3>3 DEF g, free
    <2> QED  BY <2>2, <2>4, <2>5
  <1> QED  BY <1>1, BitmapTypeCorrect, PTL

=============================================================================
