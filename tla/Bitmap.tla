------------------------------- MODULE Bitmap -------------------------------
(***************************************************************************)
(* BITMAP_S (src/src/lib/util/bitmap): a bitmap of N bits kept in words,   *)
(* with the scans its users find free bits with.  The scans go word by     *)
(* word, as the code's do: a word with no free bit is skipped whole.       *)
(*                                                                         *)
(* A bitmap is the set of the indices of its set bits.                     *)
(***************************************************************************)
EXTENDS Integers, FiniteSetsExt

CONSTANTS WordBits,   \* bits of a UINT, 32 in the code
          BitNum      \* ulBitNum, the bits the bitmap was created with

ASSUME BitmapAssumption ==
    /\ WordBits \in Nat /\ WordBits > 0
    /\ BitNum \in Nat /\ BitNum > 0

VARIABLES bits, uiScanIndex

vars == <<bits, uiScanIndex>>

Words(size) == (size + WordBits - 1) \div WordBits
Word(i) == {i * WordBits + j : j \in 0..WordBits-1}

\* The first index of a set, or -1 when there is none below size.
First(S, size) == IF S = {} \/ Min(S) >= size THEN -1 ELSE Min(S)

\* Slip: the plain search stops one word early.
GetFreeShort(b, size) ==
    First((UNION {Word(i) : i \in 0..Words(size)-2}) \ b, size)

ArrayBit_GetFree(b, size) ==
    First((UNION {Word(i) : i \in 0..Words(size)-1}) \ b, size)

\* The scan enters the first word at from's bit.  It goes back to bit 0 only
\* once it has skipped a full word: until then it enters every word there.
EntryBit(b, from, i) ==
    IF \E k \in (from \div WordBits)..(i - 1) : Word(k) \subseteq b
    THEN 0 ELSE from % WordBits

ArrayBit_GetFreeFrom(b, size, from) ==
    IF from >= size THEN -1
    ELSE First(UNION {{x \in Word(i) \ b : x % WordBits >= EntryBit(b, from, i)} :
                         i \in (from \div WordBits)..(Words(size) - 1)}, size)

\* Slip: the bits before the scan index are not looked at.
GetFreeCycleNoWrap(b, scan) == ArrayBit_GetFreeFrom(b, BitNum, scan)

\* BITMAP_GetFreeCycle's result: from the scan index on, then before it.
BITMAP_GetFreeCycle(b, scan) ==
    LET ahead == ArrayBit_GetFreeFrom(b, BitNum, scan)
    IN  IF ahead >= 0 THEN ahead ELSE ArrayBit_GetFree(b, scan)

\* Slip: the scan index is left past the end.
NextScanPast(index) == index + 1

\* Where BITMAP_GetFreeCycle leaves uiScanIndex when it returns index.
NextScan(index) == IF index + 1 >= BitNum THEN 0 ELSE index + 1

\* The index bitmap1 hands out: one more than the bit, 0 when there is none.
BITMAP1_GetFreeCycle(b, scan) == BITMAP_GetFreeCycle(b, scan) + 1

-----------------------------------------------------------------------------
(* The bitmap on its own, for any user: bits are set and cleared at will.  *)

Init == bits = {} /\ uiScanIndex = 0

BITMAP_SET(i) == bits' = bits \cup {i} /\ UNCHANGED uiScanIndex

BITMAP_CLR(i) == bits' = bits \ {i} /\ UNCHANGED uiScanIndex

GetFreeCycle ==
    LET index == BITMAP_GetFreeCycle(bits, uiScanIndex)
    IN  /\ uiScanIndex' = IF index < 0 THEN uiScanIndex ELSE NextScan(index)
        /\ UNCHANGED bits

Next ==
    \/ \E i \in 0..BitNum-1 : BITMAP_SET(i) \/ BITMAP_CLR(i)
    \/ GetFreeCycle

Spec == Init /\ [][Next]_vars

-----------------------------------------------------------------------------
(* Properties. *)

\* Only bits of the bitmap are set, and the scan starts inside it.
TypeOK == bits \subseteq 0..BitNum-1 /\ uiScanIndex \in 0..BitNum-1

\* The cyclic search answers with a free bit whenever there is one, and with
\* -1 only when every bit is set, wherever its scan index stands: the words
\* the scan enters too late are made up for by the second search.
CycleFinds ==
    LET index == BITMAP_GetFreeCycle(bits, uiScanIndex)
    IN  IF bits = 0..BitNum-1 THEN index = -1 ELSE index \in (0..BitNum-1) \ bits

\* The plain search over any prefix answers with its lowest free bit.
FreeIsLowest ==
    \A size \in 0..BitNum :
        LET free == (0..size-1) \ bits
        IN  ArrayBit_GetFree(bits, size) = IF free = {} THEN -1 ELSE Min(free)
=============================================================================
