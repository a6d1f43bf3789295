-------------------------------- MODULE Wrap --------------------------------
(***************************************************************************)
(* The arithmetic of unsigned indices that run on and wrap, as those of    *)
(* ring_utl.h, msgque_utl.c and the slots of vclock_utl.c do: what % and   *)
(* \div do for every modulus.  The least element of a set of numbers, here *)
(* too, is what stands for induction in the proofs.                        *)
(***************************************************************************)
EXTENDS Integers, WellFoundedInduction, TLAPS

\* A set of naturals that has an element has a least one.
LEMMA Least ==
  ASSUME NEW S, S \subseteq Nat, S # {}
  PROVE  \E x \in S : \A y \in S : x <= y
  <1> DEFINE R == {ss \in Nat \X Nat : ss[1] < ss[2]}
  <1>1. IsWellFoundedOn(R, Nat)  BY NatLessThanWellFounded DEF OpToRel
  <1> HIDE DEF R
  <1>2. PICK x \in S : \A y \in S : ~(<<y, x>> \in R)  BY <1>1, WFMin
  <1>3. ASSUME NEW y \in S  PROVE x <= y
    <2>1. x \in Nat /\ y \in Nat  OBVIOUS
    <2>2. y < x => <<y, x>> \in R  BY <2>1 DEF R
    <2> QED  BY <1>2, <2>1, <2>2
  <1> QED  BY <1>3

\* Quotient and remainder.
LEMMA DivMod ==
  ASSUME NEW n \in Nat, n > 0, NEW a \in Int
  PROVE  /\ a % n \in 0..n-1
         /\ a \div n \in Int
         /\ a = n * (a \div n) + (a % n)
  OBVIOUS

\* The provers need this of multiplication.
LEMMA Distributes ==
  ASSUME NEW n \in Int, NEW x \in Int, NEW y \in Int
  PROVE  n * x + n * y = n * (x + y)
  OBVIOUS

\* There is one quotient and one remainder.
LEMMA DivModUnique ==
  ASSUME NEW n \in Nat, n > 0, NEW q \in Int, NEW r \in 0..n-1,
         NEW p \in Int, NEW s \in 0..n-1, n * q + r = n * p + s
  PROVE  q = p /\ r = s
  <1>1. n * (q - p) = s - r  OBVIOUS
  <1>2. CASE q - p >= 1
    <2>1. n * (q - p) >= n  BY <1>2
    <2> QED  BY <2>1, <1>1
  <1>3. CASE q - p <= -1
    <2>1. n * (q - p) <= -n  BY <1>3
    <2> QED  BY <2>1, <1>1
  <1>4. CASE q = p  BY <1>4
  <1> QED  BY <1>2, <1>3, <1>4

\* How often n goes into a number.
LEMMA DivBounds ==
  ASSUME NEW n \in Nat, n > 0, NEW a \in Nat
  PROVE  a \div n \in Nat /\ n * (a \div n) <= a /\ a < n * (a \div n) + n
  <1>1. a % n \in 0..n-1 /\ a \div n \in Int /\ a = n * (a \div n) + (a % n)  BY DivMod
  <1>2. PICK q \in Int : q = a \div n  BY <1>1
  <1>3. n * q <= a /\ a < n * q + n  BY <1>1, <1>2
  <1>4. q >= 0
    <2>1. CASE q <= -1
      <3>1. n * q <= -n  BY <2>1
      <3> QED  BY <1>3, <3>1
    <2> QED  BY <2>1
  <1> QED  BY <1>2, <1>3, <1>4

\* A number is its remainder plus a multiple.
LEMMA ModIs ==
  ASSUME NEW n \in Nat, n > 0, NEW q \in Int, NEW r \in 0..n-1
  PROVE  (n * q + r) % n = r
  <1> DEFINE a == n * q + r
  <1>1. a \in Int  OBVIOUS
  <1>2. a = n * (a \div n) + (a % n) /\ a % n \in 0..n-1 /\ a \div n \in Int
    BY <1>1, DivMod
  <1> QED  BY <1>2, DivModUnique

\* An index that has not wrapped is its own remainder.
LEMMA ModSmall ==
  ASSUME NEW n \in Nat, n > 0, NEW a \in 0..n-1
  PROVE  a % n = a
  BY ModIs

\* Adding a multiple of n changes nothing.
LEMMA ModShift ==
  ASSUME NEW n \in Nat, n > 0, NEW a \in Int, NEW q \in Int
  PROVE  (n * q + a) % n = a % n
  <1>1. a % n \in 0..n-1 /\ a \div n \in Int /\ a = n * (a \div n) + (a % n)  BY DivMod
  <1> DEFINE d == a \div n  r == a % n
  <1>2. d \in Int /\ r \in 0..n-1 /\ a = n * d + r  BY <1>1
  <1> HIDE DEF d, r
  <1>3. n * q + a = n * (q + d) + r  BY <1>2, Distributes
  <1>4. (n * (q + d) + r) % n = r  BY <1>2, ModIs
  <1> QED  BY <1>3, <1>4 DEF r

\* An index may be wrapped before or after something is added to it.
LEMMA ModAdd ==
  ASSUME NEW n \in Nat, n > 0, NEW a \in Int, NEW k \in Int
  PROVE  ((a % n) + k) % n = (a + k) % n
  <1>1. a % n \in Int /\ a \div n \in Int /\ a = n * (a \div n) + (a % n)  BY DivMod
  <1> DEFINE d == a \div n  r == a % n
  <1>2. d \in Int /\ r \in Int /\ a = n * d + r  BY <1>1
  <1> HIDE DEF d, r
  <1> DEFINE x == r + k
  <1>3. x \in Int /\ a + k = n * d + x  BY <1>2
  <1> HIDE DEF x
  <1>4. (n * d + x) % n = x % n  BY <1>2, <1>3, ModShift
  <1> QED  BY <1>3, <1>4 DEF r, x

\* The distance of two wrapped indices, when it is less than a round.
LEMMA ModDiff ==
  ASSUME NEW n \in Nat, n > 0, NEW a \in Int, NEW b \in Int, NEW k \in Int,
         k + a - b \in 0..n-1
  PROVE  (k + (a % n) - (b % n)) % n = k + a - b
  <1>1. /\ a % n \in Int /\ a \div n \in Int /\ a = n * (a \div n) + (a % n)
        /\ b % n \in Int /\ b \div n \in Int /\ b = n * (b \div n) + (b % n)
    BY DivMod
  <1> DEFINE d == a \div n  r == a % n  e == b \div n  s == b % n
  <1>2. /\ d \in Int /\ r \in Int /\ a = n * d + r
        /\ e \in Int /\ s \in Int /\ b = n * e + s
    BY <1>1
  <1> HIDE DEF d, r, e, s
  <1>3. n * (e - d) + n * d = n * e  BY <1>2, Distributes
  <1>4. k + r - s = n * (e - d) + (k + a - b)  BY <1>2, <1>3
  <1> DEFINE x == k + a - b  c == e - d
  <1>5. x \in 0..n-1 /\ c \in Int /\ k + r - s = n * c + x  BY <1>2, <1>4
  <1> HIDE DEF x, c
  <1>6. (n * c + x) % n = x  BY <1>5, ModIs
  <1> QED  BY <1>5, <1>6 DEF r, s, x

\* Two indices less than a round apart are equal if they wrap to the same.
LEMMA ModInjective ==
  ASSUME NEW n \in Nat, n > 0, NEW a \in Int, NEW b \in Int,
         a - b < n, b - a < n, a % n = b % n
  PROVE  a = b
  <1>1. /\ a % n \in 0..n-1 /\ a \div n \in Int /\ a = n * (a \div n) + (a % n)
        /\ b \div n \in Int /\ b = n * (b \div n) + (b % n)
    BY DivMod
  <1> DEFINE d == a \div n  r == a % n  e == b \div n
  <1>2. d \in Int /\ r \in 0..n-1 /\ e \in Int /\ a = n * d + r /\ b = n * e + r
    BY <1>1
  <1> HIDE DEF d, r, e
  <1>3. n * (d - e) + n * e = n * d  BY <1>2, Distributes
  <1>4. a - b = n * (d - e)  BY <1>2, <1>3
  <1>5. CASE d - e >= 1
    <2>1. n * (d - e) >= n  BY <1>2, <1>5
    <2> QED  BY <2>1, <1>4
  <1>6. CASE d - e <= -1
    <2>1. n * (d - e) <= -n  BY <1>2, <1>6
    <2> QED  BY <2>1, <1>4
  <1>7. CASE d = e  BY <1>2, <1>7
  <1> QED  BY <1>2, <1>5, <1>6, <1>7

\* A slot is found from the wrapped index as well, as the number of slots
\* divides the round.
LEMMA ModMod ==
  ASSUME NEW n \in Nat, n > 0, NEW m \in Nat, m > 0, n % m = 0,
         NEW a \in Int, NEW k \in Int
  PROVE  ((a % n) + k) % m = (a + k) % m
  <1>1. a % n \in Int /\ a \div n \in Int /\ a = n * (a \div n) + (a % n)  BY DivMod
  <1>2. n \div m \in Int /\ n = m * (n \div m)  BY DivMod
  <1> DEFINE d == a \div n  r == a % n  c == n \div m
  <1>3. d \in Int /\ r \in Int /\ a = n * d + r /\ c \in Int /\ n = m * c  BY <1>1, <1>2
  <1> HIDE DEF d, r, c
  <1>4. n * d = m * (c * d)  BY <1>3
  <1> DEFINE x == r + k  y == c * d
  <1>5. x \in Int /\ y \in Int /\ a + k = m * y + x  BY <1>3, <1>4
  <1> HIDE DEF x, y
  <1>6. (m * y + x) % m = x % m  BY <1>5, ModShift
  <1> QED  BY <1>5, <1>6 DEF r, x
=============================================================================
