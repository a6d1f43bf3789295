---------------------------- MODULE TimerProofs ----------------------------
(***************************************************************************)
(* Proofs about the timing wheel, for any scale, levels, timers and tick   *)
(* counter, and about keep-alive, one of its users, for every idle time,   *)
(* interval and number of probes.                                          *)
(*                                                                         *)
(* The wheel: the tick counter wraps, and the slot a timer is put into     *)
(* counts whole slots from the current one, so it may become the current   *)
(* one well before the timer is due.  The invariant goes by the number of  *)
(* steps T, which does not wrap: the current slots are its digits (Reads), *)
(* and a timer on a higher level is due at a step D not before its slot,   *)
(* one to Scale - 1 slots ahead, begins (Ahead).  So when that slot begins *)
(* the timer is added again with what is left, which is never negative,    *)
(* and on the lowest level the slot is the delay.                          *)
(*                                                                         *)
(* Keep-alive: KaTypeOK is not inductive, it needs that a session that is  *)
(* established or closed has started keep-alive, and one in its handshake  *)
(* has not (Started).  NotTooSoon needs the account between the silence and the    *)
(* timer (KaDue): unless a probe was hurried, the ticks that have passed   *)
(* and the ticks that are left make up the idle time and one interval for  *)
(* every probe.                                                            *)
(***************************************************************************)
EXTENDS Vclock, Ka, Wrap

-----------------------------------------------------------------------------
(* The timing wheel: its arithmetic. *)

\* The constants as the arithmetic needs them.
LEMMA WheelSizes ==
  /\ Scale \in Nat /\ Scale > 1 /\ Levels \in Nat /\ Levels > 0
  /\ TickMod \in Nat /\ TickMod > 0
  BY WheelAssumption

\* The ticks left until step D, after step U.
LEMMA LeftIs ==
  ASSUME NEW D \in Int, NEW U \in Int, D - U \in 0..TickMod-1
  PROVE  ((D % TickMod) - (U % TickMod)) % TickMod = D - U
  <1>1. /\ TickMod \in Nat /\ TickMod > 0
        /\ 0 \in Int /\ 0 + D - U = D - U /\ 0 + D - U \in 0..TickMod-1
    BY WheelSizes
  <1>2. (0 + (D % TickMod) - (U % TickMod)) % TickMod = 0 + D - U  BY <1>1, ModDiff
  <1>3. D % TickMod \in Int /\ U % TickMod \in Int  BY <1>1, DivMod
  <1>4. 0 + (D % TickMod) - (U % TickMod) = (D % TickMod) - (U % TickMod)  BY <1>3
  <1> QED  BY <1>1, <1>2, <1>4

\* Each level has slots of some ticks, Scale times those of the level below.
LEMMA SpanIs ==
  ASSUME NEW l \in 0..Levels
  PROVE  Scale ^ l \in Nat /\ Scale ^ l > 0
  <1> DEFINE S == {i \in Nat : i <= Levels /\ ~(Scale ^ i \in Nat /\ Scale ^ i > 0)}
  <1>1. ASSUME S # {}  PROVE FALSE
    <2>1. PICK x \in S : \A y \in S : x <= y  BY <1>1, Least
    <2>2. x # 0  BY SpanAssumption
    <2>3. x - 1 \in 0..Levels-1 /\ (x - 1) + 1 = x /\ x - 1 < x  BY <2>2, WheelSizes
    <2>4. PICK i \in 0..Levels-1 : i = x - 1  BY <2>3
    <2>5. i \notin S /\ i + 1 = x  BY <2>1, <2>3, <2>4
    <2>6. Scale ^ i \in Nat /\ Scale ^ i > 0  BY <2>4, <2>5, WheelSizes
    <2>7. Scale ^ x = Scale * (Scale ^ i)  BY <2>5, SpanAssumption
    <2>8. PICK P \in Nat : P = Scale ^ i /\ P > 0  BY <2>6
    <2>9. Scale * P \in Nat /\ Scale * P > 0  BY <2>8, WheelSizes
    <2> QED  BY <2>7, <2>8, <2>9
  <1>2. l \in Nat /\ l <= Levels  BY WheelSizes
  <1> QED  BY <1>1, <1>2

\* A set of numbers up to n has a greatest one.
LEMMA Greatest ==
  ASSUME NEW n \in Nat, NEW S, S \subseteq 0..n, S # {}
  PROVE  Max(S) \in S /\ \A y \in S : y <= Max(S)
  <1> DEFINE R == {i \in Nat : \E y \in S : i = n - y}
  <1>1. R # {} /\ R \subseteq Nat
    <2>1. PICK y \in S : TRUE  OBVIOUS
    <2>2. n - y \in Nat  OBVIOUS
    <2> QED  BY <2>2
  <1>2. PICK r \in R : \A i \in R : r <= i  BY <1>1, Least
  <1>3. PICK x \in S : r = n - x  BY <1>2
  <1>4. ASSUME NEW y \in S  PROVE x >= y
    <2>1. n - y \in R /\ x \in 0..n /\ y \in 0..n  OBVIOUS
    <2>2. r <= n - y  BY <1>2, <2>1
    <2> QED  BY <1>3, <2>1, <2>2
  <1>5. \E z \in S : \A y \in S : z >= y  BY <1>4
  <1>6. Max(S) \in S /\ \A y \in S : Max(S) >= y  BY <1>5 DEF Max
  <1> HIDE DEF R
  <1>7. \A y \in S : y \in Int  OBVIOUS
  <1> QED  BY <1>6, <1>7

\* A delay is less than a revolution of its level, and not less than one slot
\* of it unless the level is the lowest.
LEMMA LevelFacts ==
  ASSUME NEW k \in 0..TickMod-1
  PROVE  /\ Level(k) \in 0..Levels-1
         /\ k \div (Scale ^ Level(k)) \in 0..Scale-1
         /\ Level(k) # 0 => k \div (Scale ^ Level(k)) # 0
  <1> DEFINE S == {0} \cup {l \in 1..Levels : k \div (Scale ^ l) # 0}
             m == Level(k)
  <1>1. k \in Nat /\ k < TickMod /\ Levels \in Nat /\ Levels > 0  BY WheelSizes
  <1>2. S \subseteq 0..Levels /\ S # {}  BY <1>1
  <1>3. m \in S /\ \A y \in S : y <= m  BY <1>1, <1>2, Greatest DEF Level
  <1>4. m \in 0..Levels /\ (m # 0 => k \div (Scale ^ m) # 0)  BY <1>2, <1>3
  <1> HIDE DEF m, S
  <1>5. m # Levels
    <2>1. PICK P \in Nat : P = Scale ^ Levels /\ P > 0 /\ P >= TickMod
      BY <1>1, SpanIs, WheelAssumption
    <2>2. k < P  BY <1>1, <2>1, WheelSizes
    <2>3. PICK q \in Nat : q = k \div P /\ P * q <= k  BY <1>1, <2>1, DivBounds
    <2>4. q = 0
      <3>1. CASE q >= 1
        <4>1. P * q >= P  BY <2>1, <3>1
        <4> QED  BY <1>1, <2>2, <2>3, <4>1
      <3> QED  BY <3>1
    <2> QED  BY <1>1, <1>4, <2>1, <2>3, <2>4
  <1>6. m \in 0..Levels-1 /\ m + 1 \in 1..Levels  BY <1>1, <1>4, <1>5
  <1>7. PICK P \in Nat : P = Scale ^ m /\ P > 0  BY <1>4, SpanIs
  <1>8. k < Scale * P
    <2>1. m + 1 \notin S  BY <1>3, <1>4, <1>6
    <2>2. PICK Q \in Nat : Q = Scale ^ (m + 1) /\ Q > 0  BY <1>1, <1>6, SpanIs
    <2>3. k \div Q = 0  BY <1>6, <2>1, <2>2 DEF S
    <2>4. k < Q * (k \div Q) + Q  BY <1>1, <2>2, DivBounds
    <2>5. k < Q  BY <1>1, <2>2, <2>3, <2>4
    <2> QED  BY <1>6, <1>7, <2>2, <2>5, SpanAssumption
  <1>9. PICK q \in Nat : q = k \div P /\ P * q <= k  BY <1>1, <1>7, DivBounds
  <1>10. q < Scale
    <2>1. CASE q >= Scale
      <3>1. PICK e \in Nat : e = q - Scale  BY <2>1, WheelSizes
      <3>2. q = Scale + e  BY <3>1, WheelSizes
      <3>3. P * q = P * Scale + P * e  BY <3>2, <1>7, WheelSizes
      <3>4. P * e >= 0 /\ P * Scale = Scale * P /\ P * Scale \in Int /\ P * e \in Int
        BY <1>7, <3>1, WheelSizes
      <3> QED  BY <1>1, <1>8, <1>9, <3>3, <3>4
    <2> QED  BY <2>1, WheelSizes
  <1> QED  BY <1>4, <1>6, <1>7, <1>9, <1>10, WheelSizes DEF m

-----------------------------------------------------------------------------
(* The timing wheel: its clock and its timers. *)

Places == (0..Levels-1) \X (0..Scale-1)

\* The clock after T steps.
Reads(T, now, cur) ==
    /\ now = T % TickMod
    /\ cur \in [0..Levels-1 -> 0..Scale-1]
    /\ \A l \in 0..Levels-1 : cur[l] = (T \div (Scale ^ l)) % Scale

\* A timer with trigger tick d on a higher level at p: it is due at step D,
\* and its slot, j slots ahead, becomes the current one no later.
Ahead(T, p, d) ==
    p[1] # 0 =>
        \E D \in Nat, j \in 1..Scale-1 :
            /\ D - T \in 0..TickMod-1
            /\ d = D % TickMod
            /\ p[2] = ((T \div (Scale ^ p[1])) + j) % Scale
            /\ (Scale ^ p[1]) * ((T \div (Scale ^ p[1])) + j) <= D

\* _vclock_timer_add puts a timer where it belongs.
LEMMA Added ==
  ASSUME NEW T \in Nat, NEW now, NEW cur, Reads(T, now, cur), NEW k \in 0..TickMod-1
  PROVE  /\ SlotOf(cur, k) \in Places
         /\ (now + k) % TickMod = (T + k) % TickMod
         /\ (now + k) % TickMod \in 0..TickMod-1
         /\ Ahead(T, SlotOf(cur, k), (now + k) % TickMod)
  <1>1. PICK l \in 0..Levels-1 : l = Level(k)  BY LevelFacts
  <1>2. PICK P \in Nat : P = Scale ^ l /\ P > 0  BY WheelSizes, SpanIs
  <1>3. PICK j \in 0..Scale-1 : j = k \div P /\ (l # 0 => j # 0)  BY <1>1, <1>2, LevelFacts
  <1>4. PICK q \in Nat : q = T \div P /\ P * q <= T  BY <1>2, DivBounds
  <1>5. cur[l] = q % Scale  BY <1>2, <1>4 DEF Reads
  <1>6. (cur[l] + j) % Scale = (q + j) % Scale
    <2>1. q \in Int /\ j \in Int  BY <1>3, <1>4, WheelSizes
    <2>2. ((q % Scale) + j) % Scale = (q + j) % Scale  BY <2>1, WheelSizes, ModAdd
    <2> QED  BY <1>5, <2>2
  <1>7. (cur[l] + j) % Scale \in 0..Scale-1  BY <1>6, WheelSizes, DivMod
  <1>8. SlotOf(cur, k) = <<l, (cur[l] + j) % Scale>>  BY <1>1, <1>2, <1>3 DEF SlotOf
  <1>9. SlotOf(cur, k) \in Places  BY <1>7, <1>8 DEF Places
  <1>10. (now + k) % TickMod = (T + k) % TickMod
    <2>1. T \in Int /\ k \in Int  BY WheelSizes
    <2>2. ((T % TickMod) + k) % TickMod = (T + k) % TickMod  BY <2>1, WheelSizes, ModAdd
    <2> QED  BY <2>2 DEF Reads
  <1>11. (now + k) % TickMod \in 0..TickMod-1
    <2>1. T + k \in Int  BY WheelSizes
    <2> QED  BY <1>10, <2>1, WheelSizes, DivMod
  <1>12. ASSUME l # 0  PROVE Ahead(T, SlotOf(cur, k), (now + k) % TickMod)
    <2>1. j \in 1..Scale-1  BY <1>3, <1>12
    <2>2. k \in Nat  BY WheelSizes
    <2>3. PICK D \in Nat : D = T + k  BY <2>2
    <2>4. D - T \in 0..TickMod-1  BY <2>2, <2>3, WheelSizes
    <2>5. P * (q + j) <= D
      <3>1. P * j <= k  BY <1>2, <1>3, <2>2, DivBounds
      <3>2. P * (q + j) = P * q + P * j  OBVIOUS
      <3>3. P * q \in Int /\ P * j \in Int  OBVIOUS
      <3> QED  BY <1>4, <2>2, <2>3, <3>1, <3>2, <3>3
    <2>6. SlotOf(cur, k)[1] = l /\ SlotOf(cur, k)[2] = (q + j) % Scale  BY <1>6, <1>8
    <2> QED  BY <1>2, <1>4, <1>10, <2>1, <2>3, <2>4, <2>5, <2>6 DEF Ahead
  <1>13. ASSUME l = 0  PROVE Ahead(T, SlotOf(cur, k), (now + k) % TickMod)
    BY <1>8, <1>13 DEF Ahead
  <1> QED  BY <1>9, <1>10, <1>11, <1>12, <1>13

\* On a higher level no timer is in the current slot, and none is due yet.
LEMMA NotYet ==
  ASSUME NEW T \in Nat, NEW now, NEW cur, Reads(T, now, cur),
         NEW p \in Places, NEW d, Ahead(T, p, d), p[1] # 0
  PROVE  /\ p[2] # cur[p[1]]
         /\ \E D \in Nat : /\ D - T \in 1..TickMod-1 /\ d = D % TickMod
                           /\ (d - now) % TickMod = D - T
  <1>1. PICK l \in 0..Levels-1 : l = p[1]  BY DEF Places
  <1>2. PICK P \in Nat : P = Scale ^ l /\ P > 0  BY WheelSizes, SpanIs
  <1>3. PICK q \in Nat : q = T \div P /\ T < P * q + P  BY <1>2, DivBounds
  <1>4. PICK D \in Nat, j \in 1..Scale-1 :
            /\ D - T \in 0..TickMod-1 /\ d = D % TickMod
            /\ p[2] = (q + j) % Scale /\ P * (q + j) <= D
    BY <1>1, <1>2, <1>3 DEF Ahead
  <1>5. p[2] # cur[l]
    <2>1. cur[l] = q % Scale  BY <1>2, <1>3 DEF Reads
    <2>2. PICK b \in Int : b = q + j  BY WheelSizes
    <2>3. q - b < Scale /\ b - q < Scale /\ b # q  BY <2>2, WheelSizes
    <2>4. b % Scale # q % Scale  BY <2>3, WheelSizes, ModInjective
    <2> QED  BY <1>4, <2>1, <2>2, <2>4
  <1>6. T < D
    <2>1. j \in Nat /\ j >= 1  BY WheelSizes
    <2>2. P * (q + j) = P * q + P * j  BY <2>1
    <2>3. P * j >= P  BY <1>2, <2>1
    <2>4. P * q \in Int /\ P * j \in Int  BY <2>1
    <2> QED  BY <1>3, <1>4, <2>2, <2>3, <2>4
  <1>7. D - T \in 1..TickMod-1  BY <1>4, <1>6, WheelSizes
  <1>8. (d - now) % TickMod = D - T
    <2>1. ((D % TickMod) - (T % TickMod)) % TickMod = D - T  BY <1>4, LeftIs
    <2> QED  BY <1>4, <2>1 DEF Reads
  <1> QED  BY <1>1, <1>4, <1>5, <1>7, <1>8

\* A slot of the next level has passed when the last of the slots it spans
\* has.
LEMMA Digits ==
  ASSUME NEW T \in Nat, NEW P \in Nat, P > 0
  PROVE  T % (Scale * P) = Scale * P - 1 <=>
             (T \div P) % Scale = Scale - 1 /\ T % P = P - 1
  <1>1. PICK q \in Int, r \in 0..P-1 : q = T \div P /\ r = T % P /\ T = P * q + r
    <2>1. T \div P \in Int /\ T % P \in 0..P-1 /\ T = P * (T \div P) + (T % P)
      BY DivMod
    <2> QED  BY <2>1, Zenon
  <1>2. PICK c \in Int, e \in 0..Scale-1 :
             c = q \div Scale /\ e = q % Scale /\ q = Scale * c + e
    <2>1. /\ q \div Scale \in Int /\ q % Scale \in 0..Scale-1
          /\ q = Scale * (q \div Scale) + (q % Scale)
      BY <1>1, WheelSizes, DivMod
    <2> QED  BY <2>1, Zenon
  <1>3. PICK Q \in Nat : Q = Scale * P /\ Q > 0  BY WheelSizes
  <1>4. P * e + r \in 0..Q-1
    <2>1. e \in Nat /\ r \in Nat /\ r < P /\ e <= Scale - 1  BY WheelSizes
    <2>2. P * e <= P * (Scale - 1)
      <3>1. PICK f \in Nat : f = Scale - 1 - e  BY <2>1, WheelSizes
      <3>2. Scale - 1 = e + f  BY <2>1, <3>1, WheelSizes
      <3>3. P * (e + f) = P * e + P * f  BY <2>1
      <3>4. P * f >= 0 /\ P * f \in Int /\ P * e \in Int  BY <2>1
      <3> QED  BY <3>2, <3>3, <3>4
    <2>3. P * (Scale - 1) = Scale * P - P  BY WheelSizes
    <2>4. P * e >= 0 /\ P * e \in Int  BY <2>1
    <2> QED  BY <1>3, <2>1, <2>2, <2>3, <2>4
  <1>5. T = Q * c + (P * e + r)
    <2>1. P * q = P * (Scale * c) + P * e  BY <1>2, WheelSizes, Distributes
    <2>2. P * (Scale * c) = Q * c  BY <1>3, WheelSizes
    <2>3. P * e \in Int /\ Q * c \in Int /\ r \in Int  BY WheelSizes
    <2> QED  BY <1>1, <2>1, <2>2, <2>3
  <1>6. T % Q = P * e + r  BY <1>3, <1>4, <1>5, ModIs
  <1>7. Q - 1 = P * (Scale - 1) + (P - 1)
    <2>1. P * (Scale - 1) = Scale * P - P  BY WheelSizes
    <2> QED  BY <1>3, <2>1
  <1>8. P * e + r = Q - 1 <=> e = Scale - 1 /\ r = P - 1
    <2>1. PICK g \in Int, h \in 0..P-1 : g = Scale - 1 /\ h = P - 1  BY WheelSizes
    <2>2. Q - 1 = P * g + h  BY <1>7, <2>1
    <2>3. P * e + r = P * g + h => e = g /\ r = h
      <3>1. e \in Int /\ r \in 0..P-1  BY <1>1, <1>2, WheelSizes
      <3>2. HAVE P * e + r = P * g + h
      <3> QED  BY <2>1, <3>1, <3>2, DivModUnique
    <2> QED  BY <2>1, <2>2, <2>3
  <1> QED  BY <1>1, <1>2, <1>3, <1>6, <1>8

\* A level advances when a slot of it has passed.
LEMMA AdvancingIs ==
  ASSUME NEW T \in Nat, NEW now, NEW cur, Reads(T, now, cur), NEW l \in 0..Levels
  PROVE  (\A j \in 0..l-1 : cur[j] = Scale - 1) <=> T % (Scale ^ l) = (Scale ^ l) - 1
  <1> DEFINE Full(i) == \A j \in 0..i-1 : cur[j] = Scale - 1
             Last(i) == T % (Scale ^ i) = (Scale ^ i) - 1
             S == {i \in Nat : i <= Levels /\ ~(Full(i) <=> Last(i))}
  <1> HIDE DEF Full, Last
  <1>1. ASSUME S # {}  PROVE FALSE
    <2>1. PICK x \in S : \A y \in S : x <= y  BY <1>1, Least
    <2>2. Full(0) /\ Last(0)
      <3>1. T % 1 = 0  BY DivMod
      <3>2. Scale ^ 0 = 1  BY SpanAssumption
      <3>3. Last(0)  BY <3>1, <3>2 DEF Last
      <3> QED  BY <3>3 DEF Full
    <2>3. PICK i \in 0..Levels-1 : i + 1 = x /\ i < x  BY <2>1, <2>2, WheelSizes
    <2>4. i \in Nat /\ i <= Levels /\ i \notin S  BY <2>1, <2>3, WheelSizes
    <2>5. Full(i) <=> Last(i)  BY <2>4
    <2>6. Full(x) <=> Full(i) /\ cur[i] = Scale - 1
      <3>1. \A j \in 0..x-1 : j = i \/ j \in 0..i-1  BY <2>3, <2>4
      <3>2. i \in 0..x-1 /\ \A j \in 0..i-1 : j \in 0..x-1  BY <2>3, <2>4
      <3> QED  BY <3>1, <3>2 DEF Full
    <2>7. PICK P \in Nat : P = Scale ^ i /\ P > 0  BY <2>4, SpanIs, WheelSizes
    <2>8. Scale ^ x = Scale * P  BY <2>3, <2>7, SpanAssumption
    <2>9. cur[i] = (T \div P) % Scale  BY <2>7 DEF Reads
    <2>10. Last(x) <=> (T \div P) % Scale = Scale - 1 /\ T % P = P - 1
      BY <2>7, <2>8, Digits DEF Last
    <2>11. Last(i) <=> T % P = P - 1  BY <2>7 DEF Last
    <2> QED  BY <2>1, <2>5, <2>6, <2>9, <2>10, <2>11
  <1>2. l \in Nat /\ l <= Levels  BY WheelSizes
  <1>3. Full(l) <=> Last(l)  BY <1>1, <1>2
  <1> QED  BY <1>3 DEF Full, Last

\* After T + 1 steps, a level that T steps had brought to the end of a slot is
\* one slot further.
LEMMA NextSlot ==
  ASSUME NEW T \in Nat, NEW P \in Nat, P > 0
  PROVE  /\ T % P = P - 1 => (T + 1) \div P = (T \div P) + 1
         /\ T % P # P - 1 => (T + 1) \div P = T \div P
  <1>1. T \div P \in Int /\ T % P \in 0..P-1 /\ T = P * (T \div P) + (T % P)  BY DivMod
  <1>2. PICK a \in Nat : a = T + 1  OBVIOUS
  <1>3. a \div P \in Int /\ a % P \in 0..P-1 /\ a = P * (a \div P) + (a % P)  BY DivMod
  <1> DEFINE q == T \div P  r == T % P  c == a \div P  d == a % P
  <1>4. /\ q \in Int /\ r \in 0..P-1 /\ T = P * q + r
        /\ c \in Int /\ d \in 0..P-1 /\ a = P * c + d
    BY <1>1, <1>3
  <1> HIDE DEF q, r, c, d
  <1>5. ASSUME r = P - 1  PROVE c = q + 1
    <2>1. PICK u \in Int : u = q + 1  BY <1>4
    <2>2. P * u = P * q + P  BY <1>4, <2>1
    <2>3. P * c + d = P * u + 0 /\ 0 \in 0..P-1  BY <1>2, <1>4, <1>5, <2>2
    <2>4. c = u  BY <1>4, <2>1, <2>3, DivModUnique
    <2> QED  BY <2>1, <2>4
  <1>6. ASSUME r # P - 1  PROVE c = q
    <2>1. PICK u \in 0..P-1 : u = r + 1  BY <1>4, <1>6
    <2>2. P * c + d = P * q + u  BY <1>2, <1>4, <2>1
    <2> QED  BY <1>4, <2>1, <2>2, DivModUnique
  <1> QED  BY <1>2, <1>5, <1>6 DEF q, r, c

\* The clock that VCLOCK_Step sets.
Ticked(now) == (now + 1) % TickMod

Turned(cur) ==
    [l \in 0..Levels-1 |->
        IF \A j \in 0..l-1 : cur[j] = Scale - 1 THEN (cur[l] + 1) % Scale ELSE cur[l]]

\* VCLOCK_Step moves the clock one step on.
LEMMA ReadsNext ==
  ASSUME NEW T \in Nat, NEW now, NEW cur, Reads(T, now, cur)
  PROVE  /\ Reads(T + 1, Ticked(now), Turned(cur))
         /\ \A l \in 0..Levels-1 :
                IF \A j \in 0..l-1 : cur[j] = Scale - 1
                THEN (T + 1) \div (Scale ^ l) = (T \div (Scale ^ l)) + 1
                ELSE (T + 1) \div (Scale ^ l) = T \div (Scale ^ l)
  <1>1. Ticked(now) = (T + 1) % TickMod
    <2>1. T \in Int /\ 1 \in Int  OBVIOUS
    <2>2. ((T % TickMod) + 1) % TickMod = (T + 1) % TickMod  BY <2>1, WheelSizes, ModAdd
    <2> QED  BY <2>2 DEF Reads, Ticked
  <1>2. ASSUME NEW l \in 0..Levels-1
        PROVE  /\ IF \A j \in 0..l-1 : cur[j] = Scale - 1
                  THEN (T + 1) \div (Scale ^ l) = (T \div (Scale ^ l)) + 1
                  ELSE (T + 1) \div (Scale ^ l) = T \div (Scale ^ l)
               /\ Turned(cur)[l] = ((T + 1) \div (Scale ^ l)) % Scale
               /\ Turned(cur)[l] \in 0..Scale-1
    <2>1. l \in 0..Levels  BY WheelSizes
    <2>2. PICK P \in Nat : P = Scale ^ l /\ P > 0  BY <2>1, SpanIs
    <2>3. (\A j \in 0..l-1 : cur[j] = Scale - 1) <=> T % P = P - 1
      BY <2>1, <2>2, AdvancingIs
    <2>4. PICK q \in Int : q = T \div P  BY <2>2, DivMod
    <2>5. cur[l] = q % Scale /\ cur[l] \in 0..Scale-1  BY <2>2, <2>4 DEF Reads
    <2>6. CASE T % P = P - 1
      <3>1. (T + 1) \div P = q + 1  BY <2>2, <2>4, <2>6, NextSlot
      <3>2. ((q % Scale) + 1) % Scale = (q + 1) % Scale
        <4>1. q \in Int /\ 1 \in Int /\ Scale \in Nat /\ Scale > 0  BY <2>4, WheelSizes
        <4> QED  BY <4>1, ModAdd
      <3>3. Turned(cur)[l] = (cur[l] + 1) % Scale  BY <2>3, <2>6 DEF Turned
      <3>4. (q + 1) % Scale \in 0..Scale-1
        <4>1. q + 1 \in Int  BY <2>4
        <4> QED  BY <4>1, WheelSizes, DivMod
      <3> QED  BY <2>2, <2>3, <2>4, <2>5, <2>6, <3>1, <3>2, <3>3, <3>4
    <2>7. CASE T % P # P - 1
      <3>1. (T + 1) \div P = q  BY <2>2, <2>4, <2>7, NextSlot
      <3>2. Turned(cur)[l] = cur[l]  BY <2>3, <2>7 DEF Turned
      <3> QED  BY <2>2, <2>3, <2>4, <2>5, <2>7, <3>1, <3>2
    <2> QED  BY <2>6, <2>7
  <1>3. DOMAIN Turned(cur) = 0..Levels-1
        /\ Turned(cur) = [l \in 0..Levels-1 |-> Turned(cur)[l]]
    BY DEF Turned
  <1>4. Turned(cur) \in [0..Levels-1 -> 0..Scale-1]  BY <1>2, <1>3
  <1> QED  BY <1>1, <1>2, <1>4 DEF Reads

\* A timer on a higher level is still ahead after the step, unless its slot
\* has become the current one: then it is due no earlier.
LEMMA AheadNext ==
  ASSUME NEW T \in Nat, NEW now, NEW cur, Reads(T, now, cur),
         NEW p \in Places, NEW d, Ahead(T, p, d), p[1] # 0
  PROVE  \/ Ahead(T + 1, p, d)
         \/ p[2] = Turned(cur)[p[1]] /\ \A j \in 0..p[1]-1 : cur[j] = Scale - 1
  <1>1. PICK l \in 0..Levels-1 : l = p[1]  BY DEF Places
  <1>2. PICK P \in Nat : P = Scale ^ l /\ P > 0  BY WheelSizes, SpanIs
  <1>3. PICK q \in Nat : q = T \div P /\ T < P * q + P  BY <1>2, DivBounds
  <1>4. PICK D \in Nat, j \in 1..Scale-1 :
            /\ D - T \in 0..TickMod-1 /\ d = D % TickMod
            /\ p[2] = (q + j) % Scale /\ P * (q + j) <= D
    BY <1>1, <1>2, <1>3 DEF Ahead
  <1>5. D - (T + 1) \in 0..TickMod-1
    <2>1. j \in Nat /\ j >= 1  BY WheelSizes
    <2>2. P * (q + j) = P * q + P * j  BY <2>1
    <2>3. P * j >= P  BY <1>2, <2>1
    <2>4. P * q \in Int /\ P * j \in Int  BY <2>1
    <2>5. T < D  BY <1>3, <1>4, <2>2, <2>3, <2>4
    <2> QED  BY <1>4, <2>5, WheelSizes
  <1>6. PICK A : A = (T + 1) \div P  OBVIOUS
  <1>7. CASE ~\A i \in 0..l-1 : cur[i] = Scale - 1
    <2>1. A = q  BY <1>2, <1>3, <1>6, <1>7, ReadsNext
    <2> QED  BY <1>1, <1>2, <1>4, <1>5, <1>6, <2>1 DEF Ahead
  <1>8. CASE \A i \in 0..l-1 : cur[i] = Scale - 1
    <2>1. A = q + 1  BY <1>2, <1>3, <1>6, <1>8, ReadsNext
    <2>2. CASE j = 1
      <3>1. Reads(T + 1, Ticked(now), Turned(cur))  BY ReadsNext
      <3>2. Turned(cur)[l] = ((T + 1) \div (Scale ^ l)) % Scale  BY <3>1 DEF Reads
      <3>3. Turned(cur)[l] = A % Scale  BY <1>2, <1>6, <3>2
      <3> QED  BY <1>1, <1>4, <1>8, <2>1, <2>2, <3>3
    <2>3. CASE j # 1
      <3>1. PICK i \in 1..Scale-1 : i = j - 1  BY <2>3, WheelSizes
      <3>2. A + i = q + j  BY <2>1, <3>1, WheelSizes
      <3> QED  BY <1>1, <1>2, <1>4, <1>5, <1>6, <3>1, <3>2 DEF Ahead
    <2> QED  BY <2>2, <2>3
  <1> QED  BY <1>7, <1>8

-----------------------------------------------------------------------------
(* The timing wheel: the invariant. *)

\* The wheel after T steps.
Wheel(T) ==
    /\ Reads(T, uiCurrentTick, ulCurrentLevelTick)
    /\ \A t \in Timers : InList(t) => Ahead(T, place[t], uiTriggerTick[t])

\* The inductive invariant: the wheel is one after some number of steps.
Turning == \E T \in Nat : Wheel(T)

IInv == TypeOK /\ Turning

\* The places and the trigger ticks have their types.
Spots ==
    /\ place \in [Timers -> Places \cup {NotInList}]
    /\ uiTriggerTick \in [Timers -> 0..TickMod-1]

\* The ticks that clients give a timer.
LEMMA TicksAre ==
  /\ \A k \in Firsts : k \in 0..TickMod-1 /\ k + 1 \in 0..TickMod-1
  /\ \A k \in Periods \cup {0} : k \in 0..TickMod-1
  <1>1. ASSUME NEW k \in Firsts  PROVE k \in 0..TickMod-1 /\ k + 1 \in 0..TickMod-1
    <2>1. k \in Nat /\ k + 1 < TickMod  BY TicksAssumption
    <2> QED  BY <2>1, WheelSizes
  <1>2. ASSUME NEW k \in Periods \cup {0}  PROVE k \in 0..TickMod-1
    BY TicksAssumption, WheelSizes
  <1> QED  BY <1>1, <1>2

\* Adding a timer keeps the wheel.
LEMMA AddKeeps ==
  ASSUME Spots, NEW T \in Nat, Wheel(T), NEW t \in Timers, NEW k \in 0..TickMod-1,
         _vclock_timer_add(t, k), UNCHANGED clock
  PROVE  /\ Spots' /\ Wheel(T)' /\ place'[t] \in Places
         /\ place'[t] = SlotOf(ulCurrentLevelTick, k)
         /\ VCLOCK_GetTickLeft(t)' = k
  <1>1. Reads(T, uiCurrentTick, ulCurrentLevelTick)  BY DEF Wheel
  <1> DEFINE s == SlotOf(ulCurrentLevelTick, k)
             d == (uiCurrentTick + k) % TickMod
  <1>2. s \in Places /\ d \in 0..TickMod-1 /\ d = (T + k) % TickMod /\ Ahead(T, s, d)
    BY <1>1, Added
  <1>3. /\ place' = [place EXCEPT ![t] = s] /\ uiTriggerTick' = [uiTriggerTick EXCEPT ![t] = d]
        /\ uiCurrentTick' = uiCurrentTick /\ ulCurrentLevelTick' = ulCurrentLevelTick
    BY DEF _vclock_timer_add, clock
  <1>4. place'[t] = s  BY <1>3 DEF Spots
  <1>5. VCLOCK_GetTickLeft(t)' = k
    <2>1. k \in Nat /\ TickMod \in Nat /\ TickMod > 0  BY WheelSizes
    <2>2. PICK D \in Int : D = T + k  BY <2>1
    <2>3. D - T = k /\ D - T \in 0..TickMod-1  BY <2>1, <2>2
    <2>4. ((D % TickMod) - (T % TickMod)) % TickMod = D - T  BY <2>3, LeftIs
    <2>5. uiTriggerTick'[t] = D % TickMod /\ uiCurrentTick' = T % TickMod
      BY <1>1, <1>2, <1>3, <2>2 DEF Spots, Reads
    <2> QED  BY <2>3, <2>4, <2>5 DEF VCLOCK_GetTickLeft
  <1> HIDE DEF s, d
  <1>6. Spots'  BY <1>2, <1>3 DEF Spots
  <1>7. ASSUME NEW u \in Timers, InList(u)'
        PROVE  Ahead(T, place'[u], uiTriggerTick'[u])
    <2>1. CASE u = t  BY <1>2, <1>3, <2>1 DEF Spots
    <2>2. CASE u # t
      <3>1. place'[u] = place[u] /\ uiTriggerTick'[u] = uiTriggerTick[u]
        BY <1>3, <2>2 DEF Spots
      <3> QED  BY <1>7, <3>1 DEF InList, Wheel
    <2> QED  BY <2>1, <2>2
  <1>8. Wheel(T)'  BY <1>1, <1>3, <1>7 DEF Wheel
  <1> QED  BY <1>2, <1>4, <1>5, <1>6, <1>8 DEF s

\* So does removing one.
LEMMA RemoveKeeps ==
  ASSUME Spots, NEW T \in Nat, Wheel(T), NEW t \in Timers, Remove(t), UNCHANGED clock
  PROVE  Spots' /\ Wheel(T)' /\ place'[t] = NotInList
  <1>1. /\ place' = [place EXCEPT ![t] = NotInList] /\ uiTriggerTick' = uiTriggerTick
        /\ uiCurrentTick' = uiCurrentTick /\ ulCurrentLevelTick' = ulCurrentLevelTick
    BY DEF Remove, clock
  <1>2. Spots' /\ place'[t] = NotInList  BY <1>1 DEF Spots
  <1>3. ASSUME NEW u \in Timers, InList(u)'
        PROVE  Ahead(T, place'[u], uiTriggerTick'[u])
    <2>1. u # t  BY <1>2, <1>3 DEF InList
    <2>2. place'[u] = place[u] /\ uiTriggerTick'[u] = uiTriggerTick[u]
      BY <1>1, <2>1 DEF Spots
    <2> QED  BY <1>3, <2>2 DEF InList, Wheel
  <1> QED  BY <1>1, <1>2, <1>3 DEF Wheel

\* The slots that have become current are spread over the levels below: what
\* the step does with each timer.
LEMMA CascadeMoves ==
  ASSUME Spots, NEW T \in Nat, Wheel(T), Advance, NEW t \in Timers
  PROVE  /\ Reads(T + 1, uiCurrentTick', ulCurrentLevelTick')
         /\ InList(t)' <=> InList(t)
         /\ InList(t) => place'[t] \in Places /\ Ahead(T + 1, place'[t], uiTriggerTick[t])
         /\ InList(t) /\ place[t][1] = 0 => place'[t] = place[t]
         /\ InList(t) /\ place[t][1] # 0 =>
                \/ place'[t] = place[t]
                \/ place'[t] = SlotOf(ulCurrentLevelTick', VCLOCK_GetTickLeft(t)')
  <1> DEFINE now == uiCurrentTick  cur == ulCurrentLevelTick
             k == (uiTriggerTick[t] - Ticked(now)) % TickMod
  <1>1. Reads(T, now, cur)  BY DEF Wheel
  <1>2. /\ uiCurrentTick' = Ticked(now) /\ ulCurrentLevelTick' = Turned(cur)
        /\ uiTriggerTick' = uiTriggerTick /\ place' = Cascade(Ticked(now), Turned(cur))
    BY DEF Advance, Advancing, Ticked, Turned
  <1>3. /\ Reads(T + 1, Ticked(now), Turned(cur)) /\ T + 1 \in Nat  BY <1>1, ReadsNext
  <1>4. PICK moves \in BOOLEAN :
            moves <=> \E l \in Cascading : place[t] = <<l, Turned(cur)[l]>>
    OBVIOUS
  <1>5. place'[t] = IF moves THEN SlotOf(Turned(cur), k) ELSE place[t]
    BY <1>2, <1>4 DEF Cascade
  <1>6. VCLOCK_GetTickLeft(t)' = k  BY <1>2 DEF VCLOCK_GetTickLeft
  <1>7. uiTriggerTick[t] \in 0..TickMod-1  BY DEF Spots
  <1>8. CASE ~InList(t)
    <2>1. ~moves
      <3>1. ASSUME NEW l \in Cascading  PROVE <<l, Turned(cur)[l]>> \in Places
        BY <1>3 DEF Cascading, Advancing, Places, Reads
      <3> QED  BY <1>4, <1>8, <3>1, NamesAssumption DEF InList, Places
    <2> QED  BY <1>2, <1>3, <1>5, <1>8, <2>1 DEF InList
  <1>9. CASE InList(t) /\ place[t][1] = 0
    <2>1. ~moves  BY <1>4, <1>9 DEF Cascading
    <2>2. place'[t] = place[t] /\ place[t] \in Places  BY <1>5, <1>9, <2>1 DEF Spots, InList
    <2> QED  BY <1>2, <1>3, <1>9, <2>2 DEF InList, Ahead
  <1>10. CASE InList(t) /\ place[t][1] # 0
    <2>1. place[t] \in Places /\ Ahead(T, place[t], uiTriggerTick[t])
      BY <1>10 DEF InList, Spots, Wheel
    <2>2. CASE moves
      <3>1. PICK D \in Nat : D - T \in 1..TickMod-1 /\ uiTriggerTick[t] = D % TickMod
        BY <1>1, <1>10, <2>1, NotYet
      <3>2. PICK U \in Nat : U = T + 1  OBVIOUS
      <3>3. D - U \in 0..TickMod-1  BY <3>1, <3>2, WheelSizes
      <3>4. ((D % TickMod) - (U % TickMod)) % TickMod = D - U
        <4>1. D \in Int /\ U \in Int  BY <3>1, <3>2
        <4> QED  BY <3>3, <4>1, LeftIs
      <3>5. Ticked(now) = U % TickMod  BY <1>3, <3>2 DEF Reads
      <3>6. k = D - U  BY <3>1, <3>4, <3>5
      <3>7. k \in 0..TickMod-1 /\ U + k = D  BY <3>2, <3>3, <3>6, WheelSizes
      <3> HIDE DEF k
      <3>8. /\ SlotOf(Turned(cur), k) \in Places
             /\ (Ticked(now) + k) % TickMod = (U + k) % TickMod
             /\ Ahead(U, SlotOf(Turned(cur), k), (Ticked(now) + k) % TickMod)
        BY <1>3, <3>2, <3>7, Added
      <3>9. Ahead(T + 1, SlotOf(Turned(cur), k), uiTriggerTick[t])
        BY <3>1, <3>2, <3>7, <3>8
      <3>10. place'[t] \in Places /\ place'[t] # NotInList
        BY <1>5, <2>2, <3>8, NamesAssumption DEF Places
      <3> QED
        BY <1>2, <1>3, <1>5, <1>6, <1>10, <2>2, <3>8, <3>9, <3>10 DEF InList
    <2>3. CASE ~moves
      <3>1. PICK l \in 0..Levels-1 : l = place[t][1]  BY <2>1 DEF Places
      <3>2. ~(place[t][2] = Turned(cur)[l] /\ \A j \in 0..l-1 : cur[j] = Scale - 1)
        <4>1. (\A j \in 0..l-1 : cur[j] = Scale - 1) => l \in Cascading
          BY <1>10, <3>1 DEF Cascading, Advancing
        <4>2. place[t] = <<l, place[t][2]>>  BY <2>1, <3>1 DEF Places
        <4> QED  BY <1>4, <2>3, <4>1, <4>2
      <3>3. Ahead(T + 1, place[t], uiTriggerTick[t])
        BY <1>1, <1>10, <2>1, <3>1, <3>2, AheadNext
      <3> QED  BY <1>2, <1>3, <1>5, <1>10, <2>1, <2>3, <3>3 DEF InList
    <2> QED  BY <2>2, <2>3
  <1> QED  BY <1>8, <1>9, <1>10

\* The rest of the types.
Fields ==
    /\ ulTick \in [Timers -> Periods \cup {0}]
    /\ cycle \in [Timers -> BOOLEAN]
    /\ pause \in [Timers -> BOOLEAN]
    /\ added \subseteq Timers
    /\ stepping \in BOOLEAN
    /\ firing \in Timers \cup {Nobody}

LEMMA TypeParts == TypeOK => Spots /\ Fields
  BY DEF TypeOK, Spots, Fields, Places

LEMMA TypeWhole == Spots /\ Fields /\ Turning => TypeOK
  <1>1. \A T \in Nat : T % TickMod \in 0..TickMod-1  BY WheelSizes, DivMod
  <1> QED  BY <1>1 DEF TypeOK, Spots, Fields, Places, Turning, Wheel, Reads

\* What a call does to the wheel: it adds the timer or removes it.
LEMMA CallIs ==
  ASSUME Fields, NEW t \in Timers, Call(t)
  PROVE  /\ UNCHANGED <<clock, step>> /\ Fields'
         /\ Remove(t) \/ \E k \in 0..TickMod-1 : _vclock_timer_add(t, k)
  <1> USE DEF Fields
  <1>1. ASSUME NEW first \in Firsts, NEW tick \in Periods, NEW cyc \in BOOLEAN,
               VCLOCK_AddTimer(t, first, tick, cyc)
        PROVE  /\ UNCHANGED <<clock, step>> /\ Fields'
               /\ \E k \in 0..TickMod-1 : _vclock_timer_add(t, k)
    <2>1. first + 1 \in 0..TickMod-1  BY TicksAre
    <2>2. UNCHANGED <<clock, step>> /\ _vclock_timer_add(t, first + 1)
      BY <1>1 DEF VCLOCK_AddTimer
    <2>3. Fields'  BY <1>1 DEF VCLOCK_AddTimer, step
    <2> QED  BY <2>1, <2>2, <2>3
  <1>2. ASSUME NEW first \in 0..TickMod-1, NEW tick \in Periods \cup {0},
               VCLOCK_RestartWithTick(t, first, tick)
        PROVE  /\ UNCHANGED <<clock, step>> /\ Fields'
               /\ \E k \in 0..TickMod-1 : _vclock_timer_add(t, k)
    <2>1. Fields'  BY <1>2 DEF VCLOCK_RestartWithTick, step
    <2> QED  BY <1>2, <2>1 DEF VCLOCK_RestartWithTick
  <1>3. ASSUME NEW first \in Firsts, VCLOCK_Resume(t, first)
        PROVE  /\ UNCHANGED <<clock, step>> /\ Fields'
               /\ \E k \in 0..TickMod-1 : _vclock_timer_add(t, k)
    <2>1. Fields'  BY <1>3 DEF VCLOCK_Resume, step
    <2> QED  BY <1>3, <2>1, TicksAre DEF VCLOCK_Resume
  <1>4. CASE VCLOCK_DelTimer(t)
    BY <1>4 DEF VCLOCK_DelTimer, flags, step
  <1>5. CASE VCLOCK_Pause(t)
    BY <1>5 DEF VCLOCK_Pause, step
  <1>6. CASE VCLOCK_Refresh(t)
    <2>1. ulTick[t] \in 0..TickMod-1 /\ ulTick[t] \in Periods \cup {0}  BY TicksAre
    <2>2. VCLOCK_RestartWithTick(t, ulTick[t], ulTick[t])  BY <1>6 DEF VCLOCK_Refresh
    <2> QED  BY <1>2, <2>1, <2>2
  <1>7. \A first \in Firsts, tick \in Periods :
            first \in 0..TickMod-1 /\ tick \in Periods \cup {0}
    BY TicksAre
  <1> QED  BY <1>1, <1>2, <1>3, <1>4, <1>5, <1>6, <1>7 DEF Call

\* Taking a due timer adds it, a period ahead, or removes it.
LEMMA TakeIs ==
  ASSUME Fields, NEW t \in Timers, Take(t)
  PROVE  /\ UNCHANGED clock /\ Fields'
         /\ ulTick[t] \in 0..TickMod-1
         /\ IF cycle[t] THEN _vclock_timer_add(t, ulTick[t]) ELSE Remove(t)
  <1>1. ulTick[t] \in 0..TickMod-1  BY TicksAre DEF Fields
  <1>2. UNCHANGED <<clock, flags, stepping>> /\ firing' = t  BY DEF Take
  <1>3. Fields'  BY <1>2 DEF Fields, flags
  <1> QED  BY <1>1, <1>2, <1>3 DEF Take, PutBack

\* The clock and the timers of a wheel after T steps are those of one after T
\* steps, or after T + 1.
LEMMA StepWheel ==
  ASSUME Spots, Fields, NEW T \in Nat, Wheel(T), Next
  PROVE  Spots' /\ Fields' /\ \E U \in Nat : Wheel(U)'
  <1>1. ASSUME NEW t \in Timers, Call(t)  PROVE Spots' /\ Fields' /\ Wheel(T)'
    <2>1. /\ UNCHANGED clock /\ Fields'
          /\ Remove(t) \/ \E k \in 0..TickMod-1 : _vclock_timer_add(t, k)
      BY <1>1, CallIs
    <2>2. CASE Remove(t)  BY <2>1, <2>2, RemoveKeeps
    <2>3. ASSUME NEW k \in 0..TickMod-1, _vclock_timer_add(t, k)
          PROVE  Spots' /\ Fields' /\ Wheel(T)'
      BY <2>1, <2>3, AddKeeps
    <2> QED  BY <2>1, <2>2, <2>3
  <1>2. ASSUME NEW t \in Timers, Take(t)  PROVE Spots' /\ Fields' /\ Wheel(T)'
    <2>1. /\ UNCHANGED clock /\ Fields' /\ ulTick[t] \in 0..TickMod-1
          /\ Remove(t) \/ _vclock_timer_add(t, ulTick[t])
      BY <1>2, TakeIs
    <2>2. CASE Remove(t)  BY <2>1, <2>2, RemoveKeeps
    <2>3. CASE _vclock_timer_add(t, ulTick[t])
      BY <2>1, <2>3, AddKeeps
    <2> QED  BY <2>1, <2>2, <2>3
  <1>3. CASE Advance
    <2>1. /\ UNCHANGED <<uiTriggerTick, flags, firing>> /\ stepping' = TRUE
          /\ place' = [t \in Timers |-> place'[t]]
      BY <1>3 DEF Advance, Cascade
    <2>2. Fields'  BY <2>1 DEF Fields, flags
    <2>3. ASSUME NEW t \in Timers
          PROVE  /\ Reads(T + 1, uiCurrentTick', ulCurrentLevelTick')
                 /\ place'[t] \in Places \cup {NotInList}
                 /\ InList(t)' => Ahead(T + 1, place'[t], uiTriggerTick'[t])
      <3>1. /\ Reads(T + 1, uiCurrentTick', ulCurrentLevelTick')
            /\ InList(t)' <=> InList(t)
            /\ InList(t) => /\ place'[t] \in Places
                            /\ Ahead(T + 1, place'[t], uiTriggerTick[t])
        BY <1>3, CascadeMoves
      <3> QED  BY <2>1, <3>1 DEF InList
    <2>4. Reads(T + 1, uiCurrentTick', ulCurrentLevelTick')
      <3>1. Reads(T, uiCurrentTick, ulCurrentLevelTick)  BY DEF Wheel
      <3>2. uiCurrentTick' = Ticked(uiCurrentTick)
            /\ ulCurrentLevelTick' = Turned(ulCurrentLevelTick)
        BY <1>3 DEF Advance, Advancing, Ticked, Turned
      <3> QED  BY <3>1, <3>2, ReadsNext
    <2>5. Spots'  BY <2>1, <2>3 DEF Spots
    <2>6. Wheel(T + 1)'  BY <2>3, <2>4 DEF Wheel
    <2>7. T + 1 \in Nat  OBVIOUS
    <2> QED  BY <2>2, <2>5, <2>6, <2>7
  <1>4. CASE Return \/ Finish
    <2>1. UNCHANGED <<clock, place, uiTriggerTick, flags>>
      BY <1>4 DEF Return, Finish
    <2>2. Fields'
      <3>1. CASE Return  BY <2>1, <3>1 DEF Return, Fields, flags
      <3>2. CASE Finish  BY <2>1, <3>2 DEF Finish, Fields, flags
      <3> QED  BY <1>4, <3>1, <3>2
    <2>3. Spots' /\ Wheel(T)'  BY <2>1 DEF Spots, Wheel, clock, InList
    <2> QED  BY <2>2, <2>3
  <1> QED  BY <1>1, <1>2, <1>3, <1>4 DEF Next

\* A new instance is a wheel after no steps.
LEMMA WheelInit == Init => IInv
  <1> SUFFICES ASSUME Init  PROVE IInv
    OBVIOUS
  <1>1. Spots  BY WheelSizes DEF Init, Spots
  <1>2. Fields  BY Zenon DEF Init, Fields
  <1>3. Reads(0, uiCurrentTick, ulCurrentLevelTick)
    <2>1. ASSUME NEW l \in 0..Levels-1  PROVE (0 \div (Scale ^ l)) % Scale = 0
      <3>1. PICK P \in Nat : P = Scale ^ l /\ P > 0  BY WheelSizes, SpanIs
      <3>2. PICK q \in Nat : q = 0 \div P /\ P * q <= 0  BY <3>1, DivBounds
      <3>3. q = 0
        <4>1. CASE q >= 1
          <5>1. P * q >= P  BY <3>1, <4>1
          <5> QED  BY <3>1, <3>2, <5>1
        <4> QED  BY <4>1
      <3>4. 0 % Scale = 0  BY WheelSizes, ModSmall
      <3> QED  BY <3>1, <3>2, <3>3, <3>4
    <2>2. 0 % TickMod = 0  BY WheelSizes, ModSmall
    <2> QED  BY <2>1, <2>2, WheelSizes DEF Init, VCLOCK_InitInstance, Reads
  <1>4. Wheel(0)  BY <1>3 DEF Wheel, Init, InList
  <1>5. 0 \in Nat  OBVIOUS
  <1> QED  BY <1>1, <1>2, <1>4, <1>5, TypeWhole DEF IInv, Turning

\* The invariant is inductive.
LEMMA WheelStep == IInv /\ [Next]_vars => IInv'
  <1> SUFFICES ASSUME IInv, [Next]_vars  PROVE IInv'
    OBVIOUS
  <1>1. Spots /\ Fields  BY TypeParts DEF IInv
  <1>2. PICK T \in Nat : Wheel(T)  BY DEF IInv, Turning
  <1>3. CASE Next
    <2>1. Spots' /\ Fields' /\ \E U \in Nat : Wheel(U)'  BY <1>1, <1>2, <1>3, StepWheel
    <2>2. Spots' /\ Fields' /\ Turning'  BY <2>1 DEF Turning
    <2>3. TypeOK'  BY <2>2, TypeWhole, PTL
    <2> QED  BY <2>2, <2>3 DEF IInv
  <1>4. CASE UNCHANGED vars
    BY <1>4 DEF IInv, Turning, TypeOK, Wheel, InList, vars, clock, flags, step
  <1> QED  BY <1>3, <1>4

LEMMA WheelInvariance == Spec => []IInv
  BY WheelInit, WheelStep, PTL DEF Spec

\* VCLOCK: every field keeps its type, whatever calls are made and when; in
\* particular _vclock_timer_add always finds a level for the delay it is given.
THEOREM VclockTypeCorrect == Spec => []TypeOK
  <1>1. IInv => TypeOK  BY DEF IInv
  <1> QED  BY <1>1, WheelInvariance, PTL

\* VCLOCK_Step never leaves a timer behind in the current slot of a higher
\* level, for wheels of any size.
THEOREM VclockNoneBehind == Spec => []NoneBehind
  <1>1. IInv => NoneBehind
    <2> SUFFICES ASSUME IInv, NEW t \in Timers, InList(t), place[t][1] # 0
                 PROVE  /\ place[t][2] # ulCurrentLevelTick[place[t][1]]
                        /\ VCLOCK_GetTickLeft(t) # 0
      BY DEF NoneBehind
    <2>1. PICK T \in Nat : Wheel(T)  BY DEF IInv, Turning
    <2>2. place[t] \in Places  BY TypeParts DEF IInv, Spots, InList
    <2>3. /\ Reads(T, uiCurrentTick, ulCurrentLevelTick)
          /\ Ahead(T, place[t], uiTriggerTick[t])
      BY <2>1 DEF Wheel
    <2>4. PICK D \in Nat : /\ D - T \in 1..TickMod-1
                           /\ (uiTriggerTick[t] - uiCurrentTick) % TickMod = D - T
      BY <2>2, <2>3, NotYet
    <2>5. D - T # 0  BY <2>4, WheelSizes
    <2> QED  BY <2>2, <2>3, <2>4, <2>5, NotYet DEF VCLOCK_GetTickLeft
  <1> QED  BY <1>1, WheelInvariance, PTL

-----------------------------------------------------------------------------
(* The timing wheel implements the timer service. *)

\* A delay that is put on the lowest level is read off it again.
LEMMA LowestSlot ==
  ASSUME NEW T \in Nat, NEW now, NEW cur, Reads(T, now, cur), NEW k \in 0..TickMod-1
  PROVE  /\ SlotOf(cur, k)[1] # 0 => k # 0
         /\ SlotOf(cur, k)[1] = 0 =>
                /\ (SlotOf(cur, k)[2] - cur[0]) % Scale = k
                /\ SlotOf(cur, k) = <<0, cur[0]>> <=> k = 0
  <1>1. PICK l \in 0..Levels-1 : l = Level(k)  BY LevelFacts
  <1>2. SlotOf(cur, k) = <<l, (cur[l] + (k \div (Scale ^ l))) % Scale>>  BY <1>1 DEF SlotOf
  <1>3. k \in Nat  BY WheelSizes
  <1>4. ASSUME l # 0  PROVE k # 0
    <2>1. PICK P \in Nat : P = Scale ^ l /\ P > 0  BY WheelSizes, SpanIs
    <2>2. PICK q \in Nat : q = k \div P /\ P * q <= k  BY <1>3, <2>1, DivBounds
    <2>3. q # 0  BY <1>1, <1>4, <2>1, <2>2, LevelFacts
    <2>4. P * q >= P  BY <2>1, <2>3
    <2> QED  BY <1>3, <2>1, <2>2, <2>4
  <1>5. ASSUME l = 0
        PROVE  /\ (SlotOf(cur, k)[2] - cur[0]) % Scale = k
               /\ SlotOf(cur, k) = <<0, cur[0]>> <=> k = 0
    <2>1. k \div 1 = k
      <3>1. 1 \in Nat /\ 1 > 0 /\ k \in Int  BY <1>3
      <3>2. k % 1 \in 0..1-1 /\ k \div 1 \in Int /\ k = 1 * (k \div 1) + (k % 1)
        BY <3>1, DivMod
      <3> QED  BY <3>1, <3>2
    <2>2. k \in 0..Scale-1  BY <1>1, <1>5, <2>1, LevelFacts, SpanAssumption
    <2>3. PICK c \in 0..Scale-1 : c = cur[0]  BY <1>5 DEF Reads
    <2>4. SlotOf(cur, k) = <<0, (c + k) % Scale>>  BY <1>2, <1>5, <2>1, <2>3, SpanAssumption
    <2>5. c % Scale = c  BY <2>3, WheelSizes, ModSmall
    <2>6. PICK a \in Int : a = c + k  BY <1>3, <2>3, WheelSizes
    <2>7. /\ 0 \in Int /\ c \in Int /\ a % Scale \in Int
          /\ 0 + a - c = k /\ 0 + a - c \in 0..Scale-1
      BY <1>3, <2>2, <2>3, <2>6, WheelSizes, DivMod
    <2>8. (0 + (a % Scale) - (c % Scale)) % Scale = 0 + a - c  BY <2>7, WheelSizes, ModDiff
    <2>9. 0 + (a % Scale) - (c % Scale) = (a % Scale) - c  BY <2>5, <2>7
    <2>10. ((a % Scale) - c) % Scale = k  BY <2>7, <2>8, <2>9
    <2>11. a % Scale = c <=> k = 0
      <3>1. k = 0 => a % Scale = c  BY <2>5, <2>6, <2>7
      <3>2. a % Scale = c => k = 0
        <4>1. c - c = 0 /\ 0 % Scale = 0  BY <2>7, WheelSizes, ModSmall
        <4> QED  BY <2>10, <4>1
      <3> QED  BY <3>1, <3>2
    <2> QED  BY <2>3, <2>4, <2>6, <2>10, <2>11
  <1> QED  BY <1>2, <1>4, <1>5

\* A timer that is added has its delay left, or a revolution if it has none
\* and no step is running.
LEMMA LeftAdded ==
  ASSUME Spots, NEW T \in Nat, Wheel(T), NEW t \in Timers, NEW k \in 0..TickMod-1,
         _vclock_timer_add(t, k), UNCHANGED clock
  PROVE  Left(t)' = IF k = 0 /\ ~stepping' THEN Scale ELSE k
  <1> DEFINE cur == ulCurrentLevelTick  s == SlotOf(cur, k)
  <1>1. Reads(T, uiCurrentTick, cur)  BY DEF Wheel
  <1>2. /\ place'[t] \in Places /\ place'[t] = s /\ VCLOCK_GetTickLeft(t)' = k
        /\ ulCurrentLevelTick' = cur
    BY AddKeeps DEF clock
  <1>3. InList(t)'  BY <1>2, NamesAssumption DEF InList, Places
  <1>4. /\ s[1] # 0 => k # 0
        /\ s[1] = 0 => (s[2] - cur[0]) % Scale = k /\ (s = <<0, cur[0]>> <=> k = 0)
    BY <1>1, LowestSlot
  <1>5. Due(t)' <=> s = <<0, cur[0]>>  BY <1>2 DEF Due
  <1> HIDE DEF s, cur
  <1>6. CASE s[1] # 0  BY <1>2, <1>3, <1>4, <1>6 DEF Left
  <1>7. CASE s[1] = 0  BY <1>2, <1>3, <1>4, <1>5, <1>7 DEF Left
  <1> QED  BY <1>6, <1>7

\* A timer that is left alone keeps its ticks.
LEMMA LeftKept ==
  ASSUME NEW u \in Timers, UNCHANGED <<clock, stepping>>,
         place'[u] = place[u], uiTriggerTick'[u] = uiTriggerTick[u]
  PROVE  Left(u)' = Left(u)
  BY DEF Left, InList, Due, VCLOCK_GetTickLeft, clock

\* The ticks left on a running timer are a number, and not none between steps.
LEMMA LeftRuns ==
  ASSUME Spots, NEW T \in Nat, Wheel(T), NEW t \in Timers, InList(t)
  PROVE  /\ Left(t) \in Nat /\ Left(t) # NotInList
         /\ Due(t) /\ stepping => Left(t) = 0
         /\ ~(Due(t) /\ stepping) => Left(t) # 0
  <1>1. Reads(T, uiCurrentTick, ulCurrentLevelTick) /\ Ahead(T, place[t], uiTriggerTick[t])
    BY DEF Wheel
  <1>2. place[t] \in Places  BY DEF Spots, InList
  <1>3. CASE place[t][1] # 0
    <2>1. PICK D \in Nat : /\ D - T \in 1..TickMod-1
                           /\ (uiTriggerTick[t] - uiCurrentTick) % TickMod = D - T
      BY <1>1, <1>2, <1>3, NotYet
    <2>2. Left(t) = D - T  BY <1>3, <2>1 DEF Left, VCLOCK_GetTickLeft
    <2>3. Left(t) \in Nat /\ Left(t) # 0  BY <2>1, <2>2, WheelSizes
    <2>4. ~Due(t)  BY <1>3 DEF Due
    <2> QED  BY <2>3, <2>4, NamesAssumption
  <1>4. CASE place[t][1] = 0
    <2>1. PICK s \in 0..Scale-1 : place[t] = <<0, s>>  BY <1>2, <1>4 DEF Places
    <2>2. PICK c \in 0..Scale-1 : c = ulCurrentLevelTick[0]  BY <1>1, WheelSizes DEF Reads
    <2>3. Due(t) <=> s = c  BY <2>1, <2>2 DEF Due
    <2>4. Left(t) = IF Due(t) /\ ~stepping THEN Scale ELSE (s - c) % Scale
      BY <2>1, <2>2 DEF Left
    <2>5. (s - c) % Scale \in Nat
      <3>1. s - c \in Int  BY WheelSizes
      <3>2. (s - c) % Scale \in 0..Scale-1  BY <3>1, WheelSizes, DivMod
      <3> QED  BY <3>2, WheelSizes
    <2>6. (s - c) % Scale = 0 <=> s = c
      <3>1. c - c = 0 /\ 0 % Scale = 0  BY WheelSizes, ModSmall
      <3>2. ASSUME (s - c) % Scale = 0  PROVE s = c
        <4>1. PICK a \in Int : a = s - c  BY WheelSizes
        <4>2. 0 \in Int /\ a - 0 < Scale /\ 0 - a < Scale  BY <4>1, WheelSizes
        <4>3. a = 0  BY <3>1, <3>2, <4>1, <4>2, WheelSizes, ModInjective
        <4> QED  BY <4>1, <4>3, WheelSizes
      <3> QED  BY <3>1, <3>2
    <2> QED  BY <2>3, <2>4, <2>5, <2>6, WheelSizes, NamesAssumption
  <1> QED  BY <1>3, <1>4

\* A step of the clock takes one tick off every running timer.
LEMMA LeftAdvances ==
  ASSUME Spots, NEW T \in Nat, Wheel(T), Advance, NEW t \in Timers
  PROVE  /\ Left(t) # 0
         /\ Left(t)' = IF Left(t) = NotInList THEN NotInList ELSE Left(t) - 1
  <1> DEFINE cur == ulCurrentLevelTick
  <1>1. /\ Reads(T + 1, uiCurrentTick', ulCurrentLevelTick')
        /\ InList(t)' <=> InList(t)
        /\ InList(t) => place'[t] \in Places
        /\ InList(t) /\ place[t][1] = 0 => place'[t] = place[t]
        /\ InList(t) /\ place[t][1] # 0 =>
               \/ place'[t] = place[t]
               \/ place'[t] = SlotOf(ulCurrentLevelTick', VCLOCK_GetTickLeft(t)')
    BY CascadeMoves
  <1>2. Reads(T, uiCurrentTick, cur) /\ (InList(t) => Ahead(T, place[t], uiTriggerTick[t]))
    BY DEF Wheel
  <1>3. ~stepping /\ stepping' /\ uiTriggerTick' = uiTriggerTick  BY DEF Advance
  <1>4. CASE ~InList(t)
    <2>1. Left(t) = NotInList /\ Left(t)' = NotInList  BY <1>1, <1>4 DEF Left
    <2> QED  BY <2>1, NamesAssumption
  <1>5. CASE InList(t) /\ place[t][1] # 0
    <2>1. place[t] \in Places  BY <1>5 DEF Spots, InList
    <2>2. PICK D \in Nat : /\ D - T \in 1..TickMod-1 /\ uiTriggerTick[t] = D % TickMod
                           /\ (uiTriggerTick[t] - uiCurrentTick) % TickMod = D - T
      BY <1>2, <1>5, <2>1, NotYet
    <2>3. Left(t) = D - T  BY <1>5, <2>2 DEF Left, VCLOCK_GetTickLeft
    <2>4. PICK k \in 0..TickMod-1 : k = D - T - 1  BY <2>2, WheelSizes
    <2>5. VCLOCK_GetTickLeft(t)' = k
      <3>1. PICK U \in Int : U = T + 1  OBVIOUS
      <3>2. D \in Int /\ D - U = k  BY <2>2, <2>4, <3>1, WheelSizes
      <3>3. ((D % TickMod) - (U % TickMod)) % TickMod = D - U  BY <3>1, <3>2, LeftIs
      <3>4. uiCurrentTick' = U % TickMod  BY <1>1, <3>1 DEF Reads
      <3> QED  BY <1>3, <2>2, <3>2, <3>3, <3>4 DEF VCLOCK_GetTickLeft
    <2>6. Left(t)' = k
      <3>1. CASE place'[t][1] # 0  BY <1>1, <1>5, <2>5, <3>1 DEF Left
      <3>2. CASE place'[t][1] = 0
        <4>1. place'[t] = SlotOf(ulCurrentLevelTick', k)  BY <1>1, <1>5, <2>5, <3>2
        <4>2. T + 1 \in Nat  OBVIOUS
        <4>3. (place'[t][2] - ulCurrentLevelTick'[0]) % Scale = k
          BY <1>1, <3>2, <4>1, <4>2, LowestSlot
        <4> QED  BY <1>1, <1>3, <1>5, <3>2, <4>3 DEF Left
      <3> QED  BY <3>1, <3>2
    <2>7. Left(t) \in Nat /\ Left(t) # 0 /\ Left(t) - 1 = k  BY <2>2, <2>3, <2>4, WheelSizes
    <2> QED  BY <2>6, <2>7, NamesAssumption
  <1>6. CASE InList(t) /\ place[t][1] = 0
    <2>1. place[t] \in Places  BY <1>6 DEF Spots, InList
    <2>2. PICK s \in 0..Scale-1 : place[t] = <<0, s>> /\ place'[t] = <<0, s>>
      BY <1>1, <1>6, <2>1 DEF Places
    <2>3. PICK c \in 0..Scale-1 : c = cur[0]  BY <1>2, WheelSizes DEF Reads
    <2>4. ulCurrentLevelTick'[0] = (c + 1) % Scale
      <3>1. ulCurrentLevelTick' = Turned(cur)  BY DEF Advance, Advancing, Turned
      <3>2. 0 \in 0..Levels-1 /\ \A j \in 0..0-1 : FALSE  BY WheelSizes
      <3> QED  BY <2>3, <3>1, <3>2 DEF Turned
    <2>5. Left(t) = IF s = c THEN Scale ELSE (s - c) % Scale
      BY <1>3, <1>6, <2>2, <2>3 DEF Left, Due
    <2>6. Left(t)' = (s - ((c + 1) % Scale)) % Scale
      BY <1>1, <1>3, <1>6, <2>2, <2>4 DEF Left
    <2>7. PICK m \in 1..Scale : /\ Left(t) = m /\ (s = c + m \/ s = c + m - Scale)
      <3>1. CASE s = c  BY <2>5, <3>1, WheelSizes
      <3>2. CASE s > c
        <4>1. PICK m \in 0..Scale-1 : m = s - c  BY <3>2, WheelSizes
        <4>2. m % Scale = m  BY <4>1, WheelSizes, ModSmall
        <4> QED  BY <2>5, <3>2, <4>1, <4>2, WheelSizes
      <3>3. CASE s < c
        <4>1. PICK m \in 0..Scale-1 : m = s - c + Scale  BY <3>3, WheelSizes
        <4>2. Scale * (-1) + m = s - c /\ -1 \in Int  BY <4>1, WheelSizes
        <4>3. (Scale * (-1) + m) % Scale = m  BY <4>1, <4>2, WheelSizes, ModIs
        <4> QED  BY <2>5, <3>3, <4>1, <4>2, <4>3, WheelSizes
      <3> QED  BY <3>1, <3>2, <3>3, WheelSizes
    <2>8. (s - ((c + 1) % Scale)) % Scale = m - 1
      <3>1. PICK a \in Int : a = c + m  BY <2>7, WheelSizes
      <3>2. PICK b \in Int : b = c + 1  BY WheelSizes
      <3>3. /\ 0 \in Int /\ 0 + a - b = m - 1 /\ 0 + a - b \in 0..Scale-1
        BY <2>7, <3>1, <3>2, WheelSizes
      <3>4. (0 + (a % Scale) - (b % Scale)) % Scale = 0 + a - b
        BY <3>1, <3>2, <3>3, WheelSizes, ModDiff
      <3>5. a % Scale = s
        <4>1. CASE s = c + m  BY <2>2, <3>1, <4>1, WheelSizes, ModSmall
        <4>2. CASE s = c + m - Scale
          <5>1. a = Scale * 1 + s /\ 1 \in Int  BY <2>2, <3>1, <4>2, WheelSizes
          <5>2. (Scale * 1 + s) % Scale = s  BY <2>2, <5>1, WheelSizes, ModIs
          <5> QED  BY <5>1, <5>2
        <4> QED  BY <2>7, <4>1, <4>2
      <3>6. b % Scale \in Int /\ s \in Int  BY <2>2, <3>2, WheelSizes, DivMod
      <3>7. 0 + (a % Scale) - (b % Scale) = s - (b % Scale)  BY <3>5, <3>6
      <3> QED  BY <3>2, <3>3, <3>4, <3>7
    <2>9. Left(t) \in Nat /\ Left(t) # 0 /\ Left(t) - 1 = m - 1  BY <2>7, WheelSizes
    <2> QED  BY <2>6, <2>8, <2>9, NamesAssumption
  <1> QED  BY <1>4, <1>5, <1>6

\* What a step does to the ticks left, when it adds or removes one timer.
LEMMA LeftChanges ==
  ASSUME Spots, NEW T \in Nat, Wheel(T), NEW t \in Timers, UNCHANGED <<clock, stepping>>
  PROVE  /\ Remove(t) =>
                [u \in Timers |-> Left(u)'] =
                    [[u \in Timers |-> Left(u)] EXCEPT ![t] = NotInList]
         /\ \A k \in 0..TickMod-1 : _vclock_timer_add(t, k) =>
                [u \in Timers |-> Left(u)'] =
                    [[u \in Timers |-> Left(u)] EXCEPT
                        ![t] = IF k = 0 /\ ~stepping THEN Scale ELSE k]
  <1>1. ASSUME Remove(t)
        PROVE  [u \in Timers |-> Left(u)'] =
                   [[u \in Timers |-> Left(u)] EXCEPT ![t] = NotInList]
    <2>1. place'[t] = NotInList  BY <1>1, RemoveKeeps
    <2>2. Left(t)' = NotInList  BY <2>1 DEF Left, InList
    <2>3. ASSUME NEW u \in Timers, u # t  PROVE Left(u)' = Left(u)
      <3>1. place'[u] = place[u] /\ uiTriggerTick'[u] = uiTriggerTick[u]
        BY <1>1, <2>3 DEF Remove, Spots
      <3> QED  BY <3>1, LeftKept
    <2> QED  BY <2>2, <2>3
  <1>2. ASSUME NEW k \in 0..TickMod-1, _vclock_timer_add(t, k)
        PROVE  [u \in Timers |-> Left(u)'] =
                   [[u \in Timers |-> Left(u)] EXCEPT
                       ![t] = IF k = 0 /\ ~stepping THEN Scale ELSE k]
    <2>1. Left(t)' = IF k = 0 /\ ~stepping THEN Scale ELSE k  BY <1>2, LeftAdded
    <2>2. ASSUME NEW u \in Timers, u # t  PROVE Left(u)' = Left(u)
      <3>1. place'[u] = place[u] /\ uiTriggerTick'[u] = uiTriggerTick[u]
        BY <1>2, <2>2 DEF _vclock_timer_add, Spots
      <3> QED  BY <3>1, LeftKept
    <2> QED  BY <2>1, <2>2
  <1> QED  BY <1>1, <1>2

\* Every step of the wheel is a step of the service, or changes nothing that
\* the service has.
LEMMA StepOnTime == IInv /\ [Next]_vars => [Service!Next]_(Service!vars)
  <1> SUFFICES ASSUME IInv, [Next]_vars  PROVE [Service!Next]_(Service!vars)
    OBVIOUS
  <1>1. Spots /\ Fields  BY TypeParts DEF IInv
  <1>2. PICK T \in Nat : Wheel(T)  BY DEF IInv, Turning
  <1> DEFINE left == [t \in Timers |-> Left(t)]
             left1 == [t \in Timers |-> Left(t)']
  <1>3. \A k \in 0..TickMod-1 : k \in 0..TickMod  BY WheelSizes
  <1>4. ASSUME NEW t \in Timers, Call(t)  PROVE Service!Next
    <2>1. /\ UNCHANGED <<clock, stepping, firing>>
          /\ Remove(t) \/ \E k \in 0..TickMod-1 : _vclock_timer_add(t, k)
      BY <1>1, <1>4, CallIs DEF step
    <2>2. CASE Remove(t)
      <3>1. left1 = [left EXCEPT ![t] = NotInList]  BY <1>1, <1>2, <2>1, <2>2, LeftChanges
      <3>2. Service!Stop(t)  BY <2>1, <3>1 DEF Service!Stop
      <3> QED  BY <3>2 DEF Service!Next
    <2>3. ASSUME NEW k \in 0..TickMod-1, _vclock_timer_add(t, k)  PROVE Service!Next
      <3>1. left1 = [left EXCEPT ![t] = IF k = 0 /\ ~stepping THEN Scale ELSE k]
        BY <1>1, <1>2, <2>1, <2>3, LeftChanges
      <3>2. Service!Start(t, k)  BY <2>1, <3>1 DEF Service!Start, Service!Delay
      <3> QED  BY <1>3, <3>2 DEF Service!Next
    <2> QED  BY <2>1, <2>2, <2>3
  <1>5. ASSUME NEW t \in Timers, Take(t)  PROVE Service!Next
    <2>1. /\ UNCHANGED clock /\ ulTick[t] \in 0..TickMod-1
          /\ IF cycle[t] THEN _vclock_timer_add(t, ulTick[t]) ELSE Remove(t)
      BY <1>1, <1>5, TakeIs
    <2>2. /\ stepping /\ firing = Nobody /\ firing' = t /\ stepping' = stepping /\ Due(t)
      BY <1>5 DEF Take
    <2>3. left[t] = 0
      <3>1. InList(t)
        <4>1. ulCurrentLevelTick[0] \in 0..Scale-1 /\ 0 \in 0..Levels-1
          BY <1>2, WheelSizes DEF Wheel, Reads
        <4>2. place[t] \in Places  BY <2>2, <4>1 DEF Due, Places
        <4> QED  BY <4>2, NamesAssumption DEF InList, Places
      <3> QED  BY <1>1, <1>2, <2>2, <3>1, LeftRuns
    <2>4. CASE cycle[t]
      <3>1. left1 = [left EXCEPT ![t] = ulTick[t]]
        BY <1>1, <1>2, <2>1, <2>2, <2>4, LeftChanges
      <3>2. Service!Expire(t, ulTick[t])  BY <2>2, <2>3, <3>1 DEF Service!Expire
      <3> QED  BY <1>3, <2>1, <3>2 DEF Service!Next
    <2>5. CASE ~cycle[t]
      <3>1. left1 = [left EXCEPT ![t] = NotInList]
        BY <1>1, <1>2, <2>1, <2>2, <2>5, LeftChanges
      <3>2. Service!Expire(t, NotInList)  BY <2>2, <2>3, <3>1 DEF Service!Expire
      <3> QED  BY <3>2 DEF Service!Next
    <2> QED  BY <2>4, <2>5
  <1>6. CASE Advance
    <2>1. ~stepping /\ stepping' = TRUE /\ firing' = firing  BY <1>6 DEF Advance
    <2>2. \A t \in Timers : /\ left[t] # 0
                            /\ left1[t] = IF left[t] = NotInList THEN NotInList
                                                                 ELSE left[t] - 1
      BY <1>1, <1>2, <1>6, LeftAdvances
    <2>3. left1 = [t \in Timers |-> IF left[t] = NotInList THEN NotInList ELSE left[t] - 1]
      BY <2>2
    <2>4. Service!Tick  BY <2>1, <2>2, <2>3 DEF Service!Tick
    <2> QED  BY <2>4 DEF Service!Next
  <1>7. CASE Return
    <2>1. /\ firing # Nobody /\ firing' = Nobody
          /\ UNCHANGED <<clock, place, uiTriggerTick, stepping>>
      BY <1>7 DEF Return
    <2>2. \A t \in Timers : Left(t)' = Left(t)  BY <2>1, LeftKept
    <2>3. Service!Return  BY <2>1, <2>2 DEF Service!Return
    <2> QED  BY <2>3 DEF Service!Next
  <1>8. CASE Finish
    <2>1. /\ stepping /\ firing = Nobody /\ stepping' = FALSE /\ firing' = firing
          /\ \A t \in Timers : ~Due(t)
          /\ UNCHANGED <<clock, place, uiTriggerTick>>
      BY <1>8 DEF Finish
    <2>2. ASSUME NEW t \in Timers  PROVE Left(t)' = Left(t) /\ Left(t) # 0
      <3>1. Left(t)' = Left(t)
        BY <2>1 DEF Left, InList, Due, VCLOCK_GetTickLeft, clock
      <3>2. CASE InList(t)  BY <1>1, <1>2, <2>1, <3>1, <3>2, LeftRuns
      <3>3. CASE ~InList(t)  BY <3>1, <3>3, NamesAssumption DEF Left
      <3> QED  BY <3>2, <3>3
    <2>3. Service!Done  BY <2>1, <2>2 DEF Service!Done
    <2> QED  BY <2>3 DEF Service!Next
  <1>9. CASE UNCHANGED vars
    <2>1. UNCHANGED <<clock, place, uiTriggerTick, stepping, firing>>
      BY <1>9 DEF vars, step
    <2>2. \A t \in Timers : Left(t)' = Left(t)  BY <2>1, LeftKept
    <2> QED  BY <2>1, <2>2 DEF Service!vars
  <1> QED  BY <1>4, <1>5, <1>6, <1>7, <1>8, <1>9 DEF Next

\* VCLOCK implements the timer service: for wheels of any size and any number
\* of timers, whatever calls are made between the callbacks of a step, every
\* running timer is taken in the step its delay runs out in, once.
THEOREM VclockOnTime == Spec => OnTime
  <1>1. Init => Service!Init
    BY DEF Init, Service!Init, Left, InList
  <1> QED  BY <1>1, StepOnTime, WheelInvariance, PTL DEF Spec, OnTime, Service!Spec

-----------------------------------------------------------------------------
(* Keep-alive. *)

\* A session whose keep-alive may be used has started it.
Started ==
    /\ uiStatus \in {"establish", "closed"} => ka.hVClockInstance
    /\ uiStatus = "handshake" => ~ka.hVClockInstance

KaDue ==
    ~hurried /\ ka.left # Never =>
        silent + ka.left >= ka.stSet.usIdle + ka.stSet.usIntval * ka.usProbeCount

\* The inductive invariant.
KaInv == KaTypeOK /\ (Up => Started /\ KaDue)

\* A record is not the stopped program, and a running timer has its ticks.
LEMMA KaIs ==
  ASSUME NEW k \in KA_S
  PROVE  /\ k # Dead
         /\ k.stSet \in Options /\ k.stSet.usIdle \in Nat
         /\ k.stSet.usIntval \in Nat /\ k.stSet.usIntval # Never
         /\ k.stSet.usMaxProbeCount \in Nat
         /\ k.hVClockInstance \in BOOLEAN /\ k.pfFunc \in BOOLEAN
         /\ k.usProbeCount \in Nat
         /\ k.left \in Nat \cup {Never}
  BY KaAssumption DEF KA_S, Options

\* A call on a timer that has its instance sets the timer and nothing else.
LEMMA VclockIs ==
  ASSUME NEW k \in KA_S, k.hVClockInstance, NEW t \in Nat \cup {Never}
  PROVE  LET r == Vclock(k, t)
         IN  /\ r \in KA_S /\ r.left = t /\ r.stSet = k.stSet
             /\ r.usProbeCount = k.usProbeCount /\ r.hVClockInstance
  <1>1. Vclock(k, t) = [k EXCEPT !.left = t]  BY KaIs DEF Vclock
  <1> QED  BY <1>1 DEF KA_S

LEMMA ClearedIs ==
  ASSUME NEW k \in KA_S
  PROVE  LET r == Cleared(k)
         IN  /\ r \in KA_S /\ r.left = k.left /\ r.stSet = k.stSet
             /\ r.usProbeCount = 0 /\ r.hVClockInstance = k.hVClockInstance
  <1>1. Cleared(k) = [k EXCEPT !.usProbeCount = 0]  BY KaIs DEF Cleared
  <1> QED  BY <1>1 DEF KA_S

\* The operations on a keep-alive that has been started.
LEMMA StopIs ==
  ASSUME NEW k \in KA_S, k.hVClockInstance
  PROVE  LET r == KA_Stop(k)
         IN  /\ r \in KA_S /\ r.left = Never /\ r.stSet = k.stSet
             /\ r.usProbeCount = 0 /\ r.hVClockInstance
  <1> DEFINE c == Vclock(k, Never)
  <1>1. c \in KA_S /\ c.left = Never /\ c.stSet = k.stSet /\ c.hVClockInstance
    BY VclockIs
  <1> HIDE DEF c
  <1>2. KA_Stop(k) = Cleared(c)  BY DEF KA_Stop, c
  <1> QED  BY <1>1, <1>2, ClearedIs

\* What keep-alive is like when it has been reset or started: the timer has
\* at least the idle time to go, or does not run when that is 0.
Fresh(k) ==
    /\ k \in KA_S /\ k.hVClockInstance /\ k.usProbeCount = 0
    /\ k.stSet.usIdle # 0 => k.left \in Nat /\ k.left >= k.stSet.usIdle
    /\ k.stSet.usIdle = 0 => k.left = Never

LEMMA ResetIs ==
  ASSUME NEW k \in KA_S, k.hVClockInstance
  PROVE  Fresh(KA_Reset(k)) /\ KA_Reset(k).stSet = k.stSet
  <1> DEFINE t == IF k.stSet.usIdle = 0 THEN Never ELSE k.stSet.usIdle
             c == Vclock(k, t)
             r == Cleared(c)
  <1>1. t \in Nat \cup {Never}  BY KaIs
  <1>2. k.stSet.usIdle # 0 => t \in Nat /\ t >= k.stSet.usIdle  BY KaIs
  <1>3. k.stSet.usIdle = 0 => t = Never  OBVIOUS
  <1> HIDE DEF t
  <1>4. c \in KA_S /\ c.left = t /\ c.stSet = k.stSet /\ c.hVClockInstance
    BY <1>1, VclockIs
  <1> HIDE DEF c
  <1>5. r \in KA_S /\ r.left = t /\ r.stSet = k.stSet /\ r.usProbeCount = 0 /\ r.hVClockInstance
    BY <1>4, ClearedIs
  <1>6. KA_Reset(k) = r  BY DEF KA_Reset, c, t
  <1> HIDE DEF r
  <1> QED  BY <1>2, <1>3, <1>5, <1>6 DEF Fresh

LEMMA StartIs ==
  ASSUME NEW k \in KA_S
  PROVE  Fresh(KA_Start(k)) /\ KA_Start(k).stSet = k.stSet
  <1> DEFINE t == IF k.stSet.usIdle = 0 THEN Never ELSE k.stSet.usIdle + 1
             r == [k EXCEPT !.hVClockInstance = TRUE, !.usProbeCount = 0,
                            !.pfFunc = (k.stSet.usIdle # 0), !.left = t]
  <1>1. KA_Start(k) = r  BY KaIs DEF KA_Start
  <1>2. t \in Nat \cup {Never}  BY KaIs
  <1>3. k.stSet.usIdle # 0 => t \in Nat /\ t >= k.stSet.usIdle  BY KaIs
  <1>4. k.stSet.usIdle = 0 => t = Never  OBVIOUS
  <1>5. (k.stSet.usIdle # 0) \in BOOLEAN  OBVIOUS
  <1> HIDE DEF t
  <1>6. r \in KA_S /\ r.left = t /\ r.stSet = k.stSet /\ r.usProbeCount = 0 /\ r.hVClockInstance
    BY <1>2, <1>5 DEF KA_S
  <1> HIDE DEF r
  <1> QED  BY <1>1, <1>3, <1>4, <1>6 DEF Fresh

LEMMA ProbedIs ==
  ASSUME NEW k \in KA_S, k.hVClockInstance
  PROVE  LET r == Probed(k)
         IN  /\ r \in KA_S /\ r.stSet = k.stSet /\ r.usProbeCount = k.usProbeCount + 1
             /\ r.left = k.stSet.usIntval /\ r.hVClockInstance
  <1> DEFINE c == Vclock(k, k.stSet.usIntval)
  <1>1. k.stSet.usIntval \in Nat  BY KaIs
  <1>2. /\ c \in KA_S /\ c.left = k.stSet.usIntval /\ c.stSet = k.stSet
        /\ c.usProbeCount = k.usProbeCount /\ c.hVClockInstance
    BY <1>1, VclockIs
  <1>3. c # Dead  BY <1>2, KaIs
  <1>4. Probed(k) = [c EXCEPT !.usProbeCount = c.usProbeCount + 1]  BY <1>3 DEF Probed
  <1> HIDE DEF c
  <1>5. c.usProbeCount + 1 \in Nat  BY <1>2, KaIs
  <1> QED  BY <1>2, <1>4, <1>5 DEF KA_S

LEMMA FailedIs ==
  ASSUME NEW k \in KA_S, k.hVClockInstance
  PROVE  LET r == Failed(k)
         IN  /\ r \in KA_S /\ r.left = Never /\ r.stSet = k.stSet
             /\ r.usProbeCount = 0 /\ r.hVClockInstance
  <1> DEFINE c == Vclock(k, Never)
  <1>1. c \in KA_S /\ c.hVClockInstance /\ c.stSet = k.stSet
    BY VclockIs
  <1> HIDE DEF c
  <1>2. Failed(k) = KA_Stop(c)  BY DEF Failed, c
  <1> QED  BY <1>1, <1>2, StopIs

\* Before it has been started every call on it stops the program.
LEMMA NotStarted ==
  ASSUME NEW k, ~k.hVClockInstance
  PROVE  KA_Reset(k) = Dead /\ KA_Stop(k) = Dead /\ Probed(k) = Dead /\ Failed(k) = Dead
  <1>1. \A t : Vclock(k, t) = Dead  BY DEF Vclock
  <1>2. \A t : Vclock(Dead, t) = Dead  BY DEF Vclock
  <1> QED  BY <1>1, <1>2 DEF KA_Reset, KA_Stop, Probed, Failed, Cleared

-----------------------------------------------------------------------------
(* Time. *)

\* One interval more for one probe more, and never more than all of them.
LEMMA IntvalTimes ==
  ASSUME NEW intval \in Nat, NEW count \in Nat, NEW n \in 0..count
  PROVE  /\ intval * n \in Nat
         /\ intval * (n + 1) = intval * n + intval
         /\ intval * n <= intval * count
  <1>1. n \in Nat /\ n <= count  OBVIOUS
  <1>2. intval * n \in Nat /\ intval * (n + 1) = intval * n + intval  BY <1>1
  <1>3. PICK d \in Nat : count = n + d  BY <1>1
  <1>4. intval * count = intval * n + intval * d /\ intval * d \in Nat
    BY <1>1, <1>3
  <1> QED  BY <1>2, <1>4

\* ka_KeepAlive on a keep-alive that has been started, out of its turn or at
\* its time: it probes again or closes the session.
LEMMA KeepAliveIs ==
  ASSUME ka \in KA_S, ka.hVClockInstance, ka_KeepAlive(ka)
  PROVE  /\ ka' \in KA_S /\ ka'.hVClockInstance /\ ka'.stSet = ka.stSet
         /\ \/ /\ Exhausted(ka) /\ uiStatus' = "closed" /\ ka'.left = Never
               /\ ka'.usProbeCount = 0
            \/ /\ ~Exhausted(ka) /\ uiStatus' = uiStatus
               /\ ka'.left = ka.stSet.usIntval /\ ka'.usProbeCount = ka.usProbeCount + 1
               /\ ka'.usProbeCount <= ka.stSet.usMaxProbeCount
  <1>1. CASE Exhausted(ka)
    <2>1. ka' = Failed(ka) /\ uiStatus' = "closed"  BY <1>1 DEF ka_KeepAlive
    <2> QED  BY <1>1, <2>1, FailedIs
  <1>2. CASE ~Exhausted(ka)
    <2>1. ka' = Probed(ka) /\ uiStatus' = uiStatus  BY <1>2 DEF ka_KeepAlive
    <2>2. ka.usProbeCount + 1 <= ka.stSet.usMaxProbeCount  BY <1>2, KaIs DEF Exhausted
    <2> QED  BY <1>2, <2>1, <2>2, ProbedIs
  <1> QED  BY <1>1, <1>2

\* What a state in which the program runs is made of.
LEMMA Running ==
  ASSUME KaInv, Up
  PROVE  /\ uiStatus \in {"handshake", "establish", "closed", "free"}
         /\ ka \in KA_S /\ ka.stSet \in Opts \cup {DftOpt}
         /\ ka.usProbeCount \in 0..ka.stSet.usMaxProbeCount
         /\ silent \in 0..SilenceMax /\ silent \in Nat /\ hurried \in BOOLEAN
         /\ uiStatus \in {"establish", "closed"} => ka.hVClockInstance
         /\ uiStatus = "handshake" => ~ka.hVClockInstance
         /\ ka.left # Never => uiStatus \in {"establish", "closed"} /\ ka.left \in Nat
  <1>1. /\ ka \in KA_S /\ silent \in 0..SilenceMax /\ hurried \in BOOLEAN
        /\ ka.usProbeCount <= ka.stSet.usMaxProbeCount
    BY DEF KaInv, KaTypeOK
  <1>2. silent \in Nat  BY <1>1, KaAssumption
  <1>3. ka.left \in Nat \cup {Never} /\ ka.usProbeCount \in 0..ka.stSet.usMaxProbeCount
    BY <1>1, KaIs
  <1> QED  BY <1>1, <1>2, <1>3 DEF KaInv, KaTypeOK, Started

\* A state in which the program has stopped says nothing more.
LEMMA DeadKeeps ==
  ASSUME ka' = Dead
  PROVE  KaInv'
  BY DEF KaInv, KaTypeOK, Up

\* Everything that resets the account: it starts with the whole of the idle
\* time on the timer.
LEMMA HeardKeeps ==
  ASSUME Heard, Fresh(ka'), ka'.stSet \in Opts \cup {DftOpt},
         uiStatus' \in {"establish", "closed"}
  PROVE  KaInv'
  <1>1. /\ ka' \in KA_S /\ ka'.hVClockInstance /\ ka'.usProbeCount = 0
        /\ ka'.stSet.usIdle # 0 => ka'.left \in Nat /\ ka'.left >= ka'.stSet.usIdle
        /\ ka'.stSet.usIdle = 0 => ka'.left = Never
    BY DEF Fresh
  <1>2. /\ ka'.stSet.usIdle \in Nat /\ ka'.stSet.usIntval \in Nat
        /\ ka'.stSet.usMaxProbeCount \in Nat
    BY <1>1, KaIs
  <1>3. silent' = 0 /\ hurried' = FALSE /\ Never \notin Nat  BY KaAssumption DEF Heard
  <1>4. 0 \in 0..SilenceMax  BY KaAssumption
  <1>5. KaTypeOK'
    <2>1. ka'.usProbeCount <= ka'.stSet.usMaxProbeCount  BY <1>1, <1>2
    <2>2. /\ ka'.left # Never => uiStatus' \in {"establish", "closed"}
          /\ uiStatus' = "establish" /\ ka'.stSet.usIdle # 0 => ka'.left # Never
      BY <1>1, <1>3
    <2> QED  BY <1>1, <1>3, <1>4, <2>1, <2>2 DEF KaTypeOK
  <1>6. ka'.stSet.usIntval * 0 = 0  BY <1>2
  <1>7. ka'.left # Never => silent' + ka'.left >= ka'.stSet.usIdle + 0
    BY <1>1, <1>2, <1>3
  <1>8. KaDue'  BY <1>1, <1>6, <1>7 DEF KaDue
  <1> QED  BY <1>1, <1>5, <1>8 DEF KaInv, Started

\* A step that leaves the timer stopped in a session that is not established.
LEMMA IdleKeeps ==
  ASSUME silent' \in 0..SilenceMax, hurried' \in BOOLEAN,
         ka' \in KA_S, ka'.left = Never, ka'.usProbeCount = 0,
         ka'.stSet \in Opts \cup {DftOpt},
         \/ uiStatus' = "closed" /\ ka'.hVClockInstance
         \/ uiStatus' = "handshake" /\ ~ka'.hVClockInstance
         \/ uiStatus' = "free"
  PROVE  KaInv'
  <1>1. ka'.usProbeCount <= ka'.stSet.usMaxProbeCount  BY KaIs
  <1>2. KaTypeOK'  BY <1>1 DEF KaTypeOK
  <1> QED  BY <1>2 DEF KaInv, Started, KaDue

\* Out of turn: the account is closed (hurried) until the peer is heard again.
LEMMA TriggerKeeps ==
  ASSUME KaInv, KA_TrigerKeepAlive
  PROVE  KaInv'
  <1>0. Up /\ ka_KeepAlive(ka) /\ hurried' = TRUE /\ silent' = silent /\ uiStatus # "free"
    BY DEF KA_TrigerKeepAlive, Called
  <1>1. /\ ka \in KA_S /\ ka.stSet \in Opts \cup {DftOpt} /\ silent' \in 0..SilenceMax
        /\ uiStatus \in {"handshake", "establish", "closed"}
        /\ uiStatus \in {"establish", "closed"} => ka.hVClockInstance
        /\ uiStatus = "handshake" => ~ka.hVClockInstance
    BY <1>0, Running
  <1>2. CASE uiStatus = "handshake"
    <2>1. ka' = Dead  BY <1>0, <1>1, <1>2, NotStarted DEF ka_KeepAlive
    <2> QED  BY <2>1, DeadKeeps
  <1>3. CASE uiStatus \in {"establish", "closed"}
    <2>1. ka' \in KA_S /\ ka'.hVClockInstance /\ ka'.stSet = ka.stSet
      BY <1>0, <1>1, <1>3, KeepAliveIs
    <2>2. CASE uiStatus' = "closed" /\ ka'.left = Never /\ ka'.usProbeCount = 0
      BY <1>0, <1>1, <2>1, <2>2, IdleKeeps
    <2>3. CASE /\ uiStatus' = uiStatus /\ ka'.left = ka.stSet.usIntval
               /\ ka'.usProbeCount <= ka.stSet.usMaxProbeCount
      <3>1. ka'.left # Never  BY <1>1, <2>3, KaIs
      <3>2. KaTypeOK'  BY <1>0, <1>1, <1>3, <2>1, <2>3, <3>1 DEF KaTypeOK
      <3> QED  BY <1>0, <1>3, <2>1, <2>3, <3>2 DEF KaInv, Started, KaDue
    <2> QED  BY <1>0, <1>1, <1>3, <2>2, <2>3, KeepAliveIs
  <1> QED  BY <1>1, <1>2, <1>3

\* The account of one tick: what is silent and what is left.
LEMMA TickIs ==
  ASSUME KaInv, SES_TimerStep
  PROVE  /\ Up /\ hurried' = hurried /\ silent' \in 0..SilenceMax /\ silent' \in Nat
         /\ ka \in KA_S /\ ka.hVClockInstance /\ ka.stSet \in Opts \cup {DftOpt}
         /\ uiStatus \in {"establish", "closed"}
         /\ ka.left \in Nat
         /\ ~hurried /\ ka.left > 1 =>
               silent' + (ka.left - 1) >= ka.stSet.usIdle + ka.stSet.usIntval * ka.usProbeCount
         /\ ~hurried /\ ~(ka.left > 1) =>
               silent' >= ka.stSet.usIdle + ka.stSet.usIntval * ka.usProbeCount
  <1>0. /\ Up /\ ka.left # Never /\ hurried' = hurried
        /\ silent' = IF silent < SilenceMax THEN silent + 1 ELSE silent
    BY DEF SES_TimerStep
  <1>1. /\ ka \in KA_S /\ silent \in 0..SilenceMax /\ silent \in Nat
        /\ ka.hVClockInstance /\ ka.left \in Nat /\ uiStatus \in {"establish", "closed"}
        /\ ka.stSet \in Opts \cup {DftOpt}
        /\ ka.usProbeCount \in 0..ka.stSet.usMaxProbeCount
    BY <1>0, Running
  <1>2. SilenceMax \in Nat  BY KaAssumption
  <1>3. silent' \in 0..SilenceMax /\ silent' \in Nat  BY <1>0, <1>1, <1>2
  <1>4. /\ ka.stSet.usIdle \in Nat /\ ka.stSet.usIntval \in Nat
        /\ ka.stSet.usMaxProbeCount \in Nat
    BY <1>1, KaIs
  <1>5. PICK i \in Nat : i = ka.stSet.usIdle  BY <1>4
  <1>6. PICK a \in Nat : a = ka.stSet.usIntval * ka.usProbeCount  BY <1>1, <1>4, IntvalTimes
  <1>7. PICK all \in Nat : all = ka.stSet.usIntval * ka.stSet.usMaxProbeCount /\ a <= all
    <2>1. ka.stSet.usIntval * ka.stSet.usMaxProbeCount \in Nat  BY <1>4
    <2> QED  BY <1>1, <1>4, <1>6, <2>1, IntvalTimes
  <1>8. i + all < SilenceMax  BY <1>1, <1>5, <1>7, KaAssumption DEF Patience
  <1>9. ~hurried => silent + ka.left >= i + a
    BY <1>0, <1>5, <1>6 DEF KaInv, KaDue
  <1>10. ~hurried /\ ka.left > 1 => silent' + (ka.left - 1) >= i + a
    BY <1>0, <1>1, <1>2, <1>7, <1>8, <1>9
  <1>11. ~hurried /\ ~(ka.left > 1) => silent' >= i + a
    BY <1>0, <1>1, <1>2, <1>7, <1>8, <1>9
  <1> QED  BY <1>0, <1>1, <1>3, <1>5, <1>6, <1>10, <1>11

\* One tick.
LEMMA TickKeeps ==
  ASSUME KaInv, SES_TimerStep
  PROVE  KaInv'
  <1>1. /\ Up /\ hurried' = hurried /\ hurried \in BOOLEAN
        /\ silent' \in 0..SilenceMax /\ silent' \in Nat
        /\ ka \in KA_S /\ ka.hVClockInstance /\ ka.stSet \in Opts \cup {DftOpt}
        /\ uiStatus \in {"establish", "closed"} /\ ka.left \in Nat
        /\ ka.usProbeCount \in 0..ka.stSet.usMaxProbeCount
    BY TickIs, Running
  <1>2. /\ ka.stSet.usIdle \in Nat /\ ka.stSet.usIntval \in Nat
        /\ ka.stSet.usMaxProbeCount \in Nat /\ ka.usProbeCount \in Nat
    BY <1>1, KaIs
  <1>3. CASE ka.left > 1
    <2>1. ka' = [ka EXCEPT !.left = ka.left - 1] /\ uiStatus' = uiStatus
      BY <1>3 DEF SES_TimerStep
    <2>2. ka.left - 1 \in Nat /\ ka.left - 1 # Never  BY <1>1, <1>3, KaAssumption
    <2>3. /\ ka' \in KA_S /\ ka'.left = ka.left - 1 /\ ka'.stSet = ka.stSet
          /\ ka'.usProbeCount = ka.usProbeCount /\ ka'.hVClockInstance
      BY <1>1, <2>1, <2>2 DEF KA_S
    <2>4. ka'.usProbeCount <= ka'.stSet.usMaxProbeCount  BY <1>1, <1>2, <2>3
    <2>5. KaTypeOK'  BY <1>1, <2>1, <2>2, <2>3, <2>4 DEF KaTypeOK
    <2>6. KaDue'  BY <1>1, <1>3, <2>3, TickIs DEF KaDue
    <2> QED  BY <1>1, <2>1, <2>3, <2>5, <2>6 DEF KaInv, Started
  <1>4. CASE ~(ka.left > 1) /\ ka.pfFunc
    <2>1. ka_KeepAlive(ka)  BY <1>4 DEF SES_TimerStep
    <2>2. ka' \in KA_S /\ ka'.hVClockInstance /\ ka'.stSet = ka.stSet
      BY <1>1, <2>1, KeepAliveIs
    <2>3. CASE uiStatus' = "closed" /\ ka'.left = Never /\ ka'.usProbeCount = 0
      BY <1>1, <2>2, <2>3, IdleKeeps
    <2>4. CASE /\ uiStatus' = uiStatus
               /\ ka'.left = ka.stSet.usIntval /\ ka'.usProbeCount = ka.usProbeCount + 1
               /\ ka'.usProbeCount <= ka.stSet.usMaxProbeCount
      <3>1. ka'.left # Never  BY <1>1, <2>4, KaIs
      <3>2. KaTypeOK'  BY <1>1, <2>2, <2>4, <3>1 DEF KaTypeOK
      <3>3. PICK i \in Nat : i = ka.stSet.usIdle  BY <1>2
      <3>4. PICK v \in Nat : v = ka.stSet.usIntval  BY <1>2
      <3>5. PICK a \in Nat : a = v * ka.usProbeCount  BY <1>1, <1>2, <3>4, IntvalTimes
      <3>6. v * ka'.usProbeCount = a + v
        BY <1>1, <1>2, <2>4, <3>4, <3>5, IntvalTimes
      <3>7. ~hurried => silent' >= i + a
        BY <1>4, <3>3, <3>4, <3>5, TickIs
      <3>8. ~hurried => silent' + v >= i + (a + v)
        <4> SUFFICES ASSUME ~hurried PROVE silent' + v >= i + (a + v)
          OBVIOUS
        <4>1. PICK s \in Nat : s = silent'  BY <1>1
        <4>2. s >= i + a  BY <3>7, <4>1
        <4> QED  BY <3>3, <3>4, <3>5, <4>1, <4>2, SMT
      <3>9. KaDue'  BY <1>1, <2>2, <2>4, <3>3, <3>4, <3>6, <3>8 DEF KaDue
      <3> QED  BY <1>1, <2>2, <2>4, <3>2, <3>9 DEF KaInv, Started
    <2> QED  BY <1>1, <2>1, <2>3, <2>4, KeepAliveIs
  <1>5. CASE ~(ka.left > 1) /\ ~ka.pfFunc
    <2>1. ka' = Dead  BY <1>5 DEF SES_TimerStep
    <2> QED  BY <2>1, DeadKeeps
  <1> QED  BY <1>3, <1>4, <1>5

\* A packet: it resets a running keep-alive or starts it.
LEMMA PacketKeeps ==
  ASSUME KaInv, ses_ProtocolPktIn
  PROVE  KaInv'
  <1>0. Up /\ Heard /\ uiStatus' = "establish" /\ uiStatus \in {"handshake", "establish"}
    BY DEF ses_ProtocolPktIn
  <1>1. /\ ka \in KA_S /\ ka.stSet \in Opts \cup {DftOpt}
        /\ uiStatus = "establish" => ka.hVClockInstance
        /\ uiStatus = "handshake" => ~ka.hVClockInstance
    BY <1>0, Running
  <1>2. CASE uiStatus = "establish"
    <2>1. ka' = KA_Reset(ka)  BY <1>2 DEF ses_ProtocolPktIn
    <2> QED  BY <1>0, <1>1, <1>2, <2>1, ResetIs, HeardKeeps
  <1>3. CASE uiStatus = "handshake" /\ StartsFirst
    <2>1. ka' = KA_Start(ka)  BY <1>3 DEF ses_ProtocolPktIn
    <2> QED  BY <1>0, <1>1, <2>1, StartIs, HeardKeeps
  <1>4. CASE uiStatus = "handshake" /\ ~StartsFirst
    <2>1. ka' = KA_Start(Dead)
      BY <1>1, <1>4, NotStarted DEF ses_ProtocolPktIn
    <2>2. ka' = Dead  BY <2>1 DEF KA_Start
    <2> QED  BY <2>2, DeadKeeps
  <1> QED  BY <1>0, <1>2, <1>3, <1>4

\* New options, in a session of any status.
LEMMA SetOptKeeps ==
  ASSUME KaInv, NEW opt \in Opts, SES_SetOpt(opt)
  PROVE  KaInv'
  <1> DEFINE k == [ka EXCEPT !.stSet = opt]
  <1>0. Up /\ Heard /\ uiStatus' = uiStatus /\ uiStatus # "free" /\ ka' = KA_Reset(k)
    BY DEF SES_SetOpt, Called
  <1>1. /\ ka \in KA_S /\ uiStatus \in {"handshake", "establish", "closed"}
        /\ uiStatus \in {"establish", "closed"} => ka.hVClockInstance
        /\ uiStatus = "handshake" => ~ka.hVClockInstance
    BY <1>0, Running
  <1>2. k \in KA_S /\ k.stSet = opt /\ k.hVClockInstance = ka.hVClockInstance
    BY <1>1, KaAssumption DEF KA_S
  <1> HIDE DEF k
  <1>3. CASE uiStatus \in {"establish", "closed"}
    <2>1. Fresh(ka') /\ ka'.stSet = opt  BY <1>0, <1>1, <1>2, <1>3, ResetIs
    <2> QED  BY <1>0, <1>3, <2>1, HeardKeeps
  <1>4. CASE uiStatus = "handshake"
    <2>1. ka' = Dead  BY <1>0, <1>1, <1>2, <1>4, NotStarted
    <2> QED  BY <2>1, DeadKeeps
  <1> QED  BY <1>1, <1>3, <1>4

\* A session is closed, or its node is freed.
LEMMA StopKeeps ==
  ASSUME KaInv, ses_Abort \/ SES_Close
  PROVE  KaInv'
  <1>0. /\ Up /\ uiStatus # "free" /\ uiStatus' \in {"closed", "free"}
        /\ ka' = KA_Stop(ka) /\ silent' = silent /\ hurried' = hurried
    BY DEF ses_Abort, SES_Close, Called
  <1>1. /\ ka \in KA_S /\ silent' \in 0..SilenceMax /\ hurried' \in BOOLEAN
        /\ uiStatus \in {"handshake", "establish", "closed"}
        /\ ka.stSet \in Opts \cup {DftOpt}
        /\ uiStatus \in {"establish", "closed"} => ka.hVClockInstance
        /\ uiStatus = "handshake" => ~ka.hVClockInstance
    BY <1>0, Running
  <1>2. CASE uiStatus \in {"establish", "closed"}
    <2>1. /\ ka' \in KA_S /\ ka'.left = Never /\ ka'.stSet = ka.stSet
          /\ ka'.usProbeCount = 0 /\ ka'.hVClockInstance
      BY <1>0, <1>1, <1>2, StopIs
    <2> QED  BY <1>0, <1>1, <2>1, IdleKeeps
  <1>3. CASE uiStatus = "handshake"
    <2>1. ka' = Dead  BY <1>0, <1>1, <1>3, NotStarted
    <2> QED  BY <2>1, DeadKeeps
  <1> QED  BY <1>1, <1>2, <1>3

\* A new node.
LEMMA NewIs ==
  /\ ses_InitKA \in KA_S /\ ses_InitKA.left = Never /\ ~ses_InitKA.hVClockInstance
  /\ ses_InitKA.stSet = DftOpt /\ ses_InitKA.usProbeCount = 0
  BY KaAssumption DEF ses_InitKA, KA_S

LEMMA Inductive == KaSpec => []KaInv
  <1>1. KaInit => KaInv
    <2> SUFFICES ASSUME KaInit  PROVE KaInv
      OBVIOUS
    <2>1. /\ ka \in KA_S /\ ka.left = Never /\ ~ka.hVClockInstance
          /\ ka.stSet = DftOpt /\ ka.usProbeCount = 0
      BY NewIs DEF KaInit
    <2>2. 0 \in 0..SilenceMax  BY KaAssumption
    <2>3. ka.usProbeCount <= ka.stSet.usMaxProbeCount  BY <2>1, KaIs
    <2>4. KaTypeOK  BY <2>1, <2>2, <2>3 DEF KaInit, KaTypeOK
    <2> QED  BY <2>1, <2>4 DEF KaInit, KaInv, Started, KaDue
  <1>2. KaInv /\ [KaNext]_kaVars => KaInv'
    <2> SUFFICES ASSUME KaInv, [KaNext]_kaVars  PROVE KaInv'
      OBVIOUS
    <2>1. CASE ses_ProtocolPktIn  BY <2>1, PacketKeeps
    <2>2. ASSUME NEW opt \in Opts, SES_SetOpt(opt)  PROVE KaInv'
      BY <2>2, SetOptKeeps
    <2>3. CASE KA_TrigerKeepAlive  BY <2>3, TriggerKeeps
    <2>4. CASE ses_Abort \/ SES_Close  BY <2>4, StopKeeps
    <2>5. CASE ses_NewSes
      <3>1. /\ ka' = ses_InitKA /\ uiStatus' = "handshake"
            /\ silent' = 0 /\ hurried' = FALSE
        BY <2>5 DEF ses_NewSes, Heard
      <3>2. 0 \in 0..SilenceMax  BY KaAssumption
      <3> QED  BY <3>1, <3>2, NewIs, IdleKeeps
    <2>6. CASE SES_TimerStep  BY <2>6, TickKeeps
    <2>7. CASE UNCHANGED kaVars
      BY <2>7 DEF kaVars, KaInv, KaTypeOK, Started, KaDue, Up
    <2> QED  BY <2>1, <2>2, <2>3, <2>4, <2>5, <2>6, <2>7 DEF KaNext
  <1> QED  BY <1>1, <1>2, PTL DEF KaSpec

-----------------------------------------------------------------------------
(* The theorems. *)

\* As long as the program runs every field keeps its type, no more probes are
\* counted than the options allow, and keep-alive runs in the established
\* sessions that have it on and in no handshake and no freed node, whatever
\* options are set and in whatever status.
THEOREM KaTypeCorrect == KaSpec => []KaTypeOK
  <1>1. KaInv => KaTypeOK  BY DEF KaInv
  <1> QED  BY <1>1, Inductive, PTL

\* No tick takes a peer for gone before its idle time and the interval after
\* every probe have passed in silence, whatever options are set and when.
THEOREM KaNotTooSoon == KaSpec => NotTooSoon
  <1>1. ASSUME KaInv, GivesUp, ~hurried
        PROVE  silent' >= Patience(ka.stSet)
    <2>1. SES_TimerStep /\ ka.left = 1 /\ Exhausted(ka)  BY <1>1 DEF GivesUp
    <2>2. ka.usProbeCount = ka.stSet.usMaxProbeCount
      <3>1. Up  BY <2>1 DEF SES_TimerStep
      <3>2. /\ ka.usProbeCount \in 0..ka.stSet.usMaxProbeCount
            /\ ka.stSet.usMaxProbeCount \in Nat
        BY <1>1, <3>1, Running, KaIs
      <3> QED  BY <2>1, <3>2 DEF Exhausted
    <2>3. ~(ka.left > 1)  BY <2>1
    <2> QED  BY <1>1, <2>1, <2>2, <2>3, TickIs DEF Patience
  <1>2. KaInv => [GivesUp /\ ~hurried => silent' >= Patience(ka.stSet)]_kaVars  BY <1>1
  <1> QED  BY <1>2, Inductive, PTL DEF NotTooSoon

=============================================================================
