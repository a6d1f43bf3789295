----------------------------- MODULE RingProofs -----------------------------
(***************************************************************************)
(* Proofs about the ring, for any threads, size and width of the indices.  *)
(*                                                                         *)
(* The argument is about the indices that do not wrap.  They are in order, *)
(*     ct <= ch <= pt <= ph <= ct + Size,                                  *)
(* the consumers' claims lie apart from each other in [ct, ch), the        *)
(* objects in the queue are the slots [ch, pt), and the producers' claims  *)
(* lie apart in [pt, ph).  All of that is within Size, less than IndexMod: *)
(* equal remainders then mean equal indices (ModTells) and equal slots     *)
(* (SlotTells), which is what the compare-and-swap, the wait for the turn  *)
(* and the copies rely on.  IInv says this, what a thread has counted on   *)
(* before its swap (ProdCounted, ConsCounted), that a single side has one  *)
(* claim (ProdAlone, ConsAlone), and which objects are where (Filled,      *)
(* Batches, Copied).                                                       *)
(***************************************************************************)
EXTENDS Ring, Wrap, SequenceTheorems

Threads == Producers \cup Consumers

Busy(t) == At(t, "copy") \/ At(t, "tail")

\* Where the slots a thread asks for or has claimed end.
End(t) == loc[t].from + loc[t].n

\* Types, and the indices as remainders of those that never wrap.
Wrapped ==
    /\ prodSingle \in BOOLEAN /\ consSingle \in BOOLEAN
    /\ ph \in Nat /\ pt \in Nat /\ ch \in Nat /\ ct \in Nat
    /\ prodHead = Mod(ph) /\ prodTail = Mod(pt)
    /\ consHead = Mod(ch) /\ consTail = Mod(ct)
    /\ sent \in [Producers -> Nat]
    /\ data \in [0..Size-1 -> Object \cup {Empty}]

LocType == [pc : PCs, max : 0..MaxBatch, fixed : BOOLEAN, old : Int, from : Nat,
            n : 0..MaxBatch, obj : Seq(Object)]

LocOK ==
    /\ loc \in [Threads -> LocType]
    /\ \A t \in Threads : loc[t].old = Mod(loc[t].from)

\* Consumers follow producers, and producers are not a ring ahead.
Ordered == ct <= ch /\ ch <= pt /\ pt <= ph /\ ph <= ct + Size

\* The claims of one side lie between its tail and its head, and apart.
ProdClaims ==
    /\ \A p \in Producers :
          Busy(p) => pt <= loc[p].from /\ End(p) <= ph /\ loc[p].n > 0
    /\ \A p, q \in Producers :
          p # q /\ Busy(p) /\ Busy(q) => End(p) <= loc[q].from \/ End(q) <= loc[p].from

ConsClaims ==
    /\ \A c \in Consumers :
          Busy(c) => ct <= loc[c].from /\ End(c) <= ch /\ loc[c].n > 0
    /\ \A c, d \in Consumers :
          c # d /\ Busy(c) /\ Busy(d) => End(c) <= loc[d].from \/ End(d) <= loc[c].from

\* What a thread counted on when it goes to the swap still holds, unless
\* another one has been there before it.
ProdCounted ==
    \A p \in Producers :
        /\ loc[p].pc \in {"room", "swap"} => loc[p].from <= ph
        /\ At(p, "swap") => /\ loc[p].n > 0 /\ loc[p].n <= loc[p].max
                            /\ loc[p].from = ph => End(p) <= ct + Size

ConsCounted ==
    \A c \in Consumers :
        /\ loc[c].pc \in {"room", "swap"} => loc[c].from <= ch
        /\ At(c, "swap") => /\ loc[c].n > 0
                            /\ loc[c].from = ch => End(c) <= pt

\* On a side that is single one thread is in a call, and its claim is all
\* there is between tail and head.
ProdAlone ==
    prodSingle =>
        /\ \A p, q \in Producers : ~At(p, "idle") /\ ~At(q, "idle") => p = q
        /\ \A p \in Producers :
              /\ loc[p].pc \in {"room", "swap"} => loc[p].from = ph
              /\ Busy(p) => loc[p].from = pt /\ End(p) = ph
        /\ (\A p \in Producers : ~Busy(p)) => pt = ph

ConsAlone ==
    consSingle =>
        /\ \A c, d \in Consumers : ~At(c, "idle") /\ ~At(d, "idle") => c = d
        /\ \A c \in Consumers :
              /\ loc[c].pc \in {"room", "swap"} => loc[c].from = ch
              /\ Busy(c) => loc[c].from = ct /\ End(c) = ch
        /\ (\A c \in Consumers : ~Busy(c)) => ct = ch

\* Every slot between the consumers' tail and the producers' has an object.
Filled == \A i \in ct..pt-1 : data[Slot(i)] \in Object

\* How many of its objects a producer has copied.
Done(p) == loc[p].n - Len(loc[p].obj)

\* What a producer is to enqueue is the next of its objects, and what it has
\* copied of them is in its slots.
BatchOK(p) ==
    /\ loc[p].pc \in {"head", "room", "swap"} =>
          /\ Len(loc[p].obj) = loc[p].max
          /\ \A j \in 1..loc[p].max : loc[p].obj[j] = <<p, sent[p] + j>>
    /\ At(p, "copy") => Len(loc[p].obj) > 0
    /\ At(p, "tail") => Len(loc[p].obj) = 0
    /\ Busy(p) =>
          /\ Len(loc[p].obj) <= loc[p].n
          /\ \A j \in 1..Len(loc[p].obj) : loc[p].obj[j] = <<p, sent[p] + Done(p) + j>>
          /\ \A i \in 0..Done(p)-1 :
                data[Slot(loc[p].from + i)] = <<p, sent[p] + i + 1>>

Batches == \A p \in Producers : BatchOK(p)

\* How far a consumer has come with its copying.
Copied ==
    \A c \in Consumers :
        /\ At(c, "copy") => Len(loc[c].obj) < loc[c].n
        /\ At(c, "tail") => Len(loc[c].obj) = loc[c].n
        /\ loc[c].pc \in {"head", "room", "swap"} => loc[c].obj = <<>>

\* The inductive invariant.
IInv ==
    /\ Wrapped
    /\ LocOK
    /\ Ordered
    /\ ProdClaims
    /\ ConsClaims
    /\ ProdCounted
    /\ ConsCounted
    /\ ProdAlone
    /\ ConsAlone
    /\ Filled
    /\ Batches
    /\ Copied

-----------------------------------------------------------------------------
(* Indices and slots. *)

\* An index that wraps, and what is added to it.
LEMMA ModFacts ==
  ASSUME NEW a \in Int, NEW k \in Int
  PROVE  /\ Mod(a) \in 0..IndexMod-1
         /\ Mod(Mod(a) + k) = Mod(a + k)
         /\ Slot(Mod(a) + k) = Slot(a + k)
         /\ Slot(a) \in 0..Size-1
  <1>1. /\ IndexMod \in Nat /\ IndexMod > 0 /\ Size \in Nat /\ Size > 0
        /\ IndexMod % Size = 0
    BY RingAssumption
  <1>2. Mod(a) \in 0..IndexMod-1 /\ Slot(a) \in 0..Size-1  BY <1>1, DivMod DEF Mod, Slot
  <1>3. Mod(Mod(a) + k) = Mod(a + k)  BY <1>1, ModAdd DEF Mod
  <1>4. Slot(Mod(a) + k) = Slot(a + k)  BY <1>1, ModMod DEF Mod, Slot
  <1> QED  BY <1>2, <1>3, <1>4

\* A wrapped index is a number.
LEMMA ModType ==
  ASSUME NEW a \in Int
  PROVE  Mod(a) \in Int /\ Mod(a) \in 0..IndexMod-1 /\ Slot(a) \in 0..Size-1
  <1>1. Mod(a) \in 0..IndexMod-1 /\ Slot(a) \in 0..Size-1  BY ModFacts
  <1> QED  BY <1>1, RingAssumption

\* Indices less than a round apart are told apart by their remainders.
LEMMA ModTells ==
  ASSUME NEW a \in Int, NEW b \in Int, a - b < IndexMod, b - a < IndexMod,
         Mod(a) = Mod(b)
  PROVE  a = b
  BY RingAssumption, ModInjective DEF Mod

\* Indices less than a ring apart have slots of their own.
LEMMA SlotTells ==
  ASSUME NEW a \in Int, NEW b \in Int, a - b < Size, b - a < Size, Slot(a) = Slot(b)
  PROVE  a = b
  BY RingAssumption, ModInjective DEF Slot

\* The room a producer and the objects a consumer counts.
LEMMA Distance ==
  ASSUME NEW a \in Int, NEW b \in Int
  PROVE  /\ Size + a - b \in 0..IndexMod-1 => Mod(Size + Mod(a) - Mod(b)) = Size + a - b
         /\ a - b \in 0..IndexMod-1 => Mod(Mod(a) - Mod(b)) = a - b
  <1>1. IndexMod \in Nat /\ IndexMod > 0 /\ Size \in Int  BY RingAssumption
  <1>2. ASSUME Size + a - b \in 0..IndexMod-1
        PROVE  Mod(Size + Mod(a) - Mod(b)) = Size + a - b
    BY <1>1, <1>2, ModDiff DEF Mod
  <1>3. ASSUME a - b \in 0..IndexMod-1
        PROVE  Mod(Mod(a) - Mod(b)) = a - b
    <2>1. PICK k \in Int : k = 0  OBVIOUS
    <2>2. k + a - b \in 0..IndexMod-1  BY <1>3, <2>1
    <2>3. Mod(k + Mod(a) - Mod(b)) = k + a - b  BY <1>1, <2>2, ModDiff DEF Mod
    <2>4. Mod(a) \in Int /\ Mod(b) \in Int  BY ModFacts
    <2> QED  BY <2>1, <2>3, <2>4
  <1> QED  BY <1>2, <1>3

\* What a call is granted, and no more than it asks for.
LEMMA GrantedFacts ==
  ASSUME LocOK, NEW t \in Threads, NEW room \in Int, room >= 0
  PROVE  /\ Granted(t, room) \in 0..MaxBatch
         /\ Granted(t, room) <= loc[t].max
         /\ Granted(t, room) <= room
  <1>1. loc[t].max \in 0..MaxBatch  BY DEF LocOK, LocType
  <1>2. CASE loc[t].max <= room  BY <1>1, <1>2, RingAssumption DEF Granted
  <1>3. CASE ~(loc[t].max <= room) /\ loc[t].fixed
    BY <1>1, <1>3, RingAssumption DEF Granted
  <1>4. CASE ~(loc[t].max <= room) /\ ~loc[t].fixed
    BY <1>1, <1>4, RingAssumption DEF Granted
  <1> QED  BY <1>2, <1>3, <1>4

\* A thread outside of any call.
LEMMA IdleType == Idle \in LocType /\ Idle.old = Mod(Idle.from)
  <1>1. Mod(0) = 0  BY RingAssumption, ModSmall DEF Mod
  <1> QED  BY <1>1, RingAssumption, EmptySeq DEF Idle, LocType, PCs

-----------------------------------------------------------------------------
\* An idle ring satisfies the invariant, wherever its indices stand.
LEMMA InitIInv == Init => IInv
  <1> SUFFICES ASSUME Init  PROVE IInv
    OBVIOUS
  <1>1. PICK s \in Starts : /\ prodHead = s /\ prodTail = s
                            /\ consHead = s /\ consTail = s
                            /\ ph = s /\ pt = s /\ ch = s /\ ct = s
    BY DEF Init
  <1>2. s \in Nat /\ s \in 0..IndexMod-1  BY RingAssumption
  <1>3. Mod(s) = s /\ Mod(0) = 0  BY <1>2, RingAssumption, ModSmall DEF Mod
  <1>4. Wrapped  BY <1>1, <1>2, <1>3 DEF Init, Wrapped
  <1>5. \A t \in Threads : loc[t] = Idle  BY DEF Init, Threads
  <1>6. Idle \in LocType  BY IdleType
  <1>7. LocOK
    BY <1>3, <1>5, <1>6 DEF Init, LocOK, Threads, Idle
  <1>8. Ordered  BY <1>1, <1>2, RingAssumption DEF Ordered
  <1>9. \A t \in Threads : ~Busy(t) /\ At(t, "idle")
    BY <1>5 DEF Busy, At, Idle
  <1>10. ProdClaims /\ ConsClaims  BY <1>9 DEF ProdClaims, ConsClaims, Threads
  <1>11. ProdCounted /\ ConsCounted
    BY <1>5, <1>9 DEF ProdCounted, ConsCounted, Threads, At, Idle
  <1>12. ProdAlone /\ ConsAlone
    BY <1>1, <1>5, <1>9 DEF ProdAlone, ConsAlone, Threads, At, Idle
  <1>13. Filled  BY <1>1, <1>2 DEF Filled
  <1>14. Batches /\ Copied
    BY <1>5, <1>9 DEF Batches, BatchOK, Copied, Threads, At, Idle
  <1> QED  BY <1>4, <1>7, <1>8, <1>10, <1>11, <1>12, <1>13, <1>14 DEF IInv

\* A step of a thread changes its own locals.
LEMMA LocStep ==
  ASSUME LocOK, NEW t \in Threads, NEW r \in LocType, r.old = Mod(r.from),
         loc' = [loc EXCEPT ![t] = r]
  PROVE  /\ LocOK'
         /\ loc'[t] = r
         /\ \A u \in Threads : u # t => loc'[u] = loc[u]
  BY DEF LocOK

\* A producer's step outside of the copying, if it counted right.
LEMMA ProdQuiet ==
  ASSUME IInv, NEW p \in Producers, NEW r \in LocType, r.old = Mod(r.from),
         loc' = [loc EXCEPT ![p] = r],
         UNCHANGED <<single, index, unwrapped, data, sent>>,
         ~Busy(p), r.pc \notin {"copy", "tail"},
         r.pc \in {"room", "swap"} => r.from <= ph,
         r.pc = "swap" => /\ r.n > 0 /\ r.n <= r.max
                          /\ r.from = ph => r.from + r.n <= ct + Size,
         prodSingle =>
            /\ r.pc \in {"room", "swap"} => r.from = ph
            /\ r.pc # "idle" => \A q \in Producers : q # p => At(q, "idle"),
         r.pc \in {"head", "room", "swap"} =>
            /\ Len(r.obj) = r.max
            /\ \A j \in 1..r.max : r.obj[j] = <<p, sent[p] + j>>
  PROVE  IInv'
  <1>0. /\ single' = single /\ prodSingle' = prodSingle /\ consSingle' = consSingle
        /\ index' = index /\ prodHead' = prodHead /\ prodTail' = prodTail
        /\ consHead' = consHead /\ consTail' = consTail
        /\ ph' = ph /\ pt' = pt /\ ch' = ch /\ ct' = ct /\ data' = data /\ sent' = sent
    BY DEF single, index, unwrapped
  <1>1. p \in Threads /\ p \notin Consumers /\ Producers \subseteq Threads /\ Consumers \subseteq Threads
    BY RingAssumption DEF Threads
  <1>2. /\ LocOK' /\ loc'[p] = r
        /\ \A u \in Threads : u # p => loc'[u] = loc[u]
    BY <1>1, LocStep DEF IInv
  <1>3. \A c \in Consumers : loc'[c] = loc[c]  BY <1>1, <1>2
  <1>4. \A q \in Producers : q # p => loc'[q] = loc[q]  BY <1>1, <1>2
  <1>5. Wrapped' /\ Ordered' /\ Filled'
    BY <1>0 DEF IInv, Wrapped, Ordered, Filled
  <1>6. ConsClaims' /\ ConsCounted' /\ ConsAlone' /\ Copied'
    BY <1>0, <1>3 DEF IInv, ConsClaims, ConsCounted, ConsAlone, Copied, Busy, At, End
  <1>7. ~Busy(p)'  BY <1>2 DEF Busy, At
  <1>8. ProdClaims'
    BY <1>0, <1>4, <1>7 DEF IInv, ProdClaims, Busy, At, End
  <1>9. ProdCounted'
    BY <1>0, <1>2, <1>4 DEF IInv, ProdCounted, At, End
  <1>10. ProdAlone'
    BY <1>0, <1>2, <1>4, <1>7 DEF IInv, ProdAlone, Busy, At, End
  <1>11. Batches'
    <2>1. BatchOK(p)'  BY <1>0, <1>2, <1>7 DEF BatchOK, Busy, At
    <2>2. ASSUME NEW q \in Producers, q # p  PROVE BatchOK(q)'
      <3>1. BatchOK(q)  BY DEF IInv, Batches
      <3> QED  BY <3>1, <2>2, <1>0, <1>4 DEF BatchOK, Busy, At, Done
    <2> QED  BY <2>1, <2>2 DEF Batches
  <1> QED  BY <1>2, <1>5, <1>6, <1>8, <1>9, <1>10, <1>11 DEF IInv

\* The same of a consumer.
LEMMA ConsQuiet ==
  ASSUME IInv, NEW c \in Consumers, NEW r \in LocType, r.old = Mod(r.from),
         loc' = [loc EXCEPT ![c] = r],
         UNCHANGED <<single, index, unwrapped, data, sent>>,
         ~Busy(c), r.pc \notin {"copy", "tail"},
         r.pc \in {"room", "swap"} => r.from <= ch,
         r.pc = "swap" => r.n > 0 /\ (r.from = ch => r.from + r.n <= pt),
         consSingle =>
            /\ r.pc \in {"room", "swap"} => r.from = ch
            /\ r.pc # "idle" => \A d \in Consumers : d # c => At(d, "idle"),
         r.pc \in {"head", "room", "swap"} => r.obj = <<>>
  PROVE  IInv'
  <1>0. /\ single' = single /\ prodSingle' = prodSingle /\ consSingle' = consSingle
        /\ index' = index /\ prodHead' = prodHead /\ prodTail' = prodTail
        /\ consHead' = consHead /\ consTail' = consTail
        /\ ph' = ph /\ pt' = pt /\ ch' = ch /\ ct' = ct /\ data' = data /\ sent' = sent
    BY DEF single, index, unwrapped
  <1>1. c \in Threads /\ c \notin Producers /\ Producers \subseteq Threads /\ Consumers \subseteq Threads
    BY RingAssumption DEF Threads
  <1>2. /\ LocOK' /\ loc'[c] = r
        /\ \A u \in Threads : u # c => loc'[u] = loc[u]
    BY <1>1, LocStep DEF IInv
  <1>3. \A p \in Producers : loc'[p] = loc[p]  BY <1>1, <1>2
  <1>4. \A d \in Consumers : d # c => loc'[d] = loc[d]  BY <1>1, <1>2
  <1>5. Wrapped' /\ Ordered' /\ Filled'
    BY <1>0 DEF IInv, Wrapped, Ordered, Filled
  <1>6. ProdClaims' /\ ProdCounted' /\ ProdAlone'
    BY <1>0, <1>3 DEF IInv, ProdClaims, ProdCounted, ProdAlone, Busy, At, End
  <1>12. ASSUME NEW p \in Producers  PROVE BatchOK(p)'
    <2>1. BatchOK(p)  BY DEF IInv, Batches
    <2> QED  BY <2>1, <1>0, <1>3 DEF BatchOK, Busy, At, Done
  <1>7. ~Busy(c)'  BY <1>2 DEF Busy, At
  <1>8. ConsClaims'
    BY <1>0, <1>4, <1>7 DEF IInv, ConsClaims, Busy, At, End
  <1>9. ConsCounted'
    BY <1>0, <1>2, <1>4 DEF IInv, ConsCounted, At, End
  <1>10. ConsAlone'
    BY <1>0, <1>2, <1>4, <1>7 DEF IInv, ConsAlone, Busy, At, End
  <1>11. Copied'
    BY <1>0, <1>2, <1>4, <1>7 DEF IInv, Copied, Busy, At
  <1>13. Batches'  BY <1>12 DEF Batches
  <1> QED  BY <1>2, <1>5, <1>6, <1>8, <1>9, <1>10, <1>11, <1>13 DEF IInv

\* A function on 1..n is a sequence of length n.
LEMMA SeqOf ==
  ASSUME NEW S, NEW n \in Nat, NEW s \in [1..n -> S]
  PROVE  s \in Seq(S) /\ Len(s) = n
  <1>1. s \in Seq(S)  BY SeqDef
  <1>2. DOMAIN s = 1..n /\ DOMAIN s = 1..Len(s) /\ Len(s) \in Nat  BY <1>1, LenProperties
  <1> QED  BY <1>1, <1>2

\* RING_DoEnqueue begins with the caller's next objects.
LEMMA EnqueueKeeps ==
  ASSUME IInv, NEW p \in Producers, NEW n \in 1..MaxBatch, NEW fixed \in BOOLEAN,
         RING_DoEnqueue(p, n, fixed)
  PROVE  IInv'
  <1> DEFINE s == [i \in 1..n |-> <<p, sent[p] + i>>]
             r == [Idle EXCEPT !.pc = "head", !.max = n, !.fixed = fixed, !.obj = s]
  <1>1. sent[p] \in Nat /\ n \in Nat  BY RingAssumption DEF IInv, Wrapped
  <1>2. s \in [1..n -> Object]  BY <1>1 DEF Object
  <1>3. s \in Seq(Object) /\ Len(s) = n  BY <1>1, <1>2, SeqOf
  <1>4. \A j \in 1..n : s[j] = <<p, sent[p] + j>>  OBVIOUS
  <1> HIDE DEF s
  <1>5. r \in LocType /\ r.old = Mod(r.from)
    <2>1. n \in 0..MaxBatch /\ "head" \in PCs  BY RingAssumption DEF PCs
    <2>2. Idle \in LocType /\ Idle.old = Mod(Idle.from)  BY IdleType
    <2> QED  BY <2>1, <2>2, <1>3 DEF LocType
  <1>6. r.pc = "head" /\ r.max = n /\ r.obj = s  BY DEF Idle
  <1>7. loc' = [loc EXCEPT ![p] = r]  BY DEF RING_DoEnqueue, s
  <1>8. ~Busy(p)  BY DEF RING_DoEnqueue, At, Busy
  <1>9. prodSingle => \A q \in Producers : At(q, "idle")  BY DEF RING_DoEnqueue
  <1>10. UNCHANGED <<single, index, unwrapped, data, sent>>  BY DEF RING_DoEnqueue
  <1> HIDE DEF r
  <1> QED  BY <1>3, <1>4, <1>5, <1>6, <1>7, <1>8, <1>9, <1>10, ProdQuiet

\* Outside of the copying, a producer alone on its side is the only one in a
\* call.
LEMMA ProdOthersIdle ==
  ASSUME IInv, NEW p \in Producers, prodSingle, ~At(p, "idle")
  PROVE  \A q \in Producers : q # p => At(q, "idle")
  BY DEF IInv, ProdAlone

\* LoadProdHead takes the head as it is.
LEMMA LoadProdHeadKeeps ==
  ASSUME IInv, NEW p \in Producers, LoadProdHead(p)
  PROVE  IInv'
  <1> DEFINE r == [loc[p] EXCEPT !.pc = "room", !.old = prodHead, !.from = ph]
  <1>1. loc[p] \in LocType /\ p \in Threads  BY DEF IInv, LocOK, Threads
  <1>2. ph \in Nat /\ prodHead = Mod(ph) /\ prodHead \in Int
    BY ModFacts DEF IInv, Wrapped
  <1>3. r \in LocType /\ r.old = Mod(r.from)  BY <1>1, <1>2 DEF LocType, PCs
  <1>4. r.pc = "room" /\ r.from = ph /\ r.obj = loc[p].obj /\ r.max = loc[p].max
    BY <1>1 DEF LocType
  <1>5. loc' = [loc EXCEPT ![p] = r]  BY <1>1 DEF LoadProdHead, IInv, LocOK
  <1>6. ~Busy(p) /\ At(p, "head") /\ ~At(p, "idle")  BY DEF LoadProdHead, At, Busy
  <1>7. UNCHANGED <<single, index, unwrapped, data, sent>>  BY DEF LoadProdHead
  <1>8. /\ Len(r.obj) = r.max
        /\ \A j \in 1..r.max : r.obj[j] = <<p, sent[p] + j>>
    BY <1>4, <1>6 DEF IInv, Batches, BatchOK, At
  <1>9. prodSingle => \A q \in Producers : q # p => At(q, "idle")
    BY <1>6, ProdOthersIdle
  <1>10. r.from <= ph  BY <1>2, <1>4
  <1> HIDE DEF r
  <1> QED  BY <1>3, <1>4, <1>5, <1>6, <1>7, <1>8, <1>9, <1>10, ProdQuiet

\* A producer that still has the latest head counts the free slots there are.
LEMMA LoadConsTailKeeps ==
  ASSUME IInv, NEW p \in Producers, LoadConsTail(p)
  PROVE  IInv'
  <1> DEFINE g == Granted(p, FreeEntries(p))
             r == IF g = 0 THEN Idle ELSE [loc[p] EXCEPT !.pc = "swap", !.n = g]
  <1>1. loc[p] \in LocType /\ p \in Threads /\ loc[p].old = Mod(loc[p].from)
    BY DEF IInv, LocOK, Threads
  <1>2. ct \in Nat /\ consTail = Mod(ct) /\ loc[p].from \in Nat /\ ph \in Nat /\ Size \in Nat
    BY <1>1, RingAssumption DEF IInv, Wrapped, LocType
  <1>3. At(p, "room") /\ ~Busy(p) /\ ~At(p, "idle")  BY DEF LoadConsTail, At, Busy
  <1>4. FreeEntries(p) \in 0..IndexMod-1
    <2>1. Mod(ct) \in Int /\ Mod(loc[p].from) \in Int  BY <1>2, ModType
    <2>2. Size + consTail - loc[p].old \in Int  BY <1>1, <1>2, <2>1
    <2> QED  BY <2>2, ModFacts DEF FreeEntries
  <1>5. g \in 0..MaxBatch /\ g <= loc[p].max /\ g <= FreeEntries(p)
    BY <1>1, <1>4, GrantedFacts, RingAssumption DEF IInv
  <1>6. ASSUME loc[p].from = ph  PROVE FreeEntries(p) = Size + ct - loc[p].from
    <2>1. pt \in Nat /\ ch \in Nat /\ ct <= ch /\ ch <= pt /\ pt <= ph /\ ph <= ct + Size
      BY DEF IInv, Wrapped, Ordered
    <2>2. Size + ct - loc[p].from \in 0..IndexMod-1
      BY <1>2, <1>6, <2>1, RingAssumption
    <2>3. Mod(Size + Mod(ct) - Mod(loc[p].from)) = Size + ct - loc[p].from
      BY <1>2, <2>2, Distance
    <2> QED  BY <1>1, <1>2, <2>3 DEF FreeEntries
  <1>7. loc' = [loc EXCEPT ![p] = r]  BY DEF LoadConsTail, Decide
  <1>8. UNCHANGED <<single, index, unwrapped, data, sent>>  BY DEF LoadConsTail
  <1>9. prodSingle => \A q \in Producers : q # p => At(q, "idle")
    BY <1>3, ProdOthersIdle
  <1>10. loc[p].from <= ph /\ (prodSingle => loc[p].from = ph)
    BY <1>3 DEF IInv, ProdCounted, ProdAlone, At
  <1>11. Len(loc[p].obj) = loc[p].max /\ \A j \in 1..loc[p].max : loc[p].obj[j] = <<p, sent[p] + j>>
    BY <1>3 DEF IInv, Batches, BatchOK, At
  <1> HIDE DEF g
  <1>12. CASE g = 0
    <2>1. r = Idle /\ r.pc = "idle"  BY <1>12 DEF Idle
    <2> HIDE DEF r
    <2>2. r \in LocType /\ r.old = Mod(r.from)  BY <2>1, IdleType
    <2> QED  BY <2>1, <2>2, <1>3, <1>7, <1>8, ProdQuiet
  <1>13. CASE g # 0
    <2>1. r = [loc[p] EXCEPT !.pc = "swap", !.n = g]  BY <1>13
    <2>2. /\ r.pc = "swap" /\ r.n = g /\ r.max = loc[p].max /\ r.obj = loc[p].obj
          /\ r.from = loc[p].from /\ r.old = loc[p].old
      BY <2>1, <1>1 DEF LocType
    <2>3. r \in LocType  BY <2>1, <1>1, <1>5 DEF LocType, PCs
    <2>4. r.n > 0 /\ r.n <= r.max /\ (r.from = ph => r.from + r.n <= ct + Size)
      BY <1>2, <1>5, <1>6, <1>13, <2>2
    <2> HIDE DEF r
    <2> QED  BY <1>1, <1>3, <1>7, <1>8, <1>9, <1>10, <1>11, <2>2, <2>3, <2>4, ProdQuiet
  <1> QED  BY <1>12, <1>13

\* A swap that fails changes nothing but the thread's place.
LEMMA SwapProdFails ==
  ASSUME IInv, NEW p \in Producers, SwapProdHead(p), ~(prodSingle \/ prodHead = loc[p].old)
  PROVE  IInv'
  <1> DEFINE r == [loc[p] EXCEPT !.pc = "head"]
  <1>1. loc[p] \in LocType /\ p \in Threads /\ loc[p].old = Mod(loc[p].from)
    BY DEF IInv, LocOK, Threads
  <1>2. r \in LocType  BY <1>1 DEF LocType, PCs
  <1>3. /\ r.pc = "head" /\ r.obj = loc[p].obj /\ r.max = loc[p].max
        /\ r.old = loc[p].old /\ r.from = loc[p].from
    BY <1>1 DEF LocType
  <1>4. loc' = [loc EXCEPT ![p] = r]  BY <1>1 DEF SwapProdHead, IInv, LocOK
  <1>5. ~Busy(p) /\ At(p, "swap") /\ ~prodSingle  BY DEF SwapProdHead, At, Busy
  <1>6. UNCHANGED <<single, index, unwrapped, data, sent>>
    BY DEF SwapProdHead, index, unwrapped
  <1>7. /\ Len(r.obj) = r.max
        /\ \A j \in 1..r.max : r.obj[j] = <<p, sent[p] + j>>
    BY <1>3, <1>5 DEF IInv, Batches, BatchOK, At
  <1> HIDE DEF r
  <1> QED  BY <1>1, <1>2, <1>3, <1>4, <1>5, <1>6, <1>7, ProdQuiet

\* A swap that succeeds does so with the head the room was counted from.
LEMMA SwapProdAtHead ==
  ASSUME IInv, NEW p \in Producers, SwapProdHead(p), prodSingle \/ prodHead = loc[p].old
  PROVE  loc[p].from = ph
  <1>1. At(p, "swap") /\ Fresh(p, ph)  BY DEF SwapProdHead
  <1>2. CASE prodSingle  BY <1>1, <1>2 DEF IInv, ProdAlone, At
  <1>3. CASE prodHead = loc[p].old
    <2>1. loc[p].from \in Nat /\ ph \in Nat /\ Mod(ph) = Mod(loc[p].from)
      BY <1>3 DEF IInv, LocOK, LocType, Wrapped, Threads
    <2>2. loc[p].from <= ph /\ ph - loc[p].from < IndexMod
      BY <1>1 DEF IInv, ProdCounted, Fresh, At
    <2>3. loc[p].from - ph < IndexMod  BY <2>1, <2>2, RingAssumption
    <2> QED  BY <2>1, <2>2, <2>3, ModTells
  <1> QED  BY <1>2, <1>3

\* A claim: the slots from the head on, which it moves.
LEMMA SwapProdClaims ==
  ASSUME IInv, NEW p \in Producers, SwapProdHead(p), prodSingle \/ prodHead = loc[p].old
  PROVE  IInv'
  <1> DEFINE s == SubSeq(loc[p].obj, 1, loc[p].n)
             r == [loc[p] EXCEPT !.pc = "copy", !.max = loc[p].n, !.fixed = TRUE, !.obj = s]
  <1>1. /\ loc[p] \in LocType /\ p \in Threads /\ loc[p].old = Mod(loc[p].from)
        /\ p \notin Consumers /\ Producers \subseteq Threads /\ Consumers \subseteq Threads
    BY RingAssumption DEF IInv, LocOK, Threads
  <1>2. loc[p].from = ph  BY SwapProdAtHead
  <1>3. /\ ph \in Nat /\ pt \in Nat /\ ch \in Nat /\ ct \in Nat
        /\ loc[p].n \in Nat /\ loc[p].max \in Nat /\ loc[p].obj \in Seq(Object)
        /\ sent[p] \in Nat /\ Size \in Nat
    BY <1>1, RingAssumption DEF IInv, Wrapped, LocType
  <1>4. At(p, "swap") /\ ~Busy(p) /\ ~At(p, "idle")  BY DEF SwapProdHead, At, Busy
  <1>5. loc[p].n > 0 /\ loc[p].n <= loc[p].max /\ ph + loc[p].n <= ct + Size
    BY <1>2, <1>4 DEF IInv, ProdCounted, End
  <1>6. /\ Len(loc[p].obj) = loc[p].max
        /\ \A j \in 1..loc[p].max : loc[p].obj[j] = <<p, sent[p] + j>>
    BY <1>4 DEF IInv, Batches, BatchOK, At
  <1>7. /\ s \in Seq(Object) /\ Len(s) = loc[p].n
        /\ \A j \in 1..loc[p].n : s[j] = <<p, sent[p] + j>>
    <2>1. \A j \in 1..loc[p].n : loc[p].obj[j] = <<p, sent[p] + j>>
      BY <1>3, <1>5, <1>6
    <2>2. /\ s \in Seq(Object) /\ Len(s) = loc[p].n
          /\ \A j \in 1..loc[p].n : s[j] = loc[p].obj[j]
      BY <1>3, <1>5, <1>6, SubSeqProperties
    <2> QED  BY <2>1, <2>2
  <1>8. loc' = [loc EXCEPT ![p] = r]  BY DEF SwapProdHead, Claim
  <1>9. /\ prodSingle' = prodSingle /\ consSingle' = consSingle
        /\ prodHead' = Mod(loc[p].old + loc[p].n) /\ prodTail' = prodTail
        /\ consHead' = consHead /\ consTail' = consTail
        /\ ph' = ph + loc[p].n /\ pt' = pt /\ ch' = ch /\ ct' = ct
        /\ data' = data /\ sent' = sent
    BY <1>2 DEF SwapProdHead, single
  <1> HIDE DEF s
  <1>10. r \in LocType  BY <1>1, <1>7 DEF LocType, PCs
  <1>11. /\ r.pc = "copy" /\ r.n = loc[p].n /\ r.obj = s
         /\ r.old = loc[p].old /\ r.from = loc[p].from
    BY <1>1 DEF LocType
  <1> HIDE DEF r
  <1>12. /\ LocOK' /\ loc'[p] = r
         /\ \A u \in Threads : u # p => loc'[u] = loc[u]
    BY <1>1, <1>8, <1>10, <1>11, LocStep DEF IInv
  <1>13. \A c \in Consumers : loc'[c] = loc[c]  BY <1>1, <1>12
  <1>14. \A q \in Producers : q # p => loc'[q] = loc[q]  BY <1>1, <1>12
  <1>15. Wrapped'
    <2>3. Mod(Mod(ph) + loc[p].n) = Mod(ph + loc[p].n)
      <3>1. ph \in Int /\ loc[p].n \in Int  BY <1>3
      <3> QED  BY <3>1, ModFacts
    <2>1. prodHead' = Mod(ph')  BY <1>1, <1>2, <1>9, <2>3
    <2>2. ph' \in Nat  BY <1>3, <1>9
    <2> QED  BY <1>9, <2>1, <2>2 DEF IInv, Wrapped
  <1>16. Ordered' /\ Filled'
    BY <1>3, <1>5, <1>9 DEF IInv, Ordered, Filled
  <1>17. ConsClaims' /\ ConsCounted' /\ ConsAlone' /\ Copied'
    BY <1>9, <1>13 DEF IInv, ConsClaims, ConsCounted, ConsAlone, Copied, Busy, At, End
  <1>18. /\ Busy(p)' /\ ~At(p, "idle")' /\ loc'[p].from = ph /\ End(p)' = ph'
         /\ loc'[p].n = loc[p].n /\ loc'[p].pc = "copy"
    BY <1>2, <1>9, <1>11, <1>12 DEF Busy, At, End
  <1>19. \A q \in Producers : loc[q].from \in Nat /\ loc[q].n \in Nat /\ End(q) \in Nat
    BY RingAssumption DEF IInv, LocOK, LocType, Threads, End
  <1>20. ProdClaims'
    <2>1. \A q \in Producers : Busy(q)' => q = p \/ Busy(q)
      BY <1>14 DEF Busy, At
    <2>2. \A q \in Producers : q # p => End(q)' = End(q) /\ loc'[q].from = loc[q].from
      BY <1>14 DEF End
    <2>3. ASSUME NEW q \in Producers, Busy(q)'
          PROVE  pt <= loc'[q].from /\ End(q)' <= ph' /\ loc'[q].n > 0
      <3>1. CASE q = p
        BY <3>1, <1>3, <1>5, <1>9, <1>18 DEF IInv, Ordered
      <3>2. CASE q # p
        <4>1. pt <= loc[q].from /\ End(q) <= ph /\ loc[q].n > 0
          BY <2>1, <2>3, <3>2 DEF IInv, ProdClaims
        <4> QED  BY <4>1, <3>2, <2>2, <1>3, <1>9, <1>14, <1>19
      <3> QED  BY <3>1, <3>2
    <2>4. ASSUME NEW q \in Producers, NEW o \in Producers, q # o, Busy(q)', Busy(o)'
          PROVE  End(q)' <= loc'[o].from \/ End(o)' <= loc'[q].from
      <3>1. CASE q # p /\ o # p
        BY <3>1, <2>1, <2>2, <2>4 DEF IInv, ProdClaims
      <3>2. CASE q = p
        <4>1. Busy(o) /\ End(o) <= ph  BY <2>1, <2>4, <3>2 DEF IInv, ProdClaims
        <4> QED  BY <4>1, <3>2, <2>2, <2>4, <1>18
      <3>3. CASE o = p
        <4>1. Busy(q) /\ End(q) <= ph  BY <2>1, <2>4, <3>3 DEF IInv, ProdClaims
        <4> QED  BY <4>1, <3>3, <2>2, <2>4, <1>18
      <3> QED  BY <3>1, <3>2, <3>3
    <2> QED  BY <2>3, <2>4, <1>9 DEF ProdClaims
  <1>21. ProdCounted'
    <2>1. ASSUME NEW q \in Producers, q # p, loc'[q].pc \in {"room", "swap"}
          PROVE  loc'[q].from < ph'
      <3>1. loc'[q] = loc[q]  BY <2>1, <1>14
      <3>2. loc[q].from <= ph /\ loc[q].from \in Nat  BY <2>1, <3>1, <1>19 DEF IInv, ProdCounted
      <3> QED  BY <3>1, <3>2, <1>3, <1>5, <1>9
    <2>2. ASSUME NEW q \in Producers, q # p, At(q, "swap")'
          PROVE  loc'[q].n > 0 /\ loc'[q].n <= loc'[q].max
      BY <2>2, <1>14 DEF IInv, ProdCounted, At
    <2> QED
      BY <2>1, <2>2, <1>3, <1>9, <1>14, <1>18, <1>19 DEF ProdCounted, At
  <1>22. ProdAlone'
    <2>1. SUFFICES ASSUME prodSingle  PROVE ProdAlone'
      BY <1>9 DEF ProdAlone
    <2>2. \A q \in Producers : q # p => At(q, "idle") /\ ~Busy(q)
      BY <2>1, <1>4, ProdOthersIdle DEF At, Busy
    <2>3. pt = ph  BY <2>1, <2>2, <1>4 DEF IInv, ProdAlone
    <2>4. \A q \in Producers : q # p => loc'[q].pc = "idle" /\ ~Busy(q)'
      BY <2>2, <1>14 DEF At, Busy
    <2> QED  BY <2>3, <2>4, <1>9, <1>18 DEF ProdAlone, At
  <1>23. Batches'
    <2>1. BatchOK(p)'
      <3>1. Len(loc[p].obj)' = loc[p].n /\ Done(p)' = 0
        BY <1>3, <1>7, <1>11, <1>12 DEF Done
      <3>2. \A j \in 1..loc[p].n : loc'[p].obj[j] = <<p, sent[p] + j>>
        BY <1>7, <1>11, <1>12
      <3>3. \A j \in 1..Len(loc[p].obj)' : loc'[p].obj[j] = <<p, sent[p] + 0 + j>>
        BY <3>1, <3>2, <1>3
      <3> QED  BY <3>1, <3>3, <1>3, <1>5, <1>9, <1>18 DEF BatchOK, At, Busy
    <2>2. ASSUME NEW q \in Producers, q # p  PROVE BatchOK(q)'
      <3>1. BatchOK(q)  BY DEF IInv, Batches
      <3> QED  BY <3>1, <2>2, <1>9, <1>14 DEF BatchOK, Busy, At, Done
    <2> QED  BY <2>1, <2>2 DEF Batches
  <1> QED
    BY <1>12, <1>15, <1>16, <1>17, <1>20, <1>21, <1>22, <1>23 DEF IInv

\* CopyIn writes a slot of the producer's own claim, the next one.
LEMMA CopyInKeeps ==
  ASSUME IInv, NEW p \in Producers, CopyIn(p)
  PROVE  IInv'
  <1> DEFINE s == loc[p].obj
             pc == IF Tail(s) = <<>> THEN "tail" ELSE "copy"
             r == [loc[p] EXCEPT !.obj = Tail(s), !.pc = pc]
  <1>1. /\ loc[p] \in LocType /\ p \in Threads /\ loc[p].old = Mod(loc[p].from)
        /\ p \notin Consumers /\ Producers \subseteq Threads /\ Consumers \subseteq Threads
    BY RingAssumption DEF IInv, LocOK, Threads
  <1>2. /\ ph \in Nat /\ pt \in Nat /\ ch \in Nat /\ ct \in Nat /\ sent[p] \in Nat
        /\ loc[p].n \in Nat /\ loc[p].from \in Nat /\ s \in Seq(Object) /\ Size \in Nat
        /\ data \in [0..Size-1 -> Object \cup {Empty}]
    BY <1>1, RingAssumption DEF IInv, Wrapped, LocType
  <1>30. /\ ph \in Int /\ pt \in Int /\ ch \in Int /\ ct \in Int
         /\ loc[p].n \in Int /\ loc[p].from \in Int
    BY <1>2
  <1>3. At(p, "copy") /\ Busy(p)  BY DEF CopyIn, At, Busy
  <1>4. /\ Len(s) > 0 /\ Len(s) <= loc[p].n
        /\ \A j \in 1..Len(s) : s[j] = <<p, sent[p] + Done(p) + j>>
        /\ \A i \in 0..Done(p)-1 : data[Slot(loc[p].from + i)] = <<p, sent[p] + i + 1>>
    BY <1>3 DEF IInv, Batches, BatchOK
  <1>5. /\ Head(s) = s[1] /\ Tail(s) \in Seq(Object) /\ Len(Tail(s)) = Len(s) - 1
        /\ \A j \in 1..Len(s)-1 : Tail(s)[j] = s[j+1]
        /\ Tail(s) = <<>> <=> Len(s) = 1
        /\ Len(s) \in Nat
    <2>1. Len(s) \in Nat  BY <1>2, LenProperties
    <2>2. s # <<>>  BY <1>4
    <2>3. /\ Head(s) = s[1] /\ Tail(s) \in Seq(Object) /\ Len(Tail(s)) = Len(s) - 1
          /\ \A j \in 1..Len(s)-1 : Tail(s)[j] = s[j+1]
      BY <1>2, <2>1, <2>2, HeadTailProperties
    <2>4. Tail(s) = <<>> <=> Len(Tail(s)) = 0  BY <2>3, EmptySeq
    <2> QED  BY <2>1, <2>3, <2>4
  <1>6. /\ pt <= loc[p].from /\ loc[p].from + loc[p].n <= ph
        /\ ct <= ch /\ ch <= pt /\ pt <= ph /\ ph <= ct + Size
    BY <1>3 DEF IInv, ProdClaims, Ordered, End
  <1>7. PICK d \in Nat : d = Done(p) /\ d < loc[p].n /\ d + Len(s) = loc[p].n
    BY <1>2, <1>4, <1>5 DEF Done
  <1>8. PICK e \in Int : e = loc[p].from + d /\ e >= pt /\ e < ph
    BY <1>2, <1>6, <1>7
  <1>31. d \in Int /\ d >= 0 /\ d < loc[p].n /\ e = loc[p].from + d  BY <1>7, <1>8
  <1>9. data' = [data EXCEPT ![Slot(e)] = s[1]]
    <2>1. loc[p].from \in Int /\ d \in Int  BY <1>2, <1>7
    <2>2. Slot(Mod(loc[p].from) + d) = Slot(loc[p].from + d)  BY <2>1, ModFacts
    <2> QED  BY <1>1, <1>5, <1>7, <1>8, <2>2 DEF CopyIn, Done
  <1>10. s[1] = <<p, sent[p] + d + 1>> /\ s[1] \in Object
    <2>1. 1 \in 1..Len(s)  BY <1>4, <1>5
    <2> QED  BY <2>1, <1>2, <1>4, <1>7, ElementOfSeq
  <1>11. loc' = [loc EXCEPT ![p] = r]
    BY <1>1 DEF CopyIn, IInv, LocOK
  <1>12. /\ prodSingle' = prodSingle /\ consSingle' = consSingle
         /\ prodHead' = prodHead /\ prodTail' = prodTail
         /\ consHead' = consHead /\ consTail' = consTail
         /\ ph' = ph /\ pt' = pt /\ ch' = ch /\ ct' = ct /\ sent' = sent
    BY DEF CopyIn, single, index, unwrapped
  <1>13. pc \in {"tail", "copy"} /\ (pc = "tail" <=> Len(s) = 1)  BY <1>5
  <1> HIDE DEF pc
  <1>14. r \in LocType  BY <1>1, <1>5, <1>13 DEF LocType, PCs
  <1>15. /\ r.pc = pc /\ r.n = loc[p].n /\ r.obj = Tail(s)
         /\ r.old = loc[p].old /\ r.from = loc[p].from
    BY <1>1 DEF LocType
  <1> HIDE DEF r
  <1>16. /\ LocOK' /\ loc'[p] = r
         /\ \A u \in Threads : u # p => loc'[u] = loc[u]
    BY <1>1, <1>11, <1>14, <1>15, LocStep DEF IInv
  <1>17. \A c \in Consumers : loc'[c] = loc[c]  BY <1>1, <1>16
  <1>18. \A q \in Producers : q # p => loc'[q] = loc[q]  BY <1>1, <1>16
  <1>19. /\ loc'[p].from = loc[p].from /\ loc'[p].n = loc[p].n /\ loc'[p].pc = pc
         /\ Busy(p)' /\ ~At(p, "idle")' /\ End(p)' = End(p) /\ ~At(p, "idle")
    BY <1>3, <1>13, <1>15, <1>16 DEF Busy, At, End
  <1>20. data' \in [0..Size-1 -> Object \cup {Empty}]  BY <1>2, <1>9, <1>10
  <1>21. Wrapped' /\ Ordered'  BY <1>12, <1>20 DEF IInv, Wrapped, Ordered
  <1>22. ConsClaims' /\ ConsCounted' /\ ConsAlone' /\ Copied'
    BY <1>12, <1>17 DEF IInv, ConsClaims, ConsCounted, ConsAlone, Copied, Busy, At, End
  <1>23. \A q \in Producers :
            /\ Busy(q)' <=> Busy(q)
            /\ End(q)' = End(q) /\ loc'[q].from = loc[q].from /\ loc'[q].n = loc[q].n
            /\ At(q, "idle")' <=> At(q, "idle")
            /\ loc'[q].pc \in {"room", "swap"} => loc'[q] = loc[q]
    BY <1>3, <1>13, <1>18, <1>19 DEF Busy, At, End
  <1>24. ProdClaims'  BY <1>12, <1>23 DEF IInv, ProdClaims
  <1>25. ProdCounted'  BY <1>12, <1>23 DEF IInv, ProdCounted, At, End
  <1>26. ProdAlone'  BY <1>12, <1>23 DEF IInv, ProdAlone
  <1>27. \A i \in Int : i # e /\ i >= ct /\ i < ph => data'[Slot(i)] = data[Slot(i)]
    <2>1. ASSUME NEW i \in Int, i # e, i >= ct, i < ph  PROVE Slot(i) # Slot(e)
      <3>1. i - e < Size /\ e - i < Size  BY <1>2, <1>6, <1>8, <2>1
      <3> QED  BY <1>8, <2>1, <3>1, SlotTells
    <2>2. \A i \in Int : Slot(i) \in 0..Size-1  BY ModType
    <2> QED  BY <1>2, <1>9, <2>1, <2>2
  <1>28. Filled'
    <2>1. ASSUME NEW i \in ct..pt-1  PROVE data'[Slot(i)] \in Object
      <3>1. i \in Int /\ i # e /\ i >= ct /\ i < ph  BY <1>2, <1>6, <1>8
      <3>2. data[Slot(i)] \in Object  BY DEF IInv, Filled
      <3> QED  BY <3>1, <3>2, <1>27
    <2> QED  BY <2>1, <1>12 DEF Filled
  <1>29. Batches'
    <2>1. BatchOK(p)'
      <3>1. Len(loc[p].obj)' = Len(s) - 1 /\ Done(p)' = d + 1
        <4>1. Len(loc[p].obj)' = Len(s) - 1 /\ loc'[p].n = loc[p].n
          BY <1>5, <1>15, <1>16
        <4>2. Done(p)' = loc[p].n - (Len(s) - 1)  BY <4>1 DEF Done
        <4> QED  BY <4>1, <4>2, <1>2, <1>5, <1>7
      <3>2. ASSUME NEW j \in 1..Len(s)-1
            PROVE  loc'[p].obj[j] = <<p, sent[p] + (d + 1) + j>>
        <4>1. loc'[p].obj[j] = s[j+1]  BY <1>5, <1>15, <1>16
        <4>2. j + 1 \in 1..Len(s)  BY <1>5
        <4>3. s[j+1] = <<p, sent[p] + d + (j + 1)>>  BY <1>4, <1>7, <4>2
        <4>4. sent[p] + d + (j + 1) = sent[p] + (d + 1) + j
          <5>1. sent[p] \in Int /\ d \in Int /\ j \in Int  BY <1>2, <1>5, <1>7
          <5> QED  BY <5>1
        <4> QED  BY <4>1, <4>3, <4>4
      <3>3. ASSUME NEW i \in 0..(d+1)-1
            PROVE  data'[Slot(loc[p].from + i)] = <<p, sent[p] + i + 1>>
        <4>1. CASE i = d
          <5>1. data'[Slot(e)] = s[1]  BY <1>2, <1>9, ModType
          <5> QED  BY <5>1, <4>1, <1>8, <1>10
        <4>2. CASE i # d
          <5>1. i \in 0..d-1  BY <4>2, <1>7
          <5>2. PICK x \in Int : x = loc[p].from + i
            BY <5>1, <1>2, <1>7
          <5>4. x # e /\ x >= ct /\ x < ph
            BY <5>1, <5>2, <1>6, <1>30, <1>31
          <5>3. data'[Slot(loc[p].from + i)] = data[Slot(loc[p].from + i)]
            BY <5>2, <5>4, <1>27
          <5> QED  BY <5>1, <5>3, <1>4, <1>7
        <4> QED  BY <4>1, <4>2
      <3>4. Len(s) - 1 <= loc[p].n  BY <1>2, <1>4, <1>5
      <3>5. (pc = "copy" => Len(s) - 1 > 0) /\ (pc = "tail" => Len(s) - 1 = 0)
        BY <1>4, <1>5, <1>13
      <3> QED
        BY <3>1, <3>2, <3>3, <3>4, <3>5, <1>12, <1>13, <1>19 DEF BatchOK, At
    <2>2. ASSUME NEW q \in Producers, q # p  PROVE BatchOK(q)'
      <3>1. BatchOK(q)  BY DEF IInv, Batches
      <3>2. ASSUME Busy(q), NEW i \in 0..Done(q)-1
            PROVE  data'[Slot(loc[q].from + i)] = data[Slot(loc[q].from + i)]
        <4>1. loc[q].from \in Nat /\ loc[q].n \in Nat /\ Len(loc[q].obj) \in Nat
          BY RingAssumption, LenProperties DEF IInv, LocOK, LocType, Threads
        <4>2. pt <= loc[q].from /\ End(q) <= ph /\ (End(p) <= loc[q].from \/ End(q) <= loc[p].from)
          BY <1>3, <2>2, <3>2 DEF IInv, ProdClaims
        <4>3. i \in Int /\ i >= 0 /\ i < loc[q].n  BY <4>1, <3>1, <3>2 DEF Done, BatchOK
        <4>4. PICK x \in Int : x = loc[q].from + i  BY <4>1, <4>3
        <4>5. loc[q].from \in Int /\ loc[q].n \in Int  BY <4>1
        <4>6. x >= ct /\ x < ph  BY <4>2, <4>3, <4>4, <4>5, <1>6, <1>30 DEF End
        <4>7. x # e  BY <4>2, <4>3, <4>4, <4>5, <1>6, <1>30, <1>31 DEF End
        <4> QED  BY <4>4, <4>6, <4>7, <1>27
      <3> QED  BY <3>1, <3>2, <2>2, <1>12, <1>18 DEF BatchOK, Busy, At, Done
    <2> QED  BY <2>1, <2>2 DEF Batches
  <1> QED
    BY <1>16, <1>21, <1>22, <1>24, <1>25, <1>26, <1>28, <1>29 DEF IInv

\* The producer whose turn it is has the first claim.
LEMMA ProdTurnIsFirst ==
  ASSUME IInv, NEW p \in Producers, At(p, "tail"), ProdTurn(p)
  PROVE  loc[p].from = pt
  <1>1. Busy(p)  BY DEF Busy
  <1>2. CASE prodSingle  BY <1>1, <1>2 DEF IInv, ProdAlone
  <1>3. CASE prodTail = loc[p].old
    <2>1. /\ loc[p].from \in Nat /\ loc[p].n \in Nat /\ ph \in Nat /\ pt \in Nat
          /\ ch \in Nat /\ ct \in Nat /\ Mod(pt) = Mod(loc[p].from)
      BY <1>3, RingAssumption DEF IInv, LocOK, LocType, Wrapped, Threads
    <2>2. pt <= loc[p].from /\ loc[p].from + loc[p].n <= ph
      BY <1>1 DEF IInv, ProdClaims, End
    <2>3. ct <= ch /\ ch <= pt /\ pt <= ph /\ ph <= ct + Size
      BY DEF IInv, Ordered
    <2>4. loc[p].from - pt < IndexMod /\ pt - loc[p].from < IndexMod
      BY <2>1, <2>2, <2>3, RingAssumption
    <2> QED  BY <2>1, <2>4, ModTells
  <1> QED  BY <1>2, <1>3 DEF ProdTurn

\* UpdateProdTail makes the first claim visible: its slots are all written.
LEMMA UpdateProdTailKeeps ==
  ASSUME IInv, NEW p \in Producers, UpdateProdTail(p)
  PROVE  IInv'
  <1>1. /\ loc[p] \in LocType /\ p \in Threads /\ loc[p].old = Mod(loc[p].from)
        /\ p \notin Consumers /\ Producers \subseteq Threads /\ Consumers \subseteq Threads
    BY RingAssumption DEF IInv, LocOK, Threads
  <1>2. At(p, "tail") /\ Busy(p) /\ ~At(p, "idle")  BY DEF UpdateProdTail, At, Busy
  <1>3. loc[p].from = pt  BY <1>2, ProdTurnIsFirst DEF UpdateProdTail
  <1>4. /\ ph \in Nat /\ pt \in Nat /\ ch \in Nat /\ ct \in Nat /\ sent \in [Producers -> Nat]
        /\ loc[p].n \in Nat /\ Size \in Nat
    BY <1>1, RingAssumption DEF IInv, Wrapped, LocType
  <1>5. /\ pt + loc[p].n <= ph /\ loc[p].n > 0
        /\ ct <= ch /\ ch <= pt /\ pt <= ph /\ ph <= ct + Size
    BY <1>2, <1>3 DEF IInv, ProdClaims, Ordered, End
  <1>6. /\ prodSingle' = prodSingle /\ consSingle' = consSingle
        /\ prodHead' = prodHead /\ prodTail' = Mod(loc[p].old + loc[p].n)
        /\ consHead' = consHead /\ consTail' = consTail
        /\ ph' = ph /\ pt' = pt + loc[p].n /\ ch' = ch /\ ct' = ct
        /\ data' = data /\ sent' = [sent EXCEPT ![p] = @ + loc[p].n]
        /\ loc' = [loc EXCEPT ![p] = Idle]
    BY <1>3 DEF UpdateProdTail, single
  <1>7. /\ LocOK' /\ loc'[p] = Idle
        /\ \A u \in Threads : u # p => loc'[u] = loc[u]
    <2>1. Idle \in LocType /\ Idle.old = Mod(Idle.from)  BY IdleType
    <2> QED  BY <1>1, <1>6, <2>1, LocStep DEF IInv
  <1>8. \A c \in Consumers : loc'[c] = loc[c]  BY <1>1, <1>7
  <1>9. \A q \in Producers : q # p => loc'[q] = loc[q]  BY <1>1, <1>7
  <1>10. loc'[p].pc = "idle" /\ At(p, "idle")' /\ ~Busy(p)'  BY <1>7 DEF Idle, At, Busy
  <1>11. sent' \in [Producers -> Nat]  BY <1>4, <1>6
  <1>12. Wrapped'
    <2>1. pt \in Int /\ loc[p].n \in Int  BY <1>4
    <2>2. Mod(Mod(pt) + loc[p].n) = Mod(pt + loc[p].n)  BY <2>1, ModFacts
    <2>3. prodTail' = Mod(pt') /\ pt' \in Nat  BY <1>1, <1>3, <1>4, <1>6, <2>2
    <2> QED  BY <1>6, <1>11, <2>3 DEF IInv, Wrapped
  <1>13. Ordered'  BY <1>4, <1>5, <1>6 DEF Ordered
  <1>14. ConsClaims' /\ ConsAlone' /\ Copied'
    BY <1>6, <1>8 DEF IInv, ConsClaims, ConsAlone, Copied, Busy, At, End
  <1>15. ConsCounted'
    <2>1. ASSUME NEW c \in Consumers, At(c, "swap"), loc[c].from = ch, End(c) <= pt
          PROVE  End(c) <= pt'
      <3>1. loc[c].from \in Nat /\ loc[c].n \in Nat
        BY RingAssumption DEF IInv, LocOK, LocType, Threads
      <3> QED  BY <2>1, <3>1, <1>4, <1>5, <1>6 DEF End
    <2> QED  BY <2>1, <1>6, <1>8 DEF IInv, ConsCounted, At, End
  <1>16. ProdClaims'
    <2>1. \A q \in Producers : Busy(q)' => q # p /\ Busy(q) /\ loc'[q] = loc[q]
      BY <1>9, <1>10 DEF Busy, At
    <2>2. ASSUME NEW q \in Producers, q # p, Busy(q)  PROVE pt + loc[p].n <= loc[q].from
      <3>1. /\ pt <= loc[q].from /\ loc[q].n > 0
            /\ pt + loc[p].n <= loc[q].from \/ loc[q].from + loc[q].n <= pt
        BY <1>2, <1>3, <2>2 DEF IInv, ProdClaims, End
      <3>2. loc[q].from \in Nat /\ loc[q].n \in Nat
        BY RingAssumption DEF IInv, LocOK, LocType, Threads
      <3> QED  BY <3>1, <3>2, <1>4
    <2> QED  BY <2>1, <2>2, <1>6 DEF IInv, ProdClaims, End
  <1>17. ProdCounted'
    <2>1. \A q \in Producers : loc'[q].pc \in {"room", "swap"} => loc'[q] = loc[q]
      BY <1>9, <1>10
    <2> QED  BY <2>1, <1>6 DEF IInv, ProdCounted, At, End
  <1>18. ProdAlone'
    <2>1. SUFFICES ASSUME prodSingle  PROVE ProdAlone'
      BY <1>6 DEF ProdAlone
    <2>2. \A q \in Producers : At(q, "idle")'
      BY <2>1, <1>2, <1>9, <1>10, ProdOthersIdle DEF At
    <2>3. pt' = ph'  BY <2>1, <1>2, <1>3, <1>6 DEF IInv, ProdAlone, End
    <2> QED  BY <2>2, <2>3 DEF ProdAlone, At, Busy
  <1>19. Filled'
    <2>1. Len(loc[p].obj) = 0 /\ \A i \in 0..Done(p)-1 :
             data[Slot(loc[p].from + i)] = <<p, sent[p] + i + 1>>
      BY <1>2 DEF IInv, Batches, BatchOK
    <2>2. Done(p) = loc[p].n  BY <1>4, <2>1 DEF Done
    <2>3. ASSUME NEW i \in ct..pt'-1  PROVE data[Slot(i)] \in Object
      <3>1. CASE i \in ct..pt-1  BY <3>1 DEF IInv, Filled
      <3>2. CASE i \notin ct..pt-1
        <4>1. i \in Int /\ i >= pt /\ i < pt + loc[p].n  BY <3>2, <1>4, <1>5, <1>6
        <4>2. PICK j \in 0..loc[p].n-1 : i = pt + j
          <5>1. i - pt \in 0..loc[p].n-1 /\ i = pt + (i - pt)  BY <4>1, <1>4
          <5> QED  BY <5>1
        <4>3. data[Slot(i)] = <<p, sent[p] + j + 1>>  BY <4>2, <2>1, <2>2, <1>3
        <4>4. sent[p] + j + 1 \in Nat  BY <1>4, <4>2
        <4> QED  BY <4>3, <4>4 DEF Object
      <3> QED  BY <3>1, <3>2
    <2> QED  BY <2>3, <1>6 DEF Filled
  <1>20. Batches'
    <2>1. BatchOK(p)'  BY <1>10 DEF BatchOK, At
    <2>2. ASSUME NEW q \in Producers, q # p  PROVE BatchOK(q)'
      <3>1. BatchOK(q) /\ sent'[q] = sent[q]  BY <2>2, <1>4, <1>6 DEF IInv, Batches
      <3> QED  BY <3>1, <2>2, <1>6, <1>9 DEF BatchOK, Busy, At, Done
    <2> QED  BY <2>1, <2>2 DEF Batches
  <1> QED
    BY <1>7, <1>12, <1>13, <1>14, <1>15, <1>16, <1>17, <1>18, <1>19, <1>20 DEF IInv

\* RING_DoDequeue begins with nothing copied.
LEMMA DequeueKeeps ==
  ASSUME IInv, NEW c \in Consumers, NEW n \in 1..MaxBatch, NEW fixed \in BOOLEAN,
         RING_DoDequeue(c, n, fixed)
  PROVE  IInv'
  <1> DEFINE r == [Idle EXCEPT !.pc = "head", !.max = n, !.fixed = fixed]
  <1>1. r \in LocType /\ r.old = Mod(r.from)
    <2>1. n \in 0..MaxBatch /\ "head" \in PCs  BY RingAssumption DEF PCs
    <2>2. Idle \in LocType /\ Idle.old = Mod(Idle.from)  BY IdleType
    <2> QED  BY <2>1, <2>2 DEF LocType
  <1>2. r.pc = "head" /\ r.obj = <<>>  BY DEF Idle
  <1>3. loc' = [loc EXCEPT ![c] = r]  BY DEF RING_DoDequeue
  <1>4. ~Busy(c)  BY DEF RING_DoDequeue, At, Busy
  <1>5. consSingle => \A d \in Consumers : At(d, "idle")  BY DEF RING_DoDequeue
  <1>6. UNCHANGED <<single, index, unwrapped, data, sent>>  BY DEF RING_DoDequeue
  <1> HIDE DEF r
  <1> QED  BY <1>1, <1>2, <1>3, <1>4, <1>5, <1>6, ConsQuiet

\* On a single side a consumer in a call is the only one.
LEMMA ConsOthersIdle ==
  ASSUME IInv, NEW c \in Consumers, consSingle, ~At(c, "idle")
  PROVE  \A d \in Consumers : d # c => At(d, "idle")
  BY DEF IInv, ConsAlone

\* The head as it is, loaded first or found by a swap that fails.
LEMMA ConsReloads ==
  ASSUME IInv, NEW c \in Consumers, loc[c].pc \in {"head", "swap"},
         loc' = [loc EXCEPT ![c].pc = "room", ![c].old = consHead, ![c].from = ch],
         UNCHANGED <<single, index, unwrapped, data, sent>>
  PROVE  IInv'
  <1> DEFINE r == [loc[c] EXCEPT !.pc = "room", !.old = consHead, !.from = ch]
  <1>1. loc[c] \in LocType /\ c \in Threads  BY DEF IInv, LocOK, Threads
  <1>2. ch \in Nat /\ consHead = Mod(ch) /\ consHead \in Int
    BY ModType DEF IInv, Wrapped
  <1>3. r \in LocType /\ r.old = Mod(r.from)  BY <1>1, <1>2 DEF LocType, PCs
  <1>4. r.pc = "room" /\ r.from = ch /\ r.obj = loc[c].obj
    BY <1>1 DEF LocType
  <1>5. loc' = [loc EXCEPT ![c] = r]  BY <1>1 DEF IInv, LocOK
  <1>6. ~Busy(c) /\ ~At(c, "idle")  BY DEF At, Busy
  <1>7. r.obj = <<>>  BY <1>4 DEF IInv, Copied
  <1>8. consSingle => \A d \in Consumers : d # c => At(d, "idle")
    BY <1>6, ConsOthersIdle
  <1>9. r.from <= ch  BY <1>2, <1>4
  <1> HIDE DEF r
  <1> QED  BY <1>3, <1>4, <1>5, <1>6, <1>7, <1>8, <1>9, ConsQuiet

\* LoadConsHead, and a SwapConsHead that fails.
LEMMA LoadConsHeadKeeps ==
  ASSUME IInv, NEW c \in Consumers,
         \/ LoadConsHead(c)
         \/ SwapConsHead(c) /\ ~(consSingle \/ consHead = loc[c].old)
  PROVE  IInv'
  <1>1. CASE LoadConsHead(c)  BY <1>1, ConsReloads DEF LoadConsHead, At
  <1>2. CASE SwapConsHead(c) /\ ~(consSingle \/ consHead = loc[c].old)
    BY <1>2, ConsReloads DEF SwapConsHead, At, index, unwrapped
  <1> QED  BY <1>1, <1>2

\* A consumer that still has the latest head counts the objects there are.
LEMMA LoadProdTailKeeps ==
  ASSUME IInv, NEW c \in Consumers, LoadProdTail(c)
  PROVE  IInv'
  <1> DEFINE g == Granted(c, Entries(c))
             r == IF g = 0 THEN Idle ELSE [loc[c] EXCEPT !.pc = "swap", !.n = g]
  <1>1. loc[c] \in LocType /\ c \in Threads /\ loc[c].old = Mod(loc[c].from)
    BY DEF IInv, LocOK, Threads
  <1>2. pt \in Nat /\ prodTail = Mod(pt) /\ loc[c].from \in Nat /\ ch \in Nat /\ Size \in Nat
    BY <1>1, RingAssumption DEF IInv, Wrapped, LocType
  <1>3. At(c, "room") /\ ~Busy(c) /\ ~At(c, "idle")  BY DEF LoadProdTail, At, Busy
  <1>4. Entries(c) \in 0..IndexMod-1
    <2>1. Mod(pt) \in Int /\ Mod(loc[c].from) \in Int  BY <1>2, ModType
    <2>2. prodTail - loc[c].old \in Int  BY <1>1, <1>2, <2>1
    <2> QED  BY <2>2, ModType DEF Entries
  <1>5. g \in 0..MaxBatch /\ g <= Entries(c)
    BY <1>1, <1>4, GrantedFacts, RingAssumption DEF IInv
  <1>6. ASSUME loc[c].from = ch  PROVE Entries(c) = pt - loc[c].from
    <2>1. ph \in Nat /\ ct \in Nat /\ ct <= ch /\ ch <= pt /\ pt <= ph /\ ph <= ct + Size
      BY DEF IInv, Wrapped, Ordered
    <2>2. pt - loc[c].from \in 0..IndexMod-1
      BY <1>2, <1>6, <2>1, RingAssumption
    <2>3. Mod(Mod(pt) - Mod(loc[c].from)) = pt - loc[c].from
      BY <1>2, <2>2, Distance
    <2> QED  BY <1>1, <1>2, <2>3 DEF Entries
  <1>7. loc' = [loc EXCEPT ![c] = r]  BY DEF LoadProdTail, Decide
  <1>8. UNCHANGED <<single, index, unwrapped, data, sent>>  BY DEF LoadProdTail
  <1>9. consSingle => \A d \in Consumers : d # c => At(d, "idle")
    BY <1>3, ConsOthersIdle
  <1>10. loc[c].from <= ch /\ (consSingle => loc[c].from = ch)
    BY <1>3 DEF IInv, ConsCounted, ConsAlone, At
  <1>11. loc[c].obj = <<>>  BY <1>3 DEF IInv, Copied, At
  <1> HIDE DEF g
  <1>12. CASE g = 0
    <2>1. r = Idle /\ r.pc = "idle"  BY <1>12 DEF Idle
    <2> HIDE DEF r
    <2>2. r \in LocType /\ r.old = Mod(r.from)  BY <2>1, IdleType
    <2> QED  BY <2>1, <2>2, <1>3, <1>7, <1>8, ConsQuiet
  <1>13. CASE g # 0
    <2>1. r = [loc[c] EXCEPT !.pc = "swap", !.n = g]  BY <1>13
    <2>2. /\ r.pc = "swap" /\ r.n = g /\ r.obj = loc[c].obj
          /\ r.from = loc[c].from /\ r.old = loc[c].old
      BY <2>1, <1>1 DEF LocType
    <2>3. r \in LocType  BY <2>1, <1>1, <1>5 DEF LocType, PCs
    <2>4. r.n > 0 /\ (r.from = ch => r.from + r.n <= pt)
      BY <1>2, <1>5, <1>6, <1>13, <2>2
    <2> HIDE DEF r
    <2> QED  BY <1>1, <1>3, <1>7, <1>8, <1>9, <1>10, <1>11, <2>2, <2>3, <2>4, ConsQuiet
  <1> QED  BY <1>12, <1>13

\* A swap that succeeds does so with the head the objects were counted from.
LEMMA SwapConsAtHead ==
  ASSUME IInv, NEW c \in Consumers, SwapConsHead(c), consSingle \/ consHead = loc[c].old
  PROVE  loc[c].from = ch
  <1>1. At(c, "swap") /\ Fresh(c, ch)  BY DEF SwapConsHead
  <1>2. CASE consSingle  BY <1>1, <1>2 DEF IInv, ConsAlone, At
  <1>3. CASE consHead = loc[c].old
    <2>1. loc[c].from \in Nat /\ ch \in Nat /\ Mod(ch) = Mod(loc[c].from)
      BY <1>3 DEF IInv, LocOK, LocType, Wrapped, Threads
    <2>2. loc[c].from <= ch /\ ch - loc[c].from < IndexMod
      BY <1>1 DEF IInv, ConsCounted, Fresh, At
    <2>3. loc[c].from - ch < IndexMod  BY <2>1, <2>2, RingAssumption
    <2> QED  BY <2>1, <2>2, <2>3, ModTells
  <1> QED  BY <1>2, <1>3

\* A consumer claims the oldest objects there are.
LEMMA SwapConsClaims ==
  ASSUME IInv, NEW c \in Consumers, SwapConsHead(c), consSingle \/ consHead = loc[c].old
  PROVE  IInv'
  <1> DEFINE r == [loc[c] EXCEPT !.pc = "copy", !.max = loc[c].n, !.fixed = TRUE, !.obj = <<>>]
  <1>1. /\ loc[c] \in LocType /\ c \in Threads /\ loc[c].old = Mod(loc[c].from)
        /\ c \notin Producers /\ Producers \subseteq Threads /\ Consumers \subseteq Threads
    BY RingAssumption DEF IInv, LocOK, Threads
  <1>2. loc[c].from = ch  BY SwapConsAtHead
  <1>3. /\ ph \in Nat /\ pt \in Nat /\ ch \in Nat /\ ct \in Nat
        /\ loc[c].n \in Nat /\ Size \in Nat
    BY <1>1, RingAssumption DEF IInv, Wrapped, LocType
  <1>4. At(c, "swap") /\ ~Busy(c) /\ ~At(c, "idle")  BY DEF SwapConsHead, At, Busy
  <1>5. loc[c].n > 0 /\ ch + loc[c].n <= pt
    BY <1>2, <1>4 DEF IInv, ConsCounted, End
  <1>8. loc' = [loc EXCEPT ![c] = r]  BY DEF SwapConsHead, Claim
  <1>9. /\ prodSingle' = prodSingle /\ consSingle' = consSingle
        /\ consHead' = Mod(loc[c].old + loc[c].n) /\ prodTail' = prodTail
        /\ prodHead' = prodHead /\ consTail' = consTail
        /\ ch' = ch + loc[c].n /\ pt' = pt /\ ph' = ph /\ ct' = ct
        /\ data' = data /\ sent' = sent
    BY <1>2 DEF SwapConsHead, single
  <1>10. r \in LocType
    <2>1. <<>> \in Seq(Object)  BY EmptySeq
    <2> QED  BY <1>1, <2>1 DEF LocType, PCs
  <1>11. /\ r.pc = "copy" /\ r.n = loc[c].n /\ r.obj = <<>>
         /\ r.old = loc[c].old /\ r.from = loc[c].from
    BY <1>1 DEF LocType
  <1> HIDE DEF r
  <1>12. /\ LocOK' /\ loc'[c] = r
         /\ \A u \in Threads : u # c => loc'[u] = loc[u]
    BY <1>1, <1>8, <1>10, <1>11, LocStep DEF IInv
  <1>13. \A p \in Producers : loc'[p] = loc[p]  BY <1>1, <1>12
  <1>14. \A d \in Consumers : d # c => loc'[d] = loc[d]  BY <1>1, <1>12
  <1>15. Wrapped'
    <2>1. ch \in Int /\ loc[c].n \in Int  BY <1>3
    <2>2. Mod(Mod(ch) + loc[c].n) = Mod(ch + loc[c].n)  BY <2>1, ModFacts
    <2>3. consHead' = Mod(ch') /\ ch' \in Nat  BY <1>1, <1>2, <1>3, <1>9, <2>2
    <2> QED  BY <1>9, <2>3 DEF IInv, Wrapped
  <1>16. Ordered' /\ Filled'
    BY <1>3, <1>5, <1>9 DEF IInv, Ordered, Filled
  <1>17. ProdClaims' /\ ProdCounted' /\ ProdAlone'
    BY <1>9, <1>13 DEF IInv, ProdClaims, ProdCounted, ProdAlone, Busy, At, End
  <1>18. /\ Busy(c)' /\ ~At(c, "idle")' /\ loc'[c].from = ch /\ End(c)' = ch'
         /\ loc'[c].n = loc[c].n /\ loc'[c].pc = "copy"
    BY <1>2, <1>9, <1>11, <1>12 DEF Busy, At, End
  <1>19. \A d \in Consumers : loc[d].from \in Nat /\ loc[d].n \in Nat /\ End(d) \in Nat
    BY RingAssumption DEF IInv, LocOK, LocType, Threads, End
  <1>20. ConsClaims'
    <2>1. \A d \in Consumers : Busy(d)' => d = c \/ Busy(d)
      BY <1>14 DEF Busy, At
    <2>2. \A d \in Consumers : d # c => End(d)' = End(d) /\ loc'[d].from = loc[d].from
      BY <1>14 DEF End
    <2>3. ASSUME NEW d \in Consumers, Busy(d)'
          PROVE  ct <= loc'[d].from /\ End(d)' <= ch' /\ loc'[d].n > 0
      <3>1. CASE d = c
        BY <3>1, <1>3, <1>5, <1>9, <1>18 DEF IInv, Ordered
      <3>2. CASE d # c
        <4>1. ct <= loc[d].from /\ End(d) <= ch /\ loc[d].n > 0
          BY <2>1, <2>3, <3>2 DEF IInv, ConsClaims
        <4> QED  BY <4>1, <3>2, <2>2, <1>3, <1>9, <1>14, <1>19
      <3> QED  BY <3>1, <3>2
    <2>4. ASSUME NEW d \in Consumers, NEW o \in Consumers, d # o, Busy(d)', Busy(o)'
          PROVE  End(d)' <= loc'[o].from \/ End(o)' <= loc'[d].from
      <3>1. CASE d # c /\ o # c
        BY <3>1, <2>1, <2>2, <2>4 DEF IInv, ConsClaims
      <3>2. CASE d = c
        <4>1. Busy(o) /\ End(o) <= ch  BY <2>1, <2>4, <3>2 DEF IInv, ConsClaims
        <4> QED  BY <4>1, <3>2, <2>2, <2>4, <1>18
      <3>3. CASE o = c
        <4>1. Busy(d) /\ End(d) <= ch  BY <2>1, <2>4, <3>3 DEF IInv, ConsClaims
        <4> QED  BY <4>1, <3>3, <2>2, <2>4, <1>18
      <3> QED  BY <3>1, <3>2, <3>3
    <2> QED  BY <2>3, <2>4, <1>9 DEF ConsClaims
  <1>21. ConsCounted'
    <2>1. ASSUME NEW d \in Consumers, d # c, loc'[d].pc \in {"room", "swap"}
          PROVE  loc'[d].from < ch'
      <3>1. loc'[d] = loc[d]  BY <2>1, <1>14
      <3>2. loc[d].from <= ch /\ loc[d].from \in Nat  BY <2>1, <3>1, <1>19 DEF IInv, ConsCounted
      <3> QED  BY <3>1, <3>2, <1>3, <1>5, <1>9
    <2>2. ASSUME NEW d \in Consumers, d # c, At(d, "swap")'
          PROVE  loc'[d].n > 0
      BY <2>2, <1>14 DEF IInv, ConsCounted, At
    <2> QED
      BY <2>1, <2>2, <1>3, <1>9, <1>14, <1>18, <1>19 DEF ConsCounted, At
  <1>22. ConsAlone'
    <2>1. SUFFICES ASSUME consSingle  PROVE ConsAlone'
      BY <1>9 DEF ConsAlone
    <2>2. \A d \in Consumers : d # c => At(d, "idle") /\ ~Busy(d)
      BY <2>1, <1>4, ConsOthersIdle DEF At, Busy
    <2>3. ct = ch  BY <2>1, <2>2, <1>4 DEF IInv, ConsAlone
    <2>4. \A d \in Consumers : d # c => loc'[d].pc = "idle" /\ ~Busy(d)'
      BY <2>2, <1>14 DEF At, Busy
    <2> QED  BY <2>3, <2>4, <1>9, <1>18 DEF ConsAlone, At
  <1>23. Copied'
    <2>1. Len(loc'[c].obj) < loc'[c].n
      <3>1. loc'[c].obj = <<>> /\ Len(<<>>) = 0  BY <1>11, <1>12, EmptySeq
      <3> QED  BY <3>1, <1>3, <1>5, <1>18
    <2> QED  BY <2>1, <1>14, <1>18 DEF IInv, Copied, At
  <1>24. ASSUME NEW p \in Producers  PROVE BatchOK(p)'
    <2>1. BatchOK(p)  BY DEF IInv, Batches
    <2> QED  BY <2>1, <1>9, <1>13 DEF BatchOK, Busy, At, Done
  <1>25. Batches'  BY <1>24 DEF Batches
  <1> QED
    BY <1>12, <1>15, <1>16, <1>17, <1>20, <1>21, <1>22, <1>23, <1>25 DEF IInv

\* CopyOut reads the next slot of the consumer's own claim: it has an object.
LEMMA CopyOutReads ==
  ASSUME IInv, NEW c \in Consumers, CopyOut(c)
  PROVE  /\ Len(loc[c].obj) \in 0..loc[c].n-1
         /\ Slot(loc[c].old + Len(loc[c].obj)) = Slot(loc[c].from + Len(loc[c].obj))
         /\ data[Slot(loc[c].from + Len(loc[c].obj))] \in Object
  <1>1. loc[c] \in LocType /\ loc[c].old = Mod(loc[c].from)
    BY DEF IInv, LocOK, Threads
  <1>2. /\ ph \in Int /\ pt \in Int /\ ch \in Int /\ ct \in Int
        /\ loc[c].n \in Nat /\ loc[c].from \in Nat
    BY <1>1, RingAssumption DEF IInv, Wrapped, LocType
  <1>3. PICK k \in Nat : k = Len(loc[c].obj)
    <2>1. loc[c].obj \in Seq(Object)  BY <1>1 DEF LocType
    <2> QED  BY <2>1, LenProperties
  <1>4. At(c, "copy") /\ Busy(c)  BY DEF CopyOut, Busy
  <1>5. k < loc[c].n  BY <1>3, <1>4 DEF IInv, Copied
  <1>6. ct <= loc[c].from /\ loc[c].from + loc[c].n <= ch /\ ch <= pt
    BY <1>4 DEF IInv, ConsClaims, Ordered, End
  <1>7. PICK i \in ct..pt-1 : i = loc[c].from + k  BY <1>2, <1>5, <1>6
  <1>8. data[Slot(i)] \in Object  BY DEF IInv, Filled
  <1>9. Slot(Mod(loc[c].from) + k) = Slot(loc[c].from + k)
    <2>1. loc[c].from \in Int /\ k \in Int  BY <1>2
    <2> QED  BY <2>1, ModFacts
  <1>10. k \in 0..loc[c].n-1  BY <1>2, <1>5
  <1> QED  BY <1>1, <1>3, <1>7, <1>8, <1>9, <1>10

\* Copying out changes what the consumer has copied, and no more.
LEMMA CopyOutKeeps ==
  ASSUME IInv, NEW c \in Consumers, CopyOut(c)
  PROVE  IInv'
  <1> DEFINE s == loc[c].obj
             got == Append(s, data[Slot(loc[c].old + Len(s))])
             pc == IF Len(got) = loc[c].n THEN "tail" ELSE "copy"
             r == [loc[c] EXCEPT !.obj = got, !.pc = pc]
  <1>1. /\ loc[c] \in LocType /\ c \in Threads /\ loc[c].old = Mod(loc[c].from)
        /\ c \notin Producers /\ Producers \subseteq Threads /\ Consumers \subseteq Threads
    BY RingAssumption DEF IInv, LocOK, Threads
  <1>2. s \in Seq(Object) /\ loc[c].n \in Nat
    BY <1>1, RingAssumption DEF LocType
  <1>3. At(c, "copy") /\ Busy(c)  BY DEF CopyOut, At, Busy
  <1>4. Len(s) \in 0..loc[c].n-1 /\ data[Slot(loc[c].old + Len(s))] \in Object
    BY CopyOutReads
  <1>5. got \in Seq(Object) /\ Len(got) = Len(s) + 1
    BY <1>2, <1>4, AppendProperties
  <1>6. loc' = [loc EXCEPT ![c] = r]  BY <1>1 DEF CopyOut, IInv, LocOK
  <1>7. /\ prodSingle' = prodSingle /\ consSingle' = consSingle
        /\ prodHead' = prodHead /\ prodTail' = prodTail
        /\ consHead' = consHead /\ consTail' = consTail
        /\ ph' = ph /\ pt' = pt /\ ch' = ch /\ ct' = ct /\ sent' = sent /\ data' = data
    BY DEF CopyOut, single, index, unwrapped
  <1>8. /\ pc \in {"tail", "copy"}
        /\ pc = "tail" => Len(got) = loc[c].n
        /\ pc = "copy" => Len(got) < loc[c].n
    BY <1>2, <1>4, <1>5
  <1> HIDE DEF got, pc
  <1>9. r \in LocType  BY <1>1, <1>5, <1>8 DEF LocType, PCs
  <1>10. /\ r.pc = pc /\ r.n = loc[c].n /\ r.obj = got
         /\ r.old = loc[c].old /\ r.from = loc[c].from
    BY <1>1 DEF LocType
  <1> HIDE DEF r
  <1>11. /\ LocOK' /\ loc'[c] = r
         /\ \A u \in Threads : u # c => loc'[u] = loc[u]
    BY <1>1, <1>6, <1>9, <1>10, LocStep DEF IInv
  <1>12. \A p \in Producers : loc'[p] = loc[p]  BY <1>1, <1>11
  <1>13. \A d \in Consumers : d # c => loc'[d] = loc[d]  BY <1>1, <1>11
  <1>14. /\ loc'[c].from = loc[c].from /\ loc'[c].n = loc[c].n /\ loc'[c].pc = pc
         /\ Busy(c)' /\ ~At(c, "idle")' /\ End(c)' = End(c) /\ ~At(c, "idle")
    BY <1>3, <1>8, <1>10, <1>11 DEF Busy, At, End
  <1>15. Wrapped' /\ Ordered' /\ Filled'  BY <1>7 DEF IInv, Wrapped, Ordered, Filled
  <1>16. ProdClaims' /\ ProdCounted' /\ ProdAlone'
    BY <1>7, <1>12 DEF IInv, ProdClaims, ProdCounted, ProdAlone, Busy, At, End
  <1>17. \A d \in Consumers :
            /\ Busy(d)' <=> Busy(d)
            /\ End(d)' = End(d) /\ loc'[d].from = loc[d].from /\ loc'[d].n = loc[d].n
            /\ At(d, "idle")' <=> At(d, "idle")
            /\ loc'[d].pc \in {"room", "swap"} => loc'[d] = loc[d]
    BY <1>3, <1>8, <1>13, <1>14 DEF Busy, At, End
  <1>18. ConsClaims'  BY <1>7, <1>17 DEF IInv, ConsClaims
  <1>19. ConsCounted'  BY <1>7, <1>17 DEF IInv, ConsCounted, At, End
  <1>20. ConsAlone'  BY <1>7, <1>17 DEF IInv, ConsAlone
  <1>21. Copied'
    <2>1. loc'[c].obj = got  BY <1>10, <1>11
    <2> QED  BY <2>1, <1>8, <1>13, <1>14 DEF IInv, Copied, At
  <1>22. ASSUME NEW p \in Producers  PROVE BatchOK(p)'
    <2>1. BatchOK(p)  BY DEF IInv, Batches
    <2> QED  BY <2>1, <1>7, <1>12 DEF BatchOK, Busy, At, Done
  <1>23. Batches'  BY <1>22 DEF Batches
  <1> QED
    BY <1>11, <1>15, <1>16, <1>18, <1>19, <1>20, <1>21, <1>23 DEF IInv

\* The consumer whose turn it is has the first claim.
LEMMA ConsTurnIsFirst ==
  ASSUME IInv, NEW c \in Consumers, At(c, "tail"), ConsTurn(c)
  PROVE  loc[c].from = ct
  <1>1. Busy(c)  BY DEF Busy
  <1>2. CASE consSingle  BY <1>1, <1>2 DEF IInv, ConsAlone
  <1>3. CASE consTail = loc[c].old
    <2>1. /\ loc[c].from \in Nat /\ loc[c].n \in Nat /\ ph \in Nat /\ pt \in Nat
          /\ ch \in Nat /\ ct \in Nat /\ Mod(ct) = Mod(loc[c].from)
      BY <1>3, RingAssumption DEF IInv, LocOK, LocType, Wrapped, Threads
    <2>2. ct <= loc[c].from /\ loc[c].from + loc[c].n <= ch
      BY <1>1 DEF IInv, ConsClaims, End
    <2>3. ct <= ch /\ ch <= pt /\ pt <= ph /\ ph <= ct + Size
      BY DEF IInv, Ordered
    <2>4. loc[c].from - ct < IndexMod /\ ct - loc[c].from < IndexMod
      BY <2>1, <2>2, <2>3, RingAssumption
    <2> QED  BY <2>1, <2>4, ModTells
  <1> QED  BY <1>2, <1>3 DEF ConsTurn

\* UpdateConsTail gives the slots of the first claim back to the producers.
LEMMA UpdateConsTailKeeps ==
  ASSUME IInv, NEW c \in Consumers, UpdateConsTail(c)
  PROVE  IInv'
  <1>1. /\ loc[c] \in LocType /\ c \in Threads /\ loc[c].old = Mod(loc[c].from)
        /\ c \notin Producers /\ Producers \subseteq Threads /\ Consumers \subseteq Threads
    BY RingAssumption DEF IInv, LocOK, Threads
  <1>2. At(c, "tail") /\ Busy(c) /\ ~At(c, "idle")  BY DEF UpdateConsTail, At, Busy
  <1>3. loc[c].from = ct  BY <1>2, ConsTurnIsFirst DEF UpdateConsTail
  <1>4. /\ ph \in Nat /\ pt \in Nat /\ ch \in Nat /\ ct \in Nat
        /\ loc[c].n \in Nat /\ Size \in Nat
    BY <1>1, RingAssumption DEF IInv, Wrapped, LocType
  <1>5. /\ ct + loc[c].n <= ch /\ loc[c].n > 0
        /\ ct <= ch /\ ch <= pt /\ pt <= ph /\ ph <= ct + Size
    BY <1>2, <1>3 DEF IInv, ConsClaims, Ordered, End
  <1>6. /\ prodSingle' = prodSingle /\ consSingle' = consSingle
        /\ prodHead' = prodHead /\ consTail' = Mod(loc[c].old + loc[c].n)
        /\ consHead' = consHead /\ prodTail' = prodTail
        /\ ph' = ph /\ ct' = ct + loc[c].n /\ ch' = ch /\ pt' = pt
        /\ data' = data /\ sent' = sent
        /\ loc' = [loc EXCEPT ![c] = Idle]
    BY <1>3 DEF UpdateConsTail, single
  <1>7. /\ LocOK' /\ loc'[c] = Idle
        /\ \A u \in Threads : u # c => loc'[u] = loc[u]
    <2>1. Idle \in LocType /\ Idle.old = Mod(Idle.from)  BY IdleType
    <2> QED  BY <1>1, <1>6, <2>1, LocStep DEF IInv
  <1>8. \A p \in Producers : loc'[p] = loc[p]  BY <1>1, <1>7
  <1>9. \A d \in Consumers : d # c => loc'[d] = loc[d]  BY <1>1, <1>7
  <1>10. loc'[c].pc = "idle" /\ At(c, "idle")' /\ ~Busy(c)'  BY <1>7 DEF Idle, At, Busy
  <1>12. Wrapped'
    <2>1. ct \in Int /\ loc[c].n \in Int  BY <1>4
    <2>2. Mod(Mod(ct) + loc[c].n) = Mod(ct + loc[c].n)  BY <2>1, ModFacts
    <2>3. consTail' = Mod(ct') /\ ct' \in Nat  BY <1>1, <1>3, <1>4, <1>6, <2>2
    <2> QED  BY <1>6, <2>3 DEF IInv, Wrapped
  <1>13. Ordered'  BY <1>4, <1>5, <1>6 DEF Ordered
  <1>14. ProdClaims' /\ ProdAlone'
    BY <1>6, <1>8 DEF IInv, ProdClaims, ProdAlone, Busy, At, End
  <1>15. ProdCounted'
    <2>1. ASSUME NEW p \in Producers, End(p) <= ct + Size
          PROVE  End(p) <= ct' + Size
      <3>1. loc[p].from \in Nat /\ loc[p].n \in Nat
        BY RingAssumption DEF IInv, LocOK, LocType, Threads
      <3> QED  BY <2>1, <3>1, <1>4, <1>5, <1>6 DEF End
    <2> QED  BY <2>1, <1>6, <1>8 DEF IInv, ProdCounted, At, End
  <1>16. ConsClaims'
    <2>1. \A d \in Consumers : Busy(d)' => d # c /\ Busy(d) /\ loc'[d] = loc[d]
      BY <1>9, <1>10 DEF Busy, At
    <2>2. ASSUME NEW d \in Consumers, d # c, Busy(d)  PROVE ct + loc[c].n <= loc[d].from
      <3>1. /\ ct <= loc[d].from /\ loc[d].n > 0
            /\ ct + loc[c].n <= loc[d].from \/ loc[d].from + loc[d].n <= ct
        BY <1>2, <1>3, <2>2 DEF IInv, ConsClaims, End
      <3>2. loc[d].from \in Nat /\ loc[d].n \in Nat
        BY RingAssumption DEF IInv, LocOK, LocType, Threads
      <3> QED  BY <3>1, <3>2, <1>4
    <2> QED  BY <2>1, <2>2, <1>6 DEF IInv, ConsClaims, End
  <1>17. ConsCounted'
    <2>1. \A d \in Consumers : loc'[d].pc \in {"room", "swap"} => loc'[d] = loc[d]
      BY <1>9, <1>10
    <2> QED  BY <2>1, <1>6 DEF IInv, ConsCounted, At, End
  <1>18. ConsAlone'
    <2>1. SUFFICES ASSUME consSingle  PROVE ConsAlone'
      BY <1>6 DEF ConsAlone
    <2>2. \A d \in Consumers : At(d, "idle")'
      BY <2>1, <1>2, <1>9, <1>10, ConsOthersIdle DEF At
    <2>3. ct' = ch'  BY <2>1, <1>2, <1>3, <1>6 DEF IInv, ConsAlone, End
    <2> QED  BY <2>2, <2>3 DEF ConsAlone, At, Busy
  <1>19. Filled'
    <2>1. \A i \in ct'..pt-1 : i \in ct..pt-1  BY <1>4, <1>5, <1>6
    <2> QED  BY <2>1, <1>6 DEF IInv, Filled
  <1>20. Copied'  BY <1>9, <1>10 DEF IInv, Copied, At
  <1>21. ASSUME NEW p \in Producers  PROVE BatchOK(p)'
    <2>1. BatchOK(p)  BY DEF IInv, Batches
    <2> QED  BY <2>1, <1>6, <1>8 DEF BatchOK, Busy, At, Done
  <1>22. Batches'  BY <1>21 DEF Batches
  <1> QED
    BY <1>7, <1>12, <1>13, <1>14, <1>15, <1>16, <1>17, <1>18, <1>19, <1>20, <1>22 DEF IInv

\* Every step keeps the invariant.
LEMMA StepKeeps == IInv /\ [Next]_vars => IInv'
  <1> SUFFICES ASSUME IInv, [Next]_vars  PROVE IInv'
    OBVIOUS
  <1>1. ASSUME NEW p \in Producers, Produce(p)  PROVE IInv'
    <2>1. CASE LoadProdHead(p)  BY <2>1, LoadProdHeadKeeps
    <2>2. CASE LoadConsTail(p)  BY <2>2, LoadConsTailKeeps
    <2>3. CASE SwapProdHead(p)
      <3>1. CASE prodSingle \/ prodHead = loc[p].old  BY <2>3, <3>1, SwapProdClaims
      <3>2. CASE ~(prodSingle \/ prodHead = loc[p].old)  BY <2>3, <3>2, SwapProdFails
      <3> QED  BY <3>1, <3>2
    <2>4. CASE CopyIn(p)  BY <2>4, CopyInKeeps
    <2>5. CASE UpdateProdTail(p)  BY <2>5, UpdateProdTailKeeps
    <2> QED  BY <1>1, <2>1, <2>2, <2>3, <2>4, <2>5 DEF Produce
  <1>2. ASSUME NEW c \in Consumers, Consume(c)  PROVE IInv'
    <2>1. CASE LoadConsHead(c)  BY <2>1, LoadConsHeadKeeps
    <2>2. CASE LoadProdTail(c)  BY <2>2, LoadProdTailKeeps
    <2>3. CASE SwapConsHead(c)
      <3>1. CASE consSingle \/ consHead = loc[c].old  BY <2>3, <3>1, SwapConsClaims
      <3>2. CASE ~(consSingle \/ consHead = loc[c].old)  BY <2>3, <3>2, LoadConsHeadKeeps
      <3> QED  BY <3>1, <3>2
    <2>4. CASE CopyOut(c)  BY <2>4, CopyOutKeeps
    <2>5. CASE UpdateConsTail(c)  BY <2>5, UpdateConsTailKeeps
    <2> QED  BY <1>2, <2>1, <2>2, <2>3, <2>4, <2>5 DEF Consume
  <1>3. \A n \in 2..MaxBatch : n \in 1..MaxBatch  BY RingAssumption
  <1>4. ASSUME NEW p \in Producers, RING_EnqueueBulk(p) \/ RING_EnqueueBurst(p)
        PROVE  IInv'
    BY <1>3, <1>4, EnqueueKeeps DEF RING_EnqueueBulk, RING_EnqueueBurst
  <1>5. ASSUME NEW c \in Consumers, RING_DequeueBulk(c) \/ RING_DequeueBurst(c)
        PROVE  IInv'
    BY <1>3, <1>5, DequeueKeeps DEF RING_DequeueBulk, RING_DequeueBurst
  <1>6. CASE UNCHANGED vars
    <2>1. /\ prodSingle' = prodSingle /\ consSingle' = consSingle
          /\ prodHead' = prodHead /\ prodTail' = prodTail
          /\ consHead' = consHead /\ consTail' = consTail
          /\ data' = data /\ sent' = sent /\ loc' = loc
          /\ ph' = ph /\ pt' = pt /\ ch' = ch /\ ct' = ct
      BY <1>6 DEF vars, single, index, unwrapped
    <2>2. Wrapped' /\ LocOK' /\ Ordered' /\ Filled'
      BY <2>1 DEF IInv, Wrapped, LocOK, Ordered, Filled
    <2>3. ProdClaims' /\ ProdCounted' /\ ProdAlone'
      BY <2>1 DEF IInv, ProdClaims, ProdCounted, ProdAlone, Busy, At, End
    <2>4. ConsClaims' /\ ConsCounted' /\ ConsAlone' /\ Copied'
      BY <2>1 DEF IInv, ConsClaims, ConsCounted, ConsAlone, Copied, Busy, At, End
    <2>5. ASSUME NEW p \in Producers  PROVE BatchOK(p)'
      <3>1. BatchOK(p)  BY DEF IInv, Batches
      <3> QED  BY <3>1, <2>1 DEF BatchOK, Busy, At, Done
    <2>6. Batches'  BY <2>5 DEF Batches
    <2> QED  BY <2>2, <2>3, <2>4, <2>6 DEF IInv
  <1> QED  BY <1>1, <1>2, <1>4, <1>5, <1>6 DEF Next

\* The invariant holds throughout.
LEMMA Inductive == Spec => []IInv
  BY InitIInv, StepKeeps, PTL DEF Spec

-----------------------------------------------------------------------------
\* Indices, slots and the threads' locals keep their types, for any number of
\* threads, any size of the ring and wherever the indices wrap.
THEOREM RingTypeCorrect == Spec => []TypeOK
  <1>1. IInv => TypeOK
    <2> SUFFICES ASSUME IInv  PROVE TypeOK
      OBVIOUS
    <2>1. \A i \in {prodHead, prodTail, consHead, consTail} : i \in 0..IndexMod-1
      <3>1. ph \in Int /\ pt \in Int /\ ch \in Int /\ ct \in Int  BY DEF IInv, Wrapped
      <3>2. /\ Mod(ph) \in 0..IndexMod-1 /\ Mod(pt) \in 0..IndexMod-1
            /\ Mod(ch) \in 0..IndexMod-1 /\ Mod(ct) \in 0..IndexMod-1
        BY <3>1, ModType
      <3> QED  BY <3>2 DEF IInv, Wrapped
    <2>2. ASSUME NEW t \in Producers \cup Consumers
          PROVE  /\ loc[t].pc \in PCs /\ loc[t].n \in 0..MaxBatch
                 /\ \A i \in DOMAIN loc[t].obj : loc[t].obj[i] \in Object
      <3>1. loc[t] \in LocType  BY <2>2 DEF IInv, LocOK, Threads
      <3>2. loc[t].obj \in Seq(Object)  BY <3>1 DEF LocType
      <3>3. \A i \in DOMAIN loc[t].obj : loc[t].obj[i] \in Object
        BY <3>2, LenProperties, ElementOfSeq
      <3> QED  BY <3>1, <3>3 DEF LocType
    <2> QED  BY <2>1, <2>2 DEF TypeOK, IInv, Wrapped
  <1> QED  BY <1>1, Inductive, PTL

\* Claims of different threads are apart: of one side because each begins
\* where the head was, of the two sides because room and objects are counted
\* from the other side's tail.
LEMMA ClaimsApart ==
  ASSUME IInv, NEW t \in Threads, NEW u \in Threads, t # u, Busy(t), Busy(u)
  PROVE  End(t) <= loc[u].from \/ End(u) <= loc[t].from
  <1>1. CASE t \in Producers /\ u \in Producers  BY <1>1 DEF IInv, ProdClaims
  <1>2. CASE t \in Consumers /\ u \in Consumers  BY <1>2 DEF IInv, ConsClaims
  <1>3. /\ ch \in Int /\ pt \in Int /\ ch <= pt
        /\ loc[t].from \in Int /\ loc[u].from \in Int
        /\ End(t) \in Int /\ End(u) \in Int
    BY RingAssumption DEF IInv, Wrapped, Ordered, LocOK, LocType, End
  <1>4. CASE t \in Producers /\ u \in Consumers
    <2>1. pt <= loc[t].from /\ End(u) <= ch  BY <1>4 DEF IInv, ProdClaims, ConsClaims
    <2> QED  BY <1>3, <2>1
  <1>5. CASE t \in Consumers /\ u \in Producers
    <2>1. pt <= loc[u].from /\ End(t) <= ch  BY <1>5 DEF IInv, ProdClaims, ConsClaims
    <2> QED  BY <1>3, <2>1
  <1> QED  BY <1>1, <1>2, <1>4, <1>5 DEF Threads

\* All that is claimed is within one round of the slots.
LEMMA ClaimWithin ==
  ASSUME IInv, NEW t \in Threads, Busy(t)
  PROVE  ct <= loc[t].from /\ End(t) <= ct + Size
  <1>1. /\ ph \in Int /\ pt \in Int /\ ch \in Int /\ ct \in Int /\ Size \in Int
        /\ ct <= ch /\ ch <= pt /\ pt <= ph /\ ph <= ct + Size
        /\ loc[t].from \in Int /\ End(t) \in Int
    BY RingAssumption DEF IInv, Wrapped, Ordered, LocOK, LocType, End
  <1>2. CASE t \in Producers
    <2>1. pt <= loc[t].from /\ End(t) <= ph  BY <1>2 DEF IInv, ProdClaims
    <2> QED  BY <1>1, <2>1
  <1>3. CASE t \in Consumers
    <2>1. ct <= loc[t].from /\ End(t) <= ch  BY <1>3 DEF IInv, ConsClaims
    <2> QED  BY <1>1, <2>1
  <1> QED  BY <1>2, <1>3 DEF Threads

\* No two threads that are copying share a slot.
THEOREM RingClaimsDisjoint == Spec => []ClaimsDisjoint
  <1>1. IInv => ClaimsDisjoint
    <2> SUFFICES ASSUME IInv, NEW t \in Threads, NEW u \in Threads, t # u,
                        NEW x \in Claimed(t), x \in Claimed(u)
                 PROVE  FALSE
      BY DEF ClaimsDisjoint, Threads
    <2>1. At(t, "copy") /\ At(u, "copy")  BY DEF Claimed
    <2>2. Busy(t) /\ Busy(u)  BY <2>1 DEF Busy
    <2>3. /\ loc[t].from \in Int /\ loc[u].from \in Int /\ ct \in Int /\ Size \in Int
          /\ loc[t].n \in Int /\ loc[u].n \in Int
          /\ loc[t].old = Mod(loc[t].from) /\ loc[u].old = Mod(loc[u].from)
      BY RingAssumption DEF IInv, Wrapped, LocOK, LocType
    <2>4. PICK i \in 0..loc[t].n-1 : x = Slot(loc[t].old + i)  BY <2>1 DEF Claimed
    <2>5. PICK j \in 0..loc[u].n-1 : x = Slot(loc[u].old + j)  BY <2>1 DEF Claimed
    <2>6. PICK a \in Int : a = loc[t].from + i  BY <2>3
    <2>7. PICK b \in Int : b = loc[u].from + j  BY <2>3
    <2>8. x = Slot(a) /\ x = Slot(b)
      <3>1. i \in Int /\ j \in Int  BY <2>3
      <3>2. Slot(Mod(loc[t].from) + i) = Slot(loc[t].from + i)  BY <2>3, <3>1, ModFacts
      <3>3. Slot(Mod(loc[u].from) + j) = Slot(loc[u].from + j)  BY <2>3, <3>1, ModFacts
      <3> QED  BY <3>2, <3>3, <2>3, <2>4, <2>5, <2>6, <2>7
    <2>9. /\ ct <= loc[t].from /\ End(t) <= ct + Size
          /\ ct <= loc[u].from /\ End(u) <= ct + Size
      BY <2>2, ClaimWithin
    <2>10. End(t) <= loc[u].from \/ End(u) <= loc[t].from  BY <2>2, ClaimsApart
    <2>11. a # b /\ a - b < Size /\ b - a < Size
      BY <2>3, <2>6, <2>7, <2>9, <2>10 DEF End
    <2> QED  BY <2>8, <2>11, SlotTells
  <1> QED  BY <1>1, Inductive, PTL

-----------------------------------------------------------------------------
(* The refinement.  A claim becomes visible with the producers' tail (Put), *)
(* is taken with the consumers' head (Take) and handed to the caller with   *)
(* the consumers' tail (Hand); the copying in between changes neither the   *)
(* queue nor what has been taken.                                           *)

\* The queue, by the indices that do not wrap.
QueueOK ==
    /\ Queue \in Seq(Object)
    /\ Len(Queue) = pt - ch
    /\ \A i \in 1..pt-ch : Queue[i] = data[Slot(ch + i - 1)]

\* What a consumer has taken, likewise.
TakenOK ==
    \A c \in Consumers :
        /\ ~Busy(c) => Taken(c) = <<>>
        /\ Busy(c) =>
              /\ Taken(c) \in Seq(Object)
              /\ Len(Taken(c)) = loc[c].n
              /\ \A i \in 1..loc[c].n :
                    Taken(c)[i] = IF i <= Len(loc[c].obj) THEN loc[c].obj[i]
                                  ELSE data[Slot(loc[c].from + i - 1)]

\* The queue has the objects between the consumers' head and the producers'
\* tail.
LEMMA QueueFacts == IInv => QueueOK
  <1> SUFFICES ASSUME IInv  PROVE QueueOK
    OBVIOUS
  <1>1. /\ ph \in Nat /\ pt \in Nat /\ ch \in Nat /\ ct \in Nat
        /\ ct <= ch /\ ch <= pt /\ pt <= ph /\ ph <= ct + Size /\ Size \in Nat
        /\ prodTail = Mod(pt) /\ consHead = Mod(ch)
    BY RingAssumption DEF IInv, Wrapped, Ordered
  <1>2. PICK n \in Nat : n = pt - ch  BY <1>1
  <1>3. Mod(prodTail - consHead) = n
    <2>1. pt - ch \in 0..IndexMod-1  BY <1>1, RingAssumption
    <2> QED  BY <1>1, <1>2, <2>1, Distance
  <1>4. ASSUME NEW i \in 1..n
        PROVE  /\ Slot(consHead + i - 1) = Slot(ch + i - 1)
               /\ data[Slot(ch + i - 1)] \in Object
    <2>1. PICK k \in Int : k = i - 1  OBVIOUS
    <2>2. ch \in Int /\ Mod(ch) \in Int  BY <1>1, ModType
    <2>3. Slot(Mod(ch) + k) = Slot(ch + k)  BY <2>2, ModFacts
    <2>4. Mod(ch) + k = consHead + i - 1 /\ ch + k = ch + i - 1  BY <1>1, <2>1, <2>2
    <2>5. ch + k \in ct..pt-1  BY <1>1, <1>2, <2>1
    <2>6. data[Slot(ch + k)] \in Object  BY <2>5 DEF IInv, Filled
    <2> QED  BY <2>3, <2>4, <2>6
  <1>5. Queue = [i \in 1..n |-> data[Slot(ch + i - 1)]]  BY <1>3, <1>4 DEF Queue
  <1>6. Queue \in [1..n -> Object]  BY <1>4, <1>5
  <1>7. Queue \in Seq(Object) /\ Len(Queue) = n  BY <1>6, SeqOf
  <1> QED  BY <1>2, <1>5, <1>7 DEF QueueOK

\* A consumer has what it copied, and what is left in its claim.
LEMMA TakenFacts == IInv => TakenOK
  <1> SUFFICES ASSUME IInv, NEW c \in Consumers, Busy(c)
               PROVE  /\ Taken(c) \in Seq(Object)
                      /\ Len(Taken(c)) = loc[c].n
                      /\ \A i \in 1..loc[c].n :
                            Taken(c)[i] = IF i <= Len(loc[c].obj) THEN loc[c].obj[i]
                                          ELSE data[Slot(loc[c].from + i - 1)]
    BY DEF TakenOK, Taken, Busy
  <1>1. loc[c] \in LocType /\ loc[c].old = Mod(loc[c].from)  BY DEF IInv, LocOK, Threads
  <1>2. /\ pt \in Int /\ ch \in Int /\ ct \in Int
        /\ loc[c].n \in Nat /\ loc[c].from \in Int /\ loc[c].obj \in Seq(Object)
    BY <1>1, RingAssumption DEF IInv, Wrapped, LocType
  <1>3. ct <= loc[c].from /\ loc[c].from + loc[c].n <= ch /\ ch <= pt
    BY DEF IInv, ConsClaims, Ordered, End
  <1>4. PICK n \in Nat : n = loc[c].n  BY <1>2
  <1>5. PICK f \in Int : f = loc[c].from  BY <1>2
  <1>6. ASSUME NEW i \in 1..n
        PROVE  /\ Slot(loc[c].old + i - 1) = Slot(f + i - 1)
               /\ data[Slot(f + i - 1)] \in Object
    <2>1. PICK k \in Int : k = i - 1  OBVIOUS
    <2>2. Mod(f) \in Int  BY ModType
    <2>3. Slot(Mod(f) + k) = Slot(f + k)  BY ModFacts
    <2>4. Mod(f) + k = loc[c].old + i - 1 /\ f + k = f + i - 1  BY <1>1, <1>5, <2>1, <2>2
    <2>5. f + k \in ct..pt-1
      <3>1. ct <= f /\ f + n <= ch  BY <1>3, <1>4, <1>5
      <3> QED  BY <3>1, <1>2, <1>3, <2>1
    <2>6. data[Slot(f + k)] \in Object  BY <2>5 DEF IInv, Filled
    <2> QED  BY <2>3, <2>4, <2>6
  <1> DEFINE T == [i \in 1..n |-> IF i <= Len(loc[c].obj) THEN loc[c].obj[i]
                                  ELSE data[Slot(f + i - 1)]]
  <1>7. Taken(c) = T  BY <1>4, <1>6 DEF Taken, Busy
  <1>8. ASSUME NEW i \in 1..n, i <= Len(loc[c].obj)  PROVE loc[c].obj[i] \in Object
    <2>1. i \in 1..Len(loc[c].obj)
      <3>1. Len(loc[c].obj) \in Nat  BY <1>2, LenProperties
      <3> QED  BY <3>1, <1>8
    <2> QED  BY <1>2, <2>1, ElementOfSeq
  <1>9. T \in [1..n -> Object]  BY <1>6, <1>8
  <1>10. \A i \in 1..n : T[i] = IF i <= Len(loc[c].obj) THEN loc[c].obj[i]
                                ELSE data[Slot(f + i - 1)]
    OBVIOUS
  <1> HIDE DEF T
  <1>11. T \in Seq(Object) /\ Len(T) = n  BY <1>9, SeqOf
  <1> QED  BY <1>4, <1>5, <1>7, <1>10, <1>11

\* The same of the state after a step.
LEMMA FactsAfter ==
  ASSUME IInv'
  PROVE  QueueOK' /\ TakenOK'
  <1>1. (IInv => QueueOK)' /\ (IInv => TakenOK)'  BY QueueFacts, TakenFacts, PTL
  <1> QED  BY <1>1

\* The ring starts as an empty queue.
LEMMA InitFifo == Init => Abstract!Init
  <1> SUFFICES ASSUME Init  PROVE Abstract!Init
    OBVIOUS
  <1>1. IInv  BY InitIInv
  <1>2. QueueOK /\ TakenOK  BY <1>1, QueueFacts, TakenFacts
  <1>3. pt = ch /\ pt - ch = 0
    <2>1. pt = ch  BY DEF Init
    <2>2. pt \in Int  BY <1>1 DEF IInv, Wrapped
    <2> QED  BY <2>1, <2>2
  <1>4. Queue = <<>>
    <2>1. Queue \in Seq(Object) /\ Len(Queue) = 0  BY <1>2, <1>3 DEF QueueOK
    <2> QED  BY <2>1, EmptySeq
  <1>5. \A c \in Consumers : ~Busy(c)  BY DEF Init, Busy, At, Idle
  <1>6. \A c \in Consumers : Taken(c) = <<>>  BY <1>2, <1>5 DEF TakenOK
  <1>7. sent = [p \in Producers |-> 0]  BY DEF Init
  <1> QED  BY <1>4, <1>6, <1>7 DEF Abstract!Init

\* Steps that leave the indices and slots of the queue alone.
LEMMA Stutters ==
  ASSUME prodTail' = prodTail, consHead' = consHead, data' = data, sent' = sent,
         \A c \in Consumers : Taken(c)' = Taken(c)
  PROVE  UNCHANGED Abstract!vars
  <1>1. Queue' = Queue  BY DEF Queue
  <1> QED  BY <1>1 DEF Abstract!vars

\* A step in a call that has not claimed its slots leaves what others and it
\* itself have taken.
LEMMA TakenSame ==
  ASSUME data' = data, NEW t, \A c \in Consumers : c # t => loc'[c] = loc[c],
         t \in Consumers => ~Busy(t) /\ ~Busy(t)'
  PROVE  \A c \in Consumers : Taken(c)' = Taken(c)
  <1>1. ASSUME NEW c \in Consumers, c # t  PROVE Taken(c)' = Taken(c)
    BY <1>1 DEF Taken, At
  <1>2. ASSUME t \in Consumers  PROVE Taken(t)' = <<>> /\ Taken(t) = <<>>
    BY <1>2 DEF Taken, Busy, At
  <1> QED  BY <1>1, <1>2

\* The steps before a claim, and a swap that fails or is a producer's.
LEMMA QuietStutters ==
  ASSUME IInv, IInv',
         \/ \E p \in Producers :
               \/ \E n \in 1..MaxBatch, fixed \in BOOLEAN : RING_DoEnqueue(p, n, fixed)
               \/ LoadProdHead(p) \/ LoadConsTail(p) \/ SwapProdHead(p)
         \/ \E c \in Consumers :
               \/ \E n \in 1..MaxBatch, fixed \in BOOLEAN : RING_DoDequeue(c, n, fixed)
               \/ LoadConsHead(c) \/ LoadProdTail(c)
               \/ SwapConsHead(c) /\ ~(consSingle \/ consHead = loc[c].old)
         \/ UNCHANGED vars
  PROVE  UNCHANGED Abstract!vars
  <1>1. loc \in [Threads -> LocType] /\ Producers \cap Consumers = {}
    BY RingAssumption DEF IInv, LocOK
  <1>2. ASSUME NEW p \in Producers,
               \/ \E n \in 1..MaxBatch, fixed \in BOOLEAN : RING_DoEnqueue(p, n, fixed)
               \/ LoadProdHead(p) \/ LoadConsTail(p) \/ SwapProdHead(p)
        PROVE  UNCHANGED Abstract!vars
    <2>1. prodTail' = prodTail /\ consHead' = consHead /\ data' = data /\ sent' = sent
      BY <1>2 DEF RING_DoEnqueue, LoadProdHead, LoadConsTail, SwapProdHead, index
    <2>2. \A c \in Consumers : loc'[c] = loc[c]
      BY <1>1, <1>2 DEF RING_DoEnqueue, LoadProdHead, LoadConsTail, SwapProdHead,
                        Decide, Claim, Threads
    <2>3. \A c \in Consumers : Taken(c)' = Taken(c)  BY <2>1, <2>2 DEF Taken, At
    <2> QED  BY <2>1, <2>3, Stutters
  <1>3. ASSUME NEW c \in Consumers,
               \/ \E n \in 1..MaxBatch, fixed \in BOOLEAN : RING_DoDequeue(c, n, fixed)
               \/ LoadConsHead(c) \/ LoadProdTail(c)
               \/ SwapConsHead(c) /\ ~(consSingle \/ consHead = loc[c].old)
        PROVE  UNCHANGED Abstract!vars
    <2>1. prodTail' = prodTail /\ consHead' = consHead /\ data' = data /\ sent' = sent
      BY <1>3 DEF RING_DoDequeue, LoadConsHead, LoadProdTail, SwapConsHead, index
    <2>2. \A d \in Consumers : d # c => loc'[d] = loc[d]
      BY <1>1, <1>3 DEF RING_DoDequeue, LoadConsHead, LoadProdTail, SwapConsHead,
                        Decide, Threads
    <2>3. ~Busy(c)
      BY <1>3 DEF RING_DoDequeue, LoadConsHead, LoadProdTail, SwapConsHead, Busy, At
    <2>4. ~Busy(c)'
      <3>1. c \in Threads /\ loc[c] \in LocType  BY <1>1 DEF Threads
      <3>2. loc'[c].pc \in {"idle", "head", "room", "swap"}
        <4>1. CASE \E n \in 1..MaxBatch, fixed \in BOOLEAN : RING_DoDequeue(c, n, fixed)
          BY <1>1, <3>1, <4>1 DEF RING_DoDequeue, Idle
        <4>2. CASE LoadConsHead(c)  BY <1>1, <3>1, <4>2 DEF LoadConsHead, LocType
        <4>3. CASE LoadProdTail(c)
          <5>1. PICK g : Decide(c, g)  BY <4>3 DEF LoadProdTail
          <5>2. CASE g = 0  BY <1>1, <3>1, <5>1, <5>2 DEF Decide, Idle
          <5>3. CASE g # 0  BY <1>1, <3>1, <5>1, <5>3 DEF Decide, LocType
          <5> QED  BY <5>2, <5>3
        <4>4. CASE SwapConsHead(c) /\ ~(consSingle \/ consHead = loc[c].old)
          <5>1. loc' = [loc EXCEPT ![c].pc = "room", ![c].old = consHead, ![c].from = ch]
            BY <4>4 DEF SwapConsHead
          <5> QED  BY <1>1, <3>1, <5>1 DEF LocType
        <4> QED  BY <1>3, <4>1, <4>2, <4>3, <4>4
      <3> QED  BY <3>2 DEF Busy, At
    <2>5. \A d \in Consumers : Taken(d)' = Taken(d)  BY <2>1, <2>2, <2>3, <2>4, TakenSame
    <2> QED  BY <2>1, <2>5, Stutters
  <1>4. CASE UNCHANGED vars
    <2>1. /\ prodTail' = prodTail /\ consHead' = consHead /\ data' = data /\ sent' = sent
          /\ loc' = loc
      BY <1>4 DEF vars, index
    <2>2. \A c \in Consumers : Taken(c)' = Taken(c)  BY <2>1 DEF Taken, At
    <2> QED  BY <2>1, <2>2, Stutters
  <1> QED  BY <1>2, <1>3, <1>4

\* Copying in writes outside of the queue and of what has been taken.
LEMMA CopyInStutters ==
  ASSUME IInv, IInv', NEW p \in Producers, CopyIn(p)
  PROVE  UNCHANGED Abstract!vars
  <1>1. QueueOK /\ TakenOK /\ QueueOK' /\ TakenOK'  BY QueueFacts, TakenFacts, FactsAfter
  <1>2. /\ p \in Threads /\ loc \in [Threads -> LocType] /\ p \notin Consumers
        /\ loc[p].old = Mod(loc[p].from) /\ Consumers \subseteq Threads
    BY RingAssumption DEF IInv, LocOK, Threads
  <1>3. /\ ph \in Int /\ pt \in Int /\ ch \in Int /\ ct \in Int /\ Size \in Int
        /\ loc[p].n \in Int /\ loc[p].from \in Int
        /\ data \in [0..Size-1 -> Object \cup {Empty}]
    BY <1>2, RingAssumption DEF IInv, Wrapped, LocType
  <1>4. At(p, "copy") /\ Busy(p)  BY DEF CopyIn, Busy
  <1>5. /\ pt <= loc[p].from /\ loc[p].from + loc[p].n <= ph
        /\ ct <= ch /\ ch <= pt /\ pt <= ph /\ ph <= ct + Size
    BY <1>4 DEF IInv, ProdClaims, Ordered, End
  <1>6. PICK d \in Int : d = Done(p) /\ 0 <= d /\ d < loc[p].n
    <2>1. Len(loc[p].obj) \in Nat
      <3>1. loc[p].obj \in Seq(Object)  BY <1>2 DEF LocType
      <3> QED  BY <3>1, LenProperties
    <2>2. Len(loc[p].obj) > 0 /\ Len(loc[p].obj) <= loc[p].n
      BY <1>4 DEF IInv, Batches, BatchOK
    <2> QED  BY <1>3, <2>1, <2>2 DEF Done
  <1>7. PICK e \in Int : e = loc[p].from + d  BY <1>3
  <1>8. pt <= e /\ e < ph  BY <1>3, <1>5, <1>6, <1>7
  <1>9. data' = [data EXCEPT ![Slot(e)] = Head(loc[p].obj)]
    <2>1. Slot(Mod(loc[p].from) + d) = Slot(loc[p].from + d)  BY <1>3, ModFacts
    <2> QED  BY <1>2, <1>6, <1>7, <2>1 DEF CopyIn, Done
  <1>10. ASSUME NEW i \in Int, ct <= i, i < pt  PROVE data'[Slot(i)] = data[Slot(i)]
    <2>1. i - e < Size /\ e - i < Size /\ i # e  BY <1>3, <1>5, <1>8, <1>10
    <2>2. Slot(i) # Slot(e)  BY <2>1, SlotTells
    <2>3. Slot(i) \in 0..Size-1  BY ModType
    <2> QED  BY <1>3, <1>9, <2>2, <2>3
  <1>11. /\ sent' = sent /\ pt' = pt /\ ch' = ch
         /\ \A c \in Consumers : loc'[c] = loc[c]
    BY <1>2 DEF CopyIn, unwrapped
  <1>12. Queue' = Queue
    <2>1. /\ Queue \in Seq(Object) /\ Queue' \in Seq(Object)
          /\ Len(Queue) = pt - ch /\ Len(Queue') = pt - ch
      BY <1>1, <1>11 DEF QueueOK
    <2>2. ASSUME NEW i \in 1..pt-ch  PROVE Queue'[i] = Queue[i]
      <3>1. PICK k \in Int : k = ch + i - 1 /\ ct <= k /\ k < pt  BY <1>3, <1>5
      <3>2. Queue[i] = data[Slot(k)] /\ Queue'[i] = data'[Slot(k)]
        BY <1>1, <1>11, <3>1 DEF QueueOK
      <3> QED  BY <3>1, <3>2, <1>10
    <2> QED  BY <2>1, <2>2, SeqEqual
  <1>13. ASSUME NEW c \in Consumers  PROVE Taken(c)' = Taken(c)
    <2>1. CASE ~Busy(c)
      <3>1. ~Busy(c)'  BY <2>1, <1>11 DEF Busy, At
      <3> QED  BY <2>1, <3>1, <1>1 DEF TakenOK
    <2>2. CASE Busy(c)
      <3>1. Busy(c)'  BY <2>2, <1>11 DEF Busy, At
      <3>2. /\ Taken(c) \in Seq(Object) /\ Taken(c)' \in Seq(Object)
            /\ Len(Taken(c)) = loc[c].n /\ Len(Taken(c)') = loc[c].n
        BY <1>1, <1>11, <2>2, <3>1 DEF TakenOK
      <3>3. /\ loc[c].from \in Int /\ loc[c].n \in Int
            /\ ct <= loc[c].from /\ loc[c].from + loc[c].n <= ch
        BY <1>2, <2>2, RingAssumption DEF LocType, IInv, ConsClaims, End
      <3>4. ASSUME NEW i \in 1..loc[c].n  PROVE Taken(c)'[i] = Taken(c)[i]
        <4>1. PICK k \in Int : k = loc[c].from + i - 1 /\ ct <= k /\ k < pt
          BY <1>3, <1>5, <3>3
        <4>2. data'[Slot(k)] = data[Slot(k)]  BY <4>1, <1>10
        <4>3. Taken(c)[i] = IF i <= Len(loc[c].obj) THEN loc[c].obj[i] ELSE data[Slot(k)]
          BY <1>1, <2>2, <4>1 DEF TakenOK
        <4>4. Taken(c)'[i] = IF i <= Len(loc[c].obj) THEN loc[c].obj[i] ELSE data'[Slot(k)]
          BY <1>1, <1>11, <3>1, <4>1 DEF TakenOK
        <4> QED  BY <4>2, <4>3, <4>4
      <3> QED  BY <3>2, <3>4, SeqEqual
    <2> QED  BY <2>1, <2>2
  <1> QED  BY <1>11, <1>12, <1>13 DEF Abstract!vars

\* Copying out moves an object from its slot to the caller.
LEMMA CopyOutStutters ==
  ASSUME IInv, IInv', NEW c \in Consumers, CopyOut(c)
  PROVE  UNCHANGED Abstract!vars
  <1>1. TakenOK /\ TakenOK'  BY TakenFacts, FactsAfter
  <1>2. /\ c \in Threads /\ loc \in [Threads -> LocType] /\ Consumers \subseteq Threads
        /\ loc[c] \in LocType
    BY DEF IInv, LocOK, Threads
  <1>3. prodTail' = prodTail /\ consHead' = consHead /\ data' = data /\ sent' = sent
    BY DEF CopyOut, index
  <1>4. \A d \in Consumers : d # c => loc'[d] = loc[d]  BY <1>2 DEF CopyOut
  <1>5. ASSUME NEW d \in Consumers, d # c  PROVE Taken(d)' = Taken(d)
    BY <1>3, <1>4, <1>5 DEF Taken, At
  <1> DEFINE s == loc[c].obj
             got == Append(s, data[Slot(loc[c].old + Len(s))])
  <1>6. /\ Len(s) \in 0..loc[c].n-1
        /\ Slot(loc[c].old + Len(s)) = Slot(loc[c].from + Len(s))
        /\ data[Slot(loc[c].from + Len(s))] \in Object
    BY CopyOutReads
  <1>7. PICK k \in Nat : k = Len(s) /\ k < loc[c].n
    <2>1. loc[c].n \in Nat  BY <1>2, RingAssumption DEF LocType
    <2> QED  BY <1>6, <2>1
  <1>8. /\ loc'[c].obj = got /\ loc'[c].n = loc[c].n /\ loc'[c].from = loc[c].from
        /\ loc'[c].pc \in {"tail", "copy"}
    BY <1>2 DEF CopyOut, LocType
  <1>9. /\ Len(got) = k + 1
        /\ \A i \in 1..k : got[i] = s[i]
        /\ got[k + 1] = data[Slot(loc[c].from + k)]
    <2>1. s \in Seq(Object)  BY <1>2 DEF LocType
    <2> QED  BY <1>6, <1>7, <2>1, AppendProperties
  <1> HIDE DEF got
  <1>10. Busy(c) /\ Busy(c)'  BY <1>8 DEF CopyOut, Busy, At
  <1>11. /\ Taken(c) \in Seq(Object) /\ Taken(c)' \in Seq(Object)
         /\ Len(Taken(c)) = loc[c].n /\ Len(Taken(c)') = loc[c].n
    BY <1>1, <1>8, <1>10 DEF TakenOK
  <1>12. ASSUME NEW i \in 1..loc[c].n  PROVE Taken(c)'[i] = Taken(c)[i]
    <2>1. loc[c].n \in Nat /\ loc[c].from \in Nat  BY <1>2, RingAssumption DEF LocType
    <2>2. Taken(c)[i] = IF i <= k THEN s[i] ELSE data[Slot(loc[c].from + i - 1)]
      BY <1>1, <1>7, <1>10 DEF TakenOK
    <2>3. Taken(c)'[i] = IF i <= k + 1 THEN got[i] ELSE data[Slot(loc[c].from + i - 1)]
      BY <1>1, <1>3, <1>8, <1>9, <1>10 DEF TakenOK
    <2>4. CASE i <= k
      <3>1. i \in 1..k /\ i <= k + 1  BY <2>1, <2>4
      <3> QED  BY <3>1, <2>2, <2>3, <2>4, <1>9
    <2>5. CASE i = k + 1
      <3>1. loc[c].from + i - 1 = loc[c].from + k /\ ~(i <= k) /\ i <= k + 1  BY <2>1, <2>5
      <3> QED  BY <3>1, <2>2, <2>3, <2>5, <1>9
    <2>6. CASE i > k + 1
      <3>1. ~(i <= k) /\ ~(i <= k + 1)  BY <2>1, <2>6
      <3> QED  BY <3>1, <2>2, <2>3
    <2> QED  BY <2>1, <2>4, <2>5, <2>6
  <1>13. Taken(c)' = Taken(c)  BY <1>11, <1>12, SeqEqual
  <1> QED  BY <1>3, <1>5, <1>13, Stutters

\* Publishing a claim appends the producer's next objects to the queue.
LEMMA UpdateProdTailPuts ==
  ASSUME IInv, IInv', NEW p \in Producers, UpdateProdTail(p)
  PROVE  \E n \in 1..Size : Abstract!Put(p, n)
  <1>1. QueueOK /\ QueueOK'  BY QueueFacts, FactsAfter
  <1>2. /\ p \in Threads /\ loc \in [Threads -> LocType] /\ p \notin Consumers
        /\ Consumers \subseteq Threads
    BY RingAssumption DEF IInv, LocOK, Threads
  <1>3. At(p, "tail") /\ Busy(p) /\ loc[p].from = pt
    BY ProdTurnIsFirst DEF UpdateProdTail, Busy
  <1>4. /\ ph \in Int /\ pt \in Int /\ ch \in Int /\ ct \in Int /\ Size \in Int
        /\ loc[p].n \in Nat /\ sent[p] \in Nat
    BY <1>2, RingAssumption DEF IInv, Wrapped, LocType
  <1>5. PICK n \in Nat : n = loc[p].n  BY <1>4
  <1>6. /\ n > 0 /\ pt + n <= ph
        /\ ct <= ch /\ ch <= pt /\ pt <= ph /\ ph <= ct + Size
    BY <1>3, <1>5 DEF IInv, ProdClaims, Ordered, End
  <1>7. ASSUME NEW i \in 0..n-1  PROVE data[Slot(pt + i)] = <<p, sent[p] + i + 1>>
    <2>1. Len(loc[p].obj) = 0 /\ \A j \in 0..Done(p)-1 :
             data[Slot(loc[p].from + j)] = <<p, sent[p] + j + 1>>
      BY <1>3 DEF IInv, Batches, BatchOK
    <2>2. Done(p) = n  BY <1>5, <2>1 DEF Done
    <2> QED  BY <1>3, <2>1, <2>2
  <1>8. /\ pt' = pt + n /\ ch' = ch /\ data' = data
        /\ sent' = [sent EXCEPT ![p] = @ + n]
        /\ \A c \in Consumers : loc'[c] = loc[c]
    BY <1>2, <1>3, <1>5 DEF UpdateProdTail
  <1>9. \A c \in Consumers : Taken(c)' = Taken(c)  BY <1>8 DEF Taken, At
  <1> DEFINE B == [i \in 1..n |-> <<p, sent[p] + i>>]
  <1>10. B \in Seq(Object) /\ Len(B) = n /\ \A i \in 1..n : B[i] = <<p, sent[p] + i>>
    <2>1. \A i \in 1..n : <<p, sent[p] + i>> \in Object  BY <1>4 DEF Object
    <2>2. B \in [1..n -> Object]  BY <2>1
    <2>3. \A i \in 1..n : B[i] = <<p, sent[p] + i>>  OBVIOUS
    <2> HIDE DEF B
    <2> QED  BY <2>2, <2>3, SeqOf
  <1>11. Abstract!Batch(p, n) = B  BY DEF Abstract!Batch
  <1> HIDE DEF B
  <1>12. PICK m \in Nat : m = pt - ch  BY <1>4, <1>6
  <1>13. /\ Queue \in Seq(Object) /\ Queue' \in Seq(Object)
         /\ Len(Queue) = m /\ Len(Queue') = m + n
         /\ \A i \in 1..m : Queue[i] = data[Slot(ch + i - 1)]
         /\ \A i \in 1..m+n : Queue'[i] = data[Slot(ch + i - 1)]
    <2>1. pt' - ch' = m + n  BY <1>4, <1>8, <1>12
    <2> QED  BY <1>1, <1>8, <1>12, <2>1 DEF QueueOK
  <1>14. /\ Queue \o B \in Seq(Object) /\ Len(Queue \o B) = m + n
         /\ \A i \in 1..m+n : (Queue \o B)[i] = IF i <= m THEN Queue[i] ELSE B[i - m]
    BY <1>10, <1>13, ConcatProperties
  <1>15. ASSUME NEW i \in 1..m+n  PROVE Queue'[i] = (Queue \o B)[i]
    <2>1. CASE i <= m
      <3>1. i \in 1..m  BY <2>1
      <3> QED  BY <3>1, <2>1, <1>13, <1>14
    <2>2. CASE ~(i <= m)
      <3>1. PICK j \in 0..n-1 : j = i - m - 1  BY <2>2
      <3>2. i - m \in 1..n /\ i - m = j + 1 /\ ch + i - 1 = pt + j  BY <2>2, <3>1, <1>4, <1>12
      <3>3. B[i - m] = <<p, sent[p] + (j + 1)>>  BY <3>2, <1>10
      <3>4. Queue'[i] = <<p, sent[p] + j + 1>>  BY <3>2, <1>7, <1>13
      <3>5. sent[p] + (j + 1) = sent[p] + j + 1
        <4>1. sent[p] \in Int /\ j \in Int  BY <1>4
        <4> QED  BY <4>1
      <3> QED  BY <2>2, <3>3, <3>4, <3>5, <1>14
    <2> QED  BY <2>1, <2>2
  <1>16. Queue' = Queue \o B  BY <1>13, <1>14, <1>15, SeqEqual
  <1>17. n \in 1..Size /\ Len(Queue) + n <= Size  BY <1>4, <1>6, <1>12, <1>13
  <1>18. Abstract!Put(p, n)
    BY <1>8, <1>9, <1>11, <1>16, <1>17 DEF Abstract!Put
  <1> QED  BY <1>17, <1>18

\* Claiming objects takes them off the head of the queue.
LEMMA SwapConsHeadTakes ==
  ASSUME IInv, IInv', NEW c \in Consumers, SwapConsHead(c),
         consSingle \/ consHead = loc[c].old
  PROVE  \E n \in 1..Size : Abstract!Take(c, n)
  <1>1. QueueOK /\ QueueOK' /\ TakenOK /\ TakenOK'  BY QueueFacts, TakenFacts, FactsAfter
  <1>2. /\ c \in Threads /\ loc \in [Threads -> LocType] /\ Consumers \subseteq Threads
        /\ loc[c] \in LocType
    BY DEF IInv, LocOK, Threads
  <1>3. At(c, "swap") /\ ~Busy(c) /\ loc[c].from = ch
    BY SwapConsAtHead DEF SwapConsHead, Busy, At
  <1>4. /\ ph \in Int /\ pt \in Int /\ ch \in Int /\ ct \in Int /\ Size \in Int
        /\ loc[c].n \in Nat
    BY <1>2, RingAssumption DEF IInv, Wrapped, LocType
  <1>5. PICK n \in Nat : n = loc[c].n  BY <1>4
  <1>6. /\ n > 0 /\ ch + n <= pt
        /\ ct <= ch /\ ch <= pt /\ pt <= ph /\ ph <= ct + Size
    BY <1>3, <1>5 DEF IInv, ConsCounted, Ordered, End
  <1>7. /\ pt' = pt /\ ch' = ch + n /\ data' = data /\ sent' = sent
        /\ \A d \in Consumers : d # c => loc'[d] = loc[d]
    BY <1>2, <1>3, <1>5 DEF SwapConsHead, Claim
  <1>8. /\ loc'[c].pc = "copy" /\ loc'[c].n = n /\ loc'[c].from = ch /\ loc'[c].obj = <<>>
    BY <1>2, <1>3, <1>5 DEF SwapConsHead, Claim, LocType
  <1>9. ASSUME NEW d \in Consumers, d # c  PROVE Taken(d)' = Taken(d)
    BY <1>7, <1>9 DEF Taken, At
  <1>10. Taken(c) = <<>>  BY <1>1, <1>3 DEF TakenOK
  <1>11. PICK m \in Nat : m = pt - ch  BY <1>4, <1>6
  <1>12. n \in 1..Size /\ n <= m  BY <1>4, <1>6, <1>11
  <1>13. PICK k \in Nat : k = m - n  BY <1>12
  <1>14. /\ Queue \in Seq(Object) /\ Queue' \in Seq(Object)
         /\ Len(Queue) = m /\ Len(Queue') = k
         /\ \A i \in 1..m : Queue[i] = data[Slot(ch + i - 1)]
         /\ \A i \in 1..k : Queue'[i] = data[Slot(ch + n + i - 1)]
    <2>1. pt' - ch' = k  BY <1>4, <1>7, <1>11, <1>13
    <2> QED  BY <1>1, <1>7, <1>11, <2>1 DEF QueueOK
  <1>15. \A i \in 1..m : Queue[i] \in Object  BY <1>14, ElementOfSeq
  <1>16. Taken(c)' = SubSeq(Queue, 1, n)
    <2>1. Busy(c)'  BY <1>8 DEF Busy, At
    <2>2. Len(<<>>) = 0  BY EmptySeq
    <2>3. /\ Taken(c)' \in Seq(Object) /\ Len(Taken(c)') = n
          /\ \A i \in 1..n : Taken(c)'[i] = data[Slot(ch + i - 1)]
      <3>1. \A i \in 1..n : ~(i <= Len(<<>>))  BY <2>2
      <3> QED  BY <1>1, <1>7, <1>8, <2>1, <3>1 DEF TakenOK
    <2>4. \A i \in 1..n : i \in 1..m  BY <1>12
    <2>5. /\ SubSeq(Queue, 1, n) \in Seq(Object) /\ Len(SubSeq(Queue, 1, n)) = n
          /\ \A i \in 1..n : SubSeq(Queue, 1, n)[i] = Queue[i]
      BY <1>6, <1>15, <2>4, SubSeqProperties
    <2>6. \A i \in 1..n : Taken(c)'[i] = SubSeq(Queue, 1, n)[i]
      BY <2>3, <2>4, <2>5, <1>14
    <2> QED  BY <2>3, <2>5, <2>6, SeqEqual
  <1>17. Queue' = SubSeq(Queue, n + 1, Len(Queue))
    <2> DEFINE S == SubSeq(Queue, n + 1, m)
    <2>1. \A i \in n+1..m : Queue[i] \in Object  BY <1>12, <1>15
    <2>2. /\ S \in Seq(Object) /\ Len(S) = IF n + 1 <= m THEN m - (n + 1) + 1 ELSE 0
          /\ \A i \in 1..m-(n+1)+1 : S[i] = Queue[n + 1 + i - 1]
      BY <2>1, SubSeqProperties
    <2> HIDE DEF S
    <2>3. Len(S) = k /\ m - (n + 1) + 1 = k  BY <2>2, <1>12, <1>13
    <2>4. ASSUME NEW i \in 1..k  PROVE Queue'[i] = S[i]
      <3>1. S[i] = Queue[n + 1 + i - 1]  BY <2>2, <2>3
      <3>2. PICK j \in 1..m : j = n + 1 + i - 1 /\ ch + j - 1 = ch + n + i - 1
        BY <1>4, <1>12, <1>13
      <3> QED  BY <3>1, <3>2, <1>14
    <2>5. Queue' = S  BY <1>14, <2>2, <2>3, <2>4, SeqEqual
    <2> QED  BY <2>5, <1>14 DEF S
  <1>18. Abstract!Take(c, n)
    BY <1>7, <1>9, <1>10, <1>12, <1>14, <1>16, <1>17 DEF Abstract!Take
  <1> QED  BY <1>12, <1>18

\* The end of a dequeue hands over what was taken.
LEMMA UpdateConsTailHands ==
  ASSUME IInv, NEW c \in Consumers, UpdateConsTail(c)
  PROVE  Abstract!Hand(c)
  <1>1. TakenOK  BY TakenFacts
  <1>2. c \in Threads /\ loc \in [Threads -> LocType] /\ Consumers \subseteq Threads
    BY DEF IInv, LocOK, Threads
  <1>3. Busy(c)  BY DEF UpdateConsTail, Busy
  <1>4. Taken(c) # <<>>
    <2>1. Len(Taken(c)) = loc[c].n /\ loc[c].n > 0 /\ loc[c].n \in Nat
      BY <1>1, <1>2, <1>3, RingAssumption DEF TakenOK, IInv, ConsClaims, LocType
    <2>2. Len(<<>>) = 0  BY EmptySeq
    <2> QED  BY <2>1, <2>2
  <1>5. /\ prodTail' = prodTail /\ consHead' = consHead /\ data' = data /\ sent' = sent
        /\ loc'[c] = Idle /\ \A d \in Consumers : d # c => loc'[d] = loc[d]
    BY <1>2 DEF UpdateConsTail
  <1>6. Taken(c)' = <<>>  BY <1>5 DEF Taken, At, Idle
  <1>7. ASSUME NEW d \in Consumers, d # c  PROVE Taken(d)' = Taken(d)
    BY <1>5, <1>7 DEF Taken, At
  <1>8. Queue' = Queue  BY <1>5 DEF Queue
  <1> QED  BY <1>4, <1>5, <1>6, <1>7, <1>8 DEF Abstract!Hand

\* Every step of the ring is one of the queue, or none.
LEMMA StepFifo ==
  ASSUME IInv, IInv', [Next]_vars
  PROVE  [Abstract!Next]_(Abstract!vars)
  <1>1. ASSUME NEW p \in Producers, Produce(p)
        PROVE  UNCHANGED Abstract!vars \/ Abstract!Next
    <2>1. CASE LoadProdHead(p) \/ LoadConsTail(p) \/ SwapProdHead(p)
      BY <2>1, QuietStutters
    <2>2. CASE CopyIn(p)  BY <2>2, CopyInStutters
    <2>3. CASE UpdateProdTail(p)
      <3>1. \E n \in 1..Size : Abstract!Put(p, n)  BY <2>3, UpdateProdTailPuts
      <3> QED  BY <3>1 DEF Abstract!Next
    <2> QED  BY <1>1, <2>1, <2>2, <2>3 DEF Produce
  <1>2. ASSUME NEW c \in Consumers, Consume(c)
        PROVE  UNCHANGED Abstract!vars \/ Abstract!Next
    <2>1. CASE LoadConsHead(c) \/ LoadProdTail(c)  BY <2>1, QuietStutters
    <2>2. CASE SwapConsHead(c) /\ ~(consSingle \/ consHead = loc[c].old)
      BY <2>2, QuietStutters
    <2>3. CASE SwapConsHead(c) /\ (consSingle \/ consHead = loc[c].old)
      <3>1. \E n \in 1..Size : Abstract!Take(c, n)  BY <2>3, SwapConsHeadTakes
      <3> QED  BY <3>1 DEF Abstract!Next
    <2>4. CASE CopyOut(c)  BY <2>4, CopyOutStutters
    <2>5. CASE UpdateConsTail(c)
      <3>1. Abstract!Hand(c)  BY <2>5, UpdateConsTailHands
      <3> QED  BY <3>1 DEF Abstract!Next
    <2> QED  BY <1>2, <2>1, <2>2, <2>3, <2>4, <2>5 DEF Consume
  <1>3. \A n \in 2..MaxBatch : n \in 1..MaxBatch  BY RingAssumption
  <1>4. ASSUME NEW p \in Producers, RING_EnqueueBulk(p) \/ RING_EnqueueBurst(p)
        PROVE  UNCHANGED Abstract!vars
    <2>1. \E n \in 1..MaxBatch, fixed \in BOOLEAN : RING_DoEnqueue(p, n, fixed)
      BY <1>3, <1>4 DEF RING_EnqueueBulk, RING_EnqueueBurst
    <2> QED  BY <2>1, QuietStutters
  <1>5. ASSUME NEW c \in Consumers, RING_DequeueBulk(c) \/ RING_DequeueBurst(c)
        PROVE  UNCHANGED Abstract!vars
    <2>1. \E n \in 1..MaxBatch, fixed \in BOOLEAN : RING_DoDequeue(c, n, fixed)
      BY <1>3, <1>5 DEF RING_DequeueBulk, RING_DequeueBurst
    <2> QED  BY <2>1, QuietStutters
  <1>6. CASE UNCHANGED vars  BY <1>6, QuietStutters
  <1> QED  BY <1>1, <1>2, <1>4, <1>5, <1>6 DEF Next

\* The ring implements the bounded queue of Fifo: whatever the number of
\* threads on either side, the size of the ring and the place where the
\* indices wrap, nothing is lost, duplicated, reordered or overwritten.
THEOREM RingIsFifo == Spec => IsFifo
  <1>1. Init => Abstract!Init  BY InitFifo
  <1>2. IInv /\ IInv' /\ [Next]_vars => [Abstract!Next]_(Abstract!vars)
    BY StepFifo
  <1> QED  BY <1>1, <1>2, Inductive, PTL DEF Spec, IsFifo, Abstract!Spec

=============================================================================
