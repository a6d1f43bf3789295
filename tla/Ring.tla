-------------------------------- MODULE Ring --------------------------------
(***************************************************************************)
(* RING_S (src/h/utl/ring_utl.h), the lock-free queue with bulk and burst  *)
(* operations.  Every load, compare-and-swap, copy of one slot and store   *)
(* of a tail is a step; memory is taken to be sequentially consistent,     *)
(* which the barriers and the acquire/release accesses are there for.      *)
(*                                                                         *)
(* The four indices are UINTs that run on and wrap: IndexMod stands for    *)
(* 2^32, and a run starts at any index an idle ring can have.  A side of   *)
(* the ring that was created single may have several threads too, as long  *)
(* as only one of them is in a call at a time.                             *)
(*                                                                         *)
(* A compare-and-swap cannot tell an index from the same one a whole round *)
(* of IndexMod later.  That no thread is held up for so long between its   *)
(* load and its swap is an assumption (Fresh); for it, and for the proofs, *)
(* ph, pt, ch and ct keep the indices as they were without the wrap.       *)
(***************************************************************************)
EXTENDS Integers, Sequences, FiniteSetsExt

CONSTANTS Producers, Consumers,   \* the threads
          Size,                   \* size = capacity = mask + 1, a power of two
          IndexMod,               \* 2^32 in the code
          MaxBatch,               \* the most objects one call asks for
          MaxSent,                \* objects enqueued in all
          Starts,                 \* indices the ring may start at
          Empty                   \* what a slot holds before it is written

ASSUME RingAssumption ==
    /\ Size \in Nat /\ Size > 0
    /\ IndexMod \in Nat /\ IndexMod > Size /\ IndexMod % Size = 0
    /\ Producers \cap Consumers = {}
    /\ MaxBatch \in Nat /\ MaxSent \in Nat
    /\ Starts \subseteq 0..IndexMod-1

VARIABLES prodSingle, consSingle,   \* prod.single, cons.single
          prodHead, prodTail, consHead, consTail,
          data,      \* the slots
          sent,      \* objects each producer has enqueued
          loc,       \* each thread's place in its call, and its locals
          ph, pt, ch, ct  \* history: prodHead, prodTail, consHead and
                          \* consTail, had they never wrapped

index == <<prodHead, prodTail, consHead, consTail>>
single == <<prodSingle, consSingle>>
unwrapped == <<ph, pt, ch, ct>>
vars == <<single, index, data, sent, loc, unwrapped>>

\* from is old, had it never wrapped.
Idle == [pc |-> "idle", max |-> 0, fixed |-> TRUE, old |-> 0, from |-> 0,
         n |-> 0, obj |-> <<>>]

\* RING_Init leaves every index at 0; an idle ring in use has any other.
Init ==
    /\ prodSingle \in BOOLEAN /\ consSingle \in BOOLEAN
    /\ \E s \in Starts : /\ prodHead = s /\ prodTail = s
                         /\ consHead = s /\ consTail = s
                         /\ ph = s /\ pt = s /\ ch = s /\ ct = s
    /\ data = [i \in 0..Size-1 |-> Empty]
    /\ sent = [p \in Producers |-> 0]
    /\ loc = [t \in Producers \cup Consumers |-> Idle]

-----------------------------------------------------------------------------
Mod(i) == i % IndexMod
Slot(i) == i % Size
At(t, pc) == loc[t].pc = pc

\* How many a call gets: all it asked for, or, when there is less, none for
\* a bulk call and what there is for a burst.
Granted(t, room) ==
    IF loc[t].max <= room THEN loc[t].max
    ELSE IF loc[t].fixed THEN 0 ELSE room

\* Leaving the call with nothing, or going on to the compare-and-swap.
Decide(t, n) ==
    loc' = [loc EXCEPT ![t] = IF n = 0 THEN Idle ELSE [@ EXCEPT !.pc = "swap", !.n = n]]

\* The slots from old on are claimed; what was asked for no longer matters.
Claim(t, obj) ==
    loc' = [loc EXCEPT ![t] = [@ EXCEPT !.pc = "copy", !.max = loc[t].n,
                                        !.fixed = TRUE, !.obj = obj]]

\* The index has not come round since the thread loaded it.
Fresh(t, head) == head - loc[t].from < IndexMod

-----------------------------------------------------------------------------
(* RING_DoEnqueue. *)

\* Objects enqueued, and asked for in calls in progress.
Offered == MapThenSumSet(LAMBDA p : sent[p] + loc[p].max, Producers)

RING_DoEnqueue(p, n, fixed) ==
    /\ At(p, "idle")
    /\ prodSingle => \A q \in Producers : At(q, "idle")
    /\ Offered + n <= MaxSent
    /\ loc' = [loc EXCEPT ![p] = [Idle EXCEPT
                  !.pc = "head", !.max = n, !.fixed = fixed,
                  !.obj = [i \in 1..n |-> <<p, sent[p] + i>>]]]
    /\ UNCHANGED <<single, index, unwrapped, data, sent>>

LoadProdHead(p) ==
    /\ At(p, "head")
    /\ loc' = [loc EXCEPT ![p].pc = "room", ![p].old = prodHead, ![p].from = ph]
    /\ UNCHANGED <<single, index, unwrapped, data, sent>>

\* Slip: room is counted up to where consumers have claimed, not finished.
FreeEntriesEarly(p) == Mod(Size + consHead - loc[p].old)

FreeEntries(p) == Mod(Size + consTail - loc[p].old)

LoadConsTail(p) ==
    /\ At(p, "room")
    /\ Decide(p, Granted(p, FreeEntries(p)))
    /\ UNCHANGED <<single, index, unwrapped, data, sent>>

SwapProdHead(p) ==
    /\ At(p, "swap")
    /\ Fresh(p, ph)
    /\ IF prodSingle \/ prodHead = loc[p].old
       THEN /\ prodHead' = Mod(loc[p].old + loc[p].n)
            /\ ph' = loc[p].from + loc[p].n
            /\ Claim(p, SubSeq(loc[p].obj, 1, loc[p].n))
       ELSE /\ loc' = [loc EXCEPT ![p].pc = "head"]
            /\ UNCHANGED <<prodHead, ph>>
    /\ UNCHANGED <<single, prodTail, consHead, consTail, pt, ch, ct, data, sent>>

\* RING_ENQUEUE_PTRS, one slot at a time: obj is what is left to copy.
CopyIn(p) ==
    /\ At(p, "copy")
    /\ LET done == loc[p].n - Len(loc[p].obj)
           rest == Tail(loc[p].obj)
       IN  /\ data' = [data EXCEPT ![Slot(loc[p].old + done)] = Head(loc[p].obj)]
           /\ loc' = [loc EXCEPT ![p].obj = rest,
                                 ![p].pc = IF rest = <<>> THEN "tail" ELSE "copy"]
    /\ UNCHANGED <<single, index, unwrapped, sent>>

\* Slip: a producer publishes without waiting for those before it.
ProdTurnAny(p) == TRUE

\* Slip: the producer waits on the consumers' tail.
ProdTurnOther(p) == prodSingle \/ consTail = loc[p].old

\* RING_UpdateTail waits until every earlier claim has been published.
ProdTurn(p) == prodSingle \/ prodTail = loc[p].old

UpdateProdTail(p) ==
    /\ At(p, "tail")
    /\ ProdTurn(p)
    /\ prodTail' = Mod(loc[p].old + loc[p].n)
    /\ pt' = loc[p].from + loc[p].n
    /\ sent' = [sent EXCEPT ![p] = @ + loc[p].n]
    /\ loc' = [loc EXCEPT ![p] = Idle]
    /\ UNCHANGED <<single, prodHead, consHead, consTail, ph, ch, ct, data>>

-----------------------------------------------------------------------------
(* RING_DoDequeue. *)

RING_DoDequeue(c, n, fixed) ==
    /\ At(c, "idle")
    /\ consSingle => \A d \in Consumers : At(d, "idle")
    /\ loc' = [loc EXCEPT ![c] = [Idle EXCEPT
                  !.pc = "head", !.max = n, !.fixed = fixed]]
    /\ UNCHANGED <<single, index, unwrapped, data, sent>>

LoadConsHead(c) ==
    /\ At(c, "head")
    /\ loc' = [loc EXCEPT ![c].pc = "room", ![c].old = consHead, ![c].from = ch]
    /\ UNCHANGED <<single, index, unwrapped, data, sent>>

\* Slip: everything producers have claimed is offered, copied or not.
EntriesEarly(c) == Mod(prodHead - loc[c].old)

Entries(c) == Mod(prodTail - loc[c].old)

LoadProdTail(c) ==
    /\ At(c, "room")
    /\ Decide(c, Granted(c, Entries(c)))
    /\ UNCHANGED <<single, index, unwrapped, data, sent>>

\* A failed swap leaves the value it found in old_head and tries again.
SwapConsHead(c) ==
    /\ At(c, "swap")
    /\ Fresh(c, ch)
    /\ IF consSingle \/ consHead = loc[c].old
       THEN /\ consHead' = Mod(loc[c].old + loc[c].n)
            /\ ch' = loc[c].from + loc[c].n
            /\ Claim(c, <<>>)
       ELSE /\ loc' = [loc EXCEPT ![c].pc = "room", ![c].old = consHead, ![c].from = ch]
            /\ UNCHANGED <<consHead, ch>>
    /\ UNCHANGED <<single, prodHead, prodTail, consTail, ph, pt, ct, data, sent>>

\* RING_DEQUEUE_PTRS, one slot at a time: obj is what has been copied.
CopyOut(c) ==
    /\ At(c, "copy")
    /\ LET got == Append(loc[c].obj, data[Slot(loc[c].old + Len(loc[c].obj))])
       IN  loc' = [loc EXCEPT ![c].obj = got,
                              ![c].pc = IF Len(got) = loc[c].n THEN "tail" ELSE "copy"]
    /\ UNCHANGED <<single, index, unwrapped, data, sent>>

ConsTurn(c) == consSingle \/ consTail = loc[c].old

UpdateConsTail(c) ==
    /\ At(c, "tail")
    /\ ConsTurn(c)
    /\ consTail' = Mod(loc[c].old + loc[c].n)
    /\ ct' = loc[c].from + loc[c].n
    /\ loc' = [loc EXCEPT ![c] = Idle]
    /\ UNCHANGED <<single, prodHead, prodTail, consHead, ph, pt, ch, data, sent>>

-----------------------------------------------------------------------------
Produce(p) == \/ LoadProdHead(p) \/ LoadConsTail(p) \/ SwapProdHead(p)
              \/ CopyIn(p) \/ UpdateProdTail(p)

Consume(c) == \/ LoadConsHead(c) \/ LoadProdTail(c) \/ SwapConsHead(c)
              \/ CopyOut(c) \/ UpdateConsTail(c)

\* The calls: bulk ones, of one object or of n, and bursts; a burst of one
\* object and a bulk call of one do the same.
RING_EnqueueBulk(p) == \E n \in 1..MaxBatch : RING_DoEnqueue(p, n, TRUE)
RING_EnqueueBurst(p) == \E n \in 2..MaxBatch : RING_DoEnqueue(p, n, FALSE)

RING_DequeueBulk(c) == \E n \in 1..MaxBatch : RING_DoDequeue(c, n, TRUE)
RING_DequeueBurst(c) == \E n \in 2..MaxBatch : RING_DoDequeue(c, n, FALSE)

Next ==
    \/ \E p \in Producers : Produce(p) \/ RING_EnqueueBulk(p) \/ RING_EnqueueBurst(p)
    \/ \E c \in Consumers : Consume(c) \/ RING_DequeueBulk(c) \/ RING_DequeueBurst(c)

Spec == Init /\ [][Next]_vars

\* A thread inside a call keeps running; nobody has to make another call.
FairSpec ==
    /\ Spec
    /\ \A p \in Producers : WF_vars(Produce(p))
    /\ \A c \in Consumers : WF_vars(Consume(c))

-----------------------------------------------------------------------------
(* Properties. *)

Object == Producers \X Nat
PCs == {"idle", "head", "room", "swap", "copy", "tail"}

\* Every index, slot and local keeps its type.
TypeOK ==
    /\ prodSingle \in BOOLEAN /\ consSingle \in BOOLEAN
    /\ \A i \in {prodHead, prodTail, consHead, consTail} : i \in 0..IndexMod-1
    /\ data \in [0..Size-1 -> Object \cup {Empty}]
    /\ sent \in [Producers -> Nat]
    /\ \A t \in Producers \cup Consumers :
          /\ loc[t].pc \in PCs
          /\ loc[t].n \in 0..MaxBatch
          /\ \A i \in DOMAIN loc[t].obj : loc[t].obj[i] \in Object

\* The objects a thread has claimed, as slots, while it is copying.
Claimed(t) ==
    IF At(t, "copy") THEN {Slot(loc[t].old + i) : i \in 0..loc[t].n-1} ELSE {}

\* The claims of threads that are copying never share a slot: no two threads
\* write one slot, and none writes a slot another still reads.
ClaimsDisjoint ==
    \A t, u \in Producers \cup Consumers : t # u => Claimed(t) \cap Claimed(u) = {}

\* What is visible to consumers, and what a consumer has taken: copied out
\* already, or still in its slots.
Queue == [i \in 1..Mod(prodTail - consHead) |-> data[Slot(consHead + i - 1)]]

Taken(c) ==
    IF ~(At(c, "copy") \/ At(c, "tail")) THEN <<>>
    ELSE [i \in 1..loc[c].n |->
             IF i <= Len(loc[c].obj) THEN loc[c].obj[i]
                                     ELSE data[Slot(loc[c].old + i - 1)]]

Abstract == INSTANCE Fifo WITH
    Capacity <- Size, q <- Queue, taken <- [c \in Consumers |-> Taken(c)]

\* The ring implements the bounded queue: nothing is lost, duplicated,
\* reordered or overwritten, whatever the interleaving of the threads'
\* loads, swaps and copies and wherever the indices wrap.
IsFifo == Abstract!Spec

\* A thread that has claimed its slots finishes its call: the wait for its
\* turn in RING_UpdateTail is never circular.
ClaimFinishes ==
    \A t \in Producers \cup Consumers : (At(t, "copy") \/ At(t, "tail")) ~> At(t, "idle")
=============================================================================
