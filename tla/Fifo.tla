-------------------------------- MODULE Fifo --------------------------------
(***************************************************************************)
(* What the ring promises: a bounded first-in first-out queue.  A producer *)
(* appends the next few of its objects in one go, a consumer takes the     *)
(* first few in one go, and what it took does not change under it.         *)
(***************************************************************************)
EXTENDS Naturals, Sequences

CONSTANTS Producers, Consumers, Capacity

VARIABLES q,       \* the objects in the queue, oldest first
          sent,    \* how many objects each producer has enqueued
          taken    \* what each consumer's dequeue in progress has taken

vars == <<q, sent, taken>>

\* The next n objects of producer p: object k of p is <<p, k>>.
Batch(p, n) == [i \in 1..n |-> <<p, sent[p] + i>>]

Init ==
    /\ q = <<>>
    /\ sent = [p \in Producers |-> 0]
    /\ taken = [c \in Consumers |-> <<>>]

Put(p, n) ==
    /\ Len(q) + n <= Capacity
    /\ q' = q \o Batch(p, n)
    /\ sent' = [sent EXCEPT ![p] = @ + n]
    /\ UNCHANGED taken

Take(c, n) ==
    /\ taken[c] = <<>>
    /\ n <= Len(q)
    /\ taken' = [taken EXCEPT ![c] = SubSeq(q, 1, n)]
    /\ q' = SubSeq(q, n + 1, Len(q))
    /\ UNCHANGED sent

Hand(c) ==
    /\ taken[c] # <<>>
    /\ taken' = [taken EXCEPT ![c] = <<>>]
    /\ UNCHANGED <<q, sent>>

Next ==
    \/ \E n \in 1..Capacity : \/ \E p \in Producers : Put(p, n)
                              \/ \E c \in Consumers : Take(c, n)
    \/ \E c \in Consumers : Hand(c)

Spec == Init /\ [][Next]_vars
=============================================================================
