-------------------------------- MODULE Rcu --------------------------------
(***************************************************************************)
(* RCU_S (src/src/lib/util/rcu/rcu_utl.c), the two-phase read-copy-update  *)
(* object the virtual-network server keeps its MAC and session tables      *)
(* under.  Every field of RCU_S is touched only under its spin lock, so    *)
(* the locked part of each call is one step.  The callbacks run after the  *)
(* lock is released: the nodes a thread has taken and still has to free    *)
(* are its todo set, and each free is a step of its own.                   *)
(*                                                                         *)
(* The protected structure is the client's: a node is linked (a reader     *)
(* inside a section can find it), unlinked by a writer, handed to          *)
(* RCU_Call, and at last freed; freed memory may be allocated and linked   *)
(* again.                                                                  *)
(***************************************************************************)
EXTENDS Naturals, FiniteSets

CONSTANTS Threads,   \* the threads that read and retire nodes
          Nodes,     \* the RCU_NODE_S objects
          Out        \* what phase[t] is outside a read section

ASSUME ThreadsFinite == IsFiniteSet(Threads)
ASSUME OutIsNoPhase  == Out \notin {0, 1}

VARIABLES uiCurrentPhase,  \* 0 or 1
          auiCounter,      \* readers inside, per phase
          free_list,       \* retired nodes, per phase (the order is irrelevant)
          phase,           \* what RCU_Lock returned to t, or Out
          held,            \* nodes t has found in its current section
          todo,            \* nodes t has taken off and must still free
          status           \* "linked", "unlinked", "retired" or "freed"

vars == <<uiCurrentPhase, auiCounter, free_list, phase, held, todo, status>>

NoNodes(S) == [x \in S |-> {}]

RCU_Init ==
    /\ uiCurrentPhase = 0
    /\ auiCounter = [p \in {0, 1} |-> 0]
    /\ free_list = NoNodes({0, 1})

Init ==
    /\ RCU_Init
    /\ phase = [t \in Threads |-> Out]
    /\ held = NoNodes(Threads)
    /\ todo = NoNodes(Threads)
    /\ status = [n \in Nodes |-> "linked"]

-----------------------------------------------------------------------------
(* The client around the object. *)

Inside(t) == phase[t] # Out

\* A reader walks the structure and keeps a pointer to a node it finds.
Find(t, n) ==
    /\ Inside(t)
    /\ todo[t] = {}
    /\ status[n] = "linked"
    /\ n \notin held[t]
    /\ held' = [held EXCEPT ![t] = @ \cup {n}]
    /\ UNCHANGED <<uiCurrentPhase, auiCounter, free_list, phase, todo, status>>

\* A writer takes the node out of the structure before it retires it.
Unlink(t, n) ==
    /\ todo[t] = {}
    /\ status[n] = "linked"
    /\ status' = [status EXCEPT ![n] = "unlinked"]
    /\ UNCHANGED <<uiCurrentPhase, auiCounter, free_list, phase, held, todo>>

\* The memory is allocated again and the new object linked.
Relink(n) ==
    /\ status[n] = "freed"
    /\ status' = [status EXCEPT ![n] = "linked"]
    /\ UNCHANGED <<uiCurrentPhase, auiCounter, free_list, phase, held, todo>>

-----------------------------------------------------------------------------
(* The operations. *)

\* Slip: only the current phase is looked at.
AnyReaderInCurrent == auiCounter[uiCurrentPhase] > 0

\* RCU_Call's test: is anybody inside, in either phase?
AnyReader == auiCounter[0] + auiCounter[1] > 0

RCU_Call(t, n) ==
    /\ todo[t] = {}
    /\ status[n] = "unlinked"
    /\ status' = [status EXCEPT ![n] = "retired"]
    /\ IF AnyReader
       THEN /\ free_list' = [free_list EXCEPT ![uiCurrentPhase] = @ \cup {n}]
            /\ UNCHANGED todo
       ELSE /\ todo' = [todo EXCEPT ![t] = {n}]
            /\ UNCHANGED free_list
    /\ UNCHANGED <<uiCurrentPhase, auiCounter, phase, held>>

\* Slip: the section is entered without being counted.
RCU_LockUncounted(t) ==
    /\ ~Inside(t)
    /\ todo[t] = {}
    /\ phase' = [phase EXCEPT ![t] = uiCurrentPhase]
    /\ UNCHANGED <<uiCurrentPhase, auiCounter, free_list, held, todo, status>>

RCU_Lock(t) ==
    /\ ~Inside(t)
    /\ todo[t] = {}
    /\ phase' = [phase EXCEPT ![t] = uiCurrentPhase]
    /\ auiCounter' = [auiCounter EXCEPT ![uiCurrentPhase] = @ + 1]
    /\ UNCHANGED <<uiCurrentPhase, free_list, held, todo, status>>

NextPhase == (uiCurrentPhase + 1) % 2

\* Slip: the current phase's list stays behind when nobody is left.
DrainedOther(count) ==
    IF count[NextPhase] # 0 THEN {} ELSE {NextPhase}

\* The lists RCU_UnLock takes off, given the counters after its decrement:
\* none while the other phase still has readers, otherwise the other phase's
\* list, and the current one too when nobody is left at all.
Drained(count) ==
    IF count[NextPhase] # 0 THEN {}
    ELSE {NextPhase} \cup {p \in {uiCurrentPhase} : count[p] = 0}

\* Slip: the source list is not reset after it was appended.
KeptAll(off) == free_list

\* What SL_Append leaves of the lists it moved: it resets its source.
Kept(off) == [p \in {0, 1} |-> IF p \in off THEN {} ELSE free_list[p]]

RCU_UnLock(t) ==
    /\ Inside(t)
    /\ todo[t] = {}
    /\ LET count == [auiCounter EXCEPT ![phase[t]] = @ - 1]
           off   == Drained(count)
       IN  /\ auiCounter' = count
           /\ todo' = [todo EXCEPT ![t] = UNION {free_list[p] : p \in off}]
           /\ free_list' = Kept(off)
           /\ uiCurrentPhase' = IF count[NextPhase] = 0 THEN NextPhase
                                                        ELSE uiCurrentPhase
    /\ phase' = [phase EXCEPT ![t] = Out]
    /\ held' = [held EXCEPT ![t] = {}]
    /\ UNCHANGED status

\* pfFunc(pstNode), after the spin lock is released.
FreeNode(t, n) ==
    /\ n \in todo[t]
    /\ todo' = [todo EXCEPT ![t] = @ \ {n}]
    /\ status' = [status EXCEPT ![n] = "freed"]
    /\ UNCHANGED <<uiCurrentPhase, auiCounter, free_list, phase, held>>

Next ==
    \/ \E t \in Threads : RCU_Lock(t) \/ RCU_UnLock(t)
    \/ \E t \in Threads, n \in Nodes :
          Find(t, n) \/ Unlink(t, n) \/ RCU_Call(t, n) \/ FreeNode(t, n)
    \/ \E n \in Nodes : Relink(n)

Spec == Init /\ [][Next]_vars

\* A thread inside a section leaves it, and a thread runs the callbacks of
\* the nodes it took off: both are straight-line code of a running thread.
Fairness ==
    /\ \A t \in Threads : WF_vars(RCU_UnLock(t))
    /\ \A t \in Threads, n \in Nodes : WF_vars(FreeNode(t, n))

FairSpec == Spec /\ Fairness

-----------------------------------------------------------------------------
(* Properties. *)

Statuses == {"linked", "unlinked", "retired", "freed"}

\* Every field of RCU_S and every client variable keeps its type.
TypeOK ==
    /\ uiCurrentPhase \in {0, 1}
    /\ auiCounter \in [{0, 1} -> Nat]
    /\ free_list \in [{0, 1} -> SUBSET Nodes]
    /\ phase \in [Threads -> {0, 1, Out}]
    /\ held \in [Threads -> SUBSET Nodes]
    /\ todo \in [Threads -> SUBSET Nodes]
    /\ status \in [Nodes -> Statuses]

\* No callback has run on a node, and none is about to (the node is in some
\* thread's todo), while a reader that found the node is still in its section.
GraceHolds ==
    \A t \in Threads : \A n \in held[t] :
        /\ status[n] # "freed"
        /\ \A u \in Threads : n \notin todo[u]

\* A retired node is in exactly one place: one free list, or one thread's
\* todo, and nothing else is there.  So RCU_UnLock, which empties lists into
\* its local list, never frees a node twice and never loses one.
Listed == free_list[0] \cup free_list[1]

OnePlace ==
    /\ \A n \in Nodes :
          status[n] = "retired" <=> n \in Listed \/ \E t \in Threads : n \in todo[t]
    /\ free_list[0] \cap free_list[1] = {}
    /\ \A t \in Threads :
          /\ todo[t] \cap Listed = {}
          /\ \A u \in Threads \ {t} : todo[t] \cap todo[u] = {}

\* Nothing waits on a list when no reader is left to take it off: the last
\* RCU_UnLock empties both lists.
NoOrphans == ~AnyReader => Listed = {}

\* Every node handed to RCU_Call is eventually freed, as long as readers
\* leave, however the sections of different readers overlap.
RetiredIsFreed ==
    \A n \in Nodes : (status[n] = "retired") ~> (status[n] = "freed")

Abstract == INSTANCE Reclaim WITH Readers <- Threads

\* RCU_S keeps the promise of deferred reclamation: in one history of the
\* structure's nodes, every free comes when no reader has the node any more,
\* and a node is unlinked, retired, freed and reused in this order.
IsReclaim == Abstract!Spec
=============================================================================
