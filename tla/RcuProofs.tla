----------------------------- MODULE RcuProofs -----------------------------
(***************************************************************************)
(* Proofs about Rcu, for any finite set of threads and any set of nodes.   *)
(*                                                                         *)
(* GraceHolds is not inductive.  What makes it so is the meaning of the    *)
(* two phases: the counters count the readers of each phase (CountOK), and *)
(* whoever holds a node that is on the other phase's list is a reader of   *)
(* that phase (OldHolders), so an empty counter means an unheld list.      *)
(***************************************************************************)
EXTENDS Rcu, FiniteSetTheorems, TLAPS

Readers(p) == {t \in Threads : phase[t] = p}

CountOK == \A p \in {0, 1} : auiCounter[p] = Cardinality(Readers(p))

HeldInside == \A t \in Threads : held[t] # {} => Inside(t)

OldHolders ==
    \A t \in Threads : \A n \in held[t] :
        n \in free_list[NextPhase] => phase[t] = NextPhase

IInv ==
    /\ TypeOK
    /\ CountOK
    /\ HeldInside
    /\ OldHolders
    /\ GraceHolds
    /\ OnePlace
    /\ NoOrphans

\* The two phases alternate.
LEMMA OtherPhase ==
    ASSUME uiCurrentPhase \in {0, 1}
    PROVE  /\ NextPhase \in {0, 1}
           /\ NextPhase = 1 - uiCurrentPhase
           /\ NextPhase # uiCurrentPhase
           /\ {0, 1} = {uiCurrentPhase, NextPhase}
  <1>1. CASE uiCurrentPhase = 0  BY <1>1 DEF NextPhase
  <1>2. CASE uiCurrentPhase = 1  BY <1>2 DEF NextPhase
  <1> QED  BY <1>1, <1>2

\* A zero counter means that nobody is in a section of that phase.
LEMMA ZeroMeansEmpty ==
    ASSUME CountOK, NEW p \in {0, 1}, auiCounter[p] = 0
    PROVE  \A t \in Threads : phase[t] # p
  <1>1. IsFiniteSet(Readers(p))
    BY FS_Subset, ThreadsFinite DEF Readers
  <1>2. Readers(p) = {}
    BY <1>1, FS_EmptySet DEF CountOK
  <1> QED  BY <1>2 DEF Readers

\* The same of the state after a step.
LEMMA EmptyAfter ==
    ASSUME CountOK', NEW p \in {0, 1}, auiCounter'[p] = 0
    PROVE  \A t \in Threads : phase'[t] # p
  <1>1. IsFiniteSet(Readers(p)')
    BY FS_Subset, ThreadsFinite DEF Readers
  <1>2. Readers(p)' = {}
    BY <1>1, FS_EmptySet DEF CountOK
  <1> QED  BY <1>2 DEF Readers

\* RCU_Lock counts its caller in.
LEMMA LockCounts ==
    ASSUME TypeOK, CountOK, NEW t \in Threads, RCU_Lock(t)
    PROVE  /\ auiCounter' \in [{0, 1} -> Nat]
           /\ CountOK'
  <1>1. \A p \in {0, 1} : IsFiniteSet(Readers(p))
    BY FS_Subset, ThreadsFinite DEF Readers
  <1>2. /\ t \notin Readers(uiCurrentPhase)
        /\ \A p \in {0, 1} :
              Readers(p)' = IF p = uiCurrentPhase THEN Readers(p) \cup {t}
                                                  ELSE Readers(p)
    BY OutIsNoPhase DEF RCU_Lock, Readers, Inside, TypeOK
  <1>3. uiCurrentPhase \in {0, 1}  BY DEF TypeOK
  <1>4. Cardinality(Readers(uiCurrentPhase) \cup {t})
            = Cardinality(Readers(uiCurrentPhase)) + 1
    BY <1>1, <1>2, <1>3, FS_AddElement
  <1>5. auiCounter' = [auiCounter EXCEPT ![uiCurrentPhase] = @ + 1]
    BY DEF RCU_Lock
  <1>6. auiCounter' \in [{0, 1} -> Nat]
    BY <1>3, <1>5 DEF TypeOK
  <1>7. ASSUME NEW p \in {0, 1}
        PROVE  auiCounter'[p] = Cardinality(Readers(p)')
    <2>1. CASE p = uiCurrentPhase
      BY <2>1, <1>2, <1>4, <1>5 DEF CountOK, TypeOK
    <2>2. CASE p # uiCurrentPhase
      BY <2>2, <1>2, <1>5 DEF CountOK, TypeOK
    <2> QED  BY <2>1, <2>2
  <1> QED  BY <1>6, <1>7 DEF CountOK

\* RCU_UnLock counts its caller out, and never below zero.
LEMMA UnLockCounts ==
    ASSUME TypeOK, CountOK, NEW t \in Threads, RCU_UnLock(t)
    PROVE  /\ auiCounter' \in [{0, 1} -> Nat]
           /\ CountOK'
           /\ auiCounter' = [auiCounter EXCEPT ![phase[t]] = @ - 1]
  <1> DEFINE q == phase[t]
  <1>0. q \in {0, 1}
    BY DEF RCU_UnLock, Inside, TypeOK
  <1>1. \A p \in {0, 1} : IsFiniteSet(Readers(p))
    BY FS_Subset, ThreadsFinite DEF Readers
  <1>2. /\ t \in Readers(q)
        /\ \A p \in {0, 1} : Readers(p)' = IF p = q THEN Readers(p) \ {t} ELSE Readers(p)
    BY <1>0, OutIsNoPhase DEF RCU_UnLock, Readers, TypeOK
  <1>3. /\ Cardinality(Readers(q) \ {t}) = Cardinality(Readers(q)) - 1
        /\ Cardinality(Readers(q)) \in Nat
        /\ Cardinality(Readers(q) \ {t}) \in Nat
    BY <1>0, <1>1, <1>2, FS_RemoveElement, FS_CardinalityType
  <1>4. auiCounter' = [auiCounter EXCEPT ![q] = @ - 1]
    BY DEF RCU_UnLock
  <1> QED  BY <1>0, <1>2, <1>3, <1>4 DEF CountOK, TypeOK

\* What RCU_UnLock takes off is held by nobody once its caller has left: the
\* lists it drains belong to phases whose counters are zero after the
\* decrement.
LEMMA DrainedUnheld ==
    ASSUME IInv, NEW t \in Threads, RCU_UnLock(t),
           NEW u \in Threads, NEW n \in held'[u],
           NEW p \in Drained(auiCounter')
    PROVE  n \notin free_list[p]
  <1>1. /\ u # t
        /\ n \in held[u]
        /\ phase'[u] = phase[u]
        /\ phase[u] \in {0, 1}
    <2>1. held' = [held EXCEPT ![t] = {}] /\ phase' = [phase EXCEPT ![t] = Out]
      BY DEF RCU_UnLock
    <2> QED  BY <2>1 DEF IInv, TypeOK, HeldInside, Inside
  <1>2. CountOK'
    BY UnLockCounts DEF IInv
  <1>3. /\ auiCounter'[NextPhase] = 0
        /\ p # NextPhase => p = uiCurrentPhase /\ auiCounter'[uiCurrentPhase] = 0
    BY DEF Drained
  <1>4. \A q \in {0, 1} : auiCounter'[q] = 0 => phase'[u] # q
    BY <1>2, EmptyAfter
  <1>5. phase[u] = uiCurrentPhase /\ auiCounter'[uiCurrentPhase] # 0
    BY <1>1, <1>3, <1>4, OtherPhase DEF IInv, TypeOK
  <1>6. p = NextPhase
    BY <1>3, <1>5
  <1> QED
    BY <1>1, <1>5, <1>6, OtherPhase DEF IInv, TypeOK, OldHolders

\* RCU_Init, with every node linked and no reader, satisfies the invariant.
LEMMA InitIInv == Init => IInv
  <1> SUFFICES ASSUME Init PROVE IInv
    OBVIOUS
  <1> USE DEF Init, RCU_Init, NoNodes
  <1>1. TypeOK
    BY DEF TypeOK, Statuses
  <1>2. CountOK
    <2>1. \A p \in {0, 1} : Readers(p) = {}
      BY OutIsNoPhase DEF Readers
    <2> QED  BY <2>1, FS_EmptySet DEF CountOK
  <1>3. HeldInside /\ OldHolders /\ GraceHolds
    BY DEF HeldInside, OldHolders, GraceHolds
  <1>4. OnePlace /\ NoOrphans
    BY DEF OnePlace, NoOrphans, Listed
  <1> QED  BY <1>1, <1>2, <1>3, <1>4 DEF IInv

\* Every operation of RCU_S and every step of its clients preserves it.
LEMMA NextIInv == IInv /\ [Next]_vars => IInv'
  <1> SUFFICES ASSUME IInv, [Next]_vars PROVE IInv'
    OBVIOUS
  <1> USE DEF IInv
  <1>0. /\ NextPhase \in {0, 1}
        /\ NextPhase # uiCurrentPhase
        /\ {0, 1} = {uiCurrentPhase, NextPhase}
    BY OtherPhase DEF TypeOK
  <1>1. ASSUME NEW t \in Threads, RCU_Lock(t)  PROVE IInv'
    <2>1. auiCounter' \in [{0, 1} -> Nat] /\ CountOK'
      BY <1>1, LockCounts
    <2>2. /\ phase' = [phase EXCEPT ![t] = uiCurrentPhase]
          /\ UNCHANGED <<uiCurrentPhase, free_list, held, todo, status>>
          /\ phase[t] = Out
          /\ auiCounter' = [auiCounter EXCEPT ![uiCurrentPhase] = @ + 1]
      BY <1>1 DEF RCU_Lock, Inside
    <2>3. TypeOK'
      BY <2>1, <2>2 DEF TypeOK
    <2>4. held[t] = {}
      BY <2>2 DEF HeldInside, Inside
    <2>5. HeldInside' /\ OldHolders' /\ GraceHolds'
      BY <2>2, <2>4, OutIsNoPhase DEF HeldInside, OldHolders, GraceHolds, Inside, NextPhase, TypeOK
    <2>6. OnePlace'
      BY <2>2 DEF OnePlace, Listed
    <2>7. NoOrphans'
      BY <2>2, <2>3 DEF NoOrphans, AnyReader, TypeOK
    <2> QED  BY <2>1, <2>3, <2>5, <2>6, <2>7
  <1>2. ASSUME NEW t \in Threads, RCU_UnLock(t)  PROVE IInv'
    <2> DEFINE off == Drained(auiCounter')
    <2>1. /\ auiCounter' \in [{0, 1} -> Nat]
          /\ CountOK'
          /\ auiCounter' = [auiCounter EXCEPT ![phase[t]] = @ - 1]
      BY <1>2, UnLockCounts
    <2>2. /\ todo[t] = {}
          /\ phase' = [phase EXCEPT ![t] = Out]
          /\ held' = [held EXCEPT ![t] = {}]
          /\ todo' = [todo EXCEPT ![t] = UNION {free_list[p] : p \in off}]
          /\ free_list' = [p \in {0, 1} |-> IF p \in off THEN {} ELSE free_list[p]]
          /\ uiCurrentPhase' = IF auiCounter'[NextPhase] = 0 THEN NextPhase
                                                            ELSE uiCurrentPhase
          /\ UNCHANGED status
      BY <1>2, <2>1 DEF RCU_UnLock, Kept
    <2>3. /\ off \subseteq {0, 1}
          /\ auiCounter'[NextPhase] # 0 => off = {}
          /\ auiCounter'[NextPhase] = 0 =>
                /\ NextPhase \in off
                /\ auiCounter'[uiCurrentPhase] = 0 => uiCurrentPhase \in off
                /\ auiCounter'[uiCurrentPhase] # 0 => uiCurrentPhase \notin off
      BY <1>0 DEF Drained
    <2> HIDE DEF off
    <2>4. TypeOK'
      BY <1>0, <2>1, <2>2, <2>3 DEF TypeOK
    <2>5. HeldInside'
      BY <2>2 DEF HeldInside, Inside, TypeOK
    <2>6. GraceHolds'
      <3> SUFFICES ASSUME NEW u \in Threads, NEW n \in held'[u]
                   PROVE  /\ status'[n] # "freed"
                          /\ \A v \in Threads : n \notin todo'[v]
        BY DEF GraceHolds
      <3>1. u # t /\ n \in held[u]
        BY <2>2 DEF TypeOK
      <3>2. \A p \in off : n \notin free_list[p]
        BY <1>2, DrainedUnheld DEF off
      <3> QED  BY <2>2, <3>1, <3>2 DEF GraceHolds, TypeOK
    <2>7. OldHolders'
      <3> SUFFICES ASSUME NEW u \in Threads, NEW n \in held'[u],
                          n \in free_list'[NextPhase']
                   PROVE  phase'[u] = NextPhase'
        BY DEF OldHolders
      <3>1. u # t /\ n \in held[u] /\ phase'[u] = phase[u] /\ phase[u] \in {0, 1}
        BY <2>2 DEF TypeOK, HeldInside, Inside
      <3>2. CASE auiCounter'[NextPhase] # 0
        BY <1>0, <2>2, <2>3, <3>1, <3>2 DEF OldHolders, NextPhase
      <3>3. CASE auiCounter'[NextPhase] = 0
        <4>1. uiCurrentPhase' = NextPhase
          BY <2>2, <3>3
        <4>2. NextPhase' = uiCurrentPhase
          BY <4>1, <1>0, <2>4, OtherPhase DEF TypeOK, NextPhase
        <4>3. phase'[u] # NextPhase
          <5>1. \A q \in {0, 1} : auiCounter'[q] = 0 => phase'[u] # q
            BY <2>1, EmptyAfter
          <5> QED  BY <5>1, <1>0, <3>3
        <4> QED  BY <1>0, <3>1, <4>2, <4>3
      <3> QED  BY <3>2, <3>3
    <2>8. OnePlace'
      BY <1>0, <2>2, <2>3 DEF OnePlace, Listed, TypeOK
    <2>9. NoOrphans'
      BY <1>0, <2>2, <2>3, <2>4 DEF NoOrphans, AnyReader, Listed, TypeOK
    <2> QED  BY <2>1, <2>4, <2>5, <2>6, <2>7, <2>8, <2>9
  <1>3. ASSUME NEW t \in Threads, NEW n \in Nodes, Find(t, n)  PROVE IInv'
    <2> USE <1>3 DEF Find
    <2>1. TypeOK'  BY DEF TypeOK
    <2>2. CountOK'  BY DEF CountOK, Readers
    <2>3. HeldInside' /\ NoOrphans'
      BY DEF HeldInside, Inside, NoOrphans, AnyReader, Listed, TypeOK
    <2>4. OldHolders' /\ GraceHolds'
      BY <1>0 DEF OldHolders, GraceHolds, NextPhase, OnePlace, Listed, TypeOK
    <2>5. OnePlace'  BY DEF OnePlace, Listed
    <2> QED  BY <2>1, <2>2, <2>3, <2>4, <2>5
  <1>4. ASSUME NEW t \in Threads, NEW n \in Nodes, Unlink(t, n)  PROVE IInv'
    <2> USE <1>4 DEF Unlink
    <2>1. TypeOK'  BY DEF TypeOK, Statuses
    <2>2. CountOK'  BY DEF CountOK, Readers
    <2>3. HeldInside' /\ NoOrphans'
      BY DEF HeldInside, Inside, NoOrphans, AnyReader, Listed
    <2>4. OldHolders' /\ GraceHolds'
      BY DEF OldHolders, GraceHolds, NextPhase, TypeOK
    <2>5. OnePlace'  BY DEF OnePlace, Listed, TypeOK
    <2> QED  BY <2>1, <2>2, <2>3, <2>4, <2>5
  <1>5. ASSUME NEW t \in Threads, NEW n \in Nodes, RCU_Call(t, n)  PROVE IInv'
    <2>1. CountOK'  BY <1>5 DEF RCU_Call, CountOK, Readers
    <2>2. TypeOK'  BY <1>5 DEF RCU_Call, TypeOK, Statuses
    <2>3. HeldInside'  BY <1>5 DEF RCU_Call, HeldInside, Inside
    <2>4. CASE AnyReader
      <3>1. NoOrphans'  BY <1>5, <2>4 DEF RCU_Call, NoOrphans, AnyReader
      <3>2. OldHolders' /\ GraceHolds'
        BY <1>0, <1>5, <2>4 DEF RCU_Call, OldHolders, GraceHolds, NextPhase, TypeOK
      <3>3. OnePlace'
        BY <1>0, <1>5, <2>4 DEF RCU_Call, OnePlace, Listed, TypeOK
      <3> QED  BY <2>1, <2>2, <2>3, <3>1, <3>2, <3>3
    <2>5. CASE ~AnyReader
      <3>1. auiCounter[0] = 0 /\ auiCounter[1] = 0
        BY <2>5 DEF AnyReader, TypeOK
      <3>2. \A u \in Threads : held[u] = {}
        BY <3>1, ZeroMeansEmpty DEF HeldInside, Inside, TypeOK
      <3>3. NoOrphans'  BY <1>5, <2>5 DEF RCU_Call, NoOrphans, AnyReader, Listed
      <3>4. OldHolders' /\ GraceHolds'
        BY <1>5, <3>2 DEF RCU_Call, OldHolders, GraceHolds
      <3>5. OnePlace'
        BY <1>5, <2>5 DEF RCU_Call, OnePlace, Listed, TypeOK
      <3> QED  BY <2>1, <2>2, <2>3, <3>3, <3>4, <3>5
    <2> QED  BY <2>4, <2>5
  <1>6. ASSUME NEW t \in Threads, NEW n \in Nodes, FreeNode(t, n)  PROVE IInv'
    <2> USE <1>6 DEF FreeNode
    <2>1. TypeOK'  BY DEF TypeOK, Statuses
    <2>2. CountOK'  BY DEF CountOK, Readers
    <2>3. HeldInside' /\ NoOrphans'
      BY DEF HeldInside, Inside, NoOrphans, AnyReader, Listed
    <2>4. OldHolders' /\ GraceHolds'
      BY DEF OldHolders, GraceHolds, NextPhase, TypeOK
    <2>5. OnePlace'  BY DEF OnePlace, Listed, TypeOK
    <2> QED  BY <2>1, <2>2, <2>3, <2>4, <2>5
  <1>7. ASSUME NEW n \in Nodes, Relink(n)  PROVE IInv'
    <2> USE <1>7 DEF Relink
    <2>1. TypeOK'  BY DEF TypeOK, Statuses
    <2>2. CountOK'  BY DEF CountOK, Readers
    <2>3. HeldInside' /\ NoOrphans'
      BY DEF HeldInside, Inside, NoOrphans, AnyReader, Listed
    <2>4. OldHolders' /\ GraceHolds'
      BY DEF OldHolders, GraceHolds, NextPhase, TypeOK
    <2>5. OnePlace'  BY DEF OnePlace, Listed, TypeOK
    <2> QED  BY <2>1, <2>2, <2>3, <2>4, <2>5
  <1>8. CASE UNCHANGED vars
    BY <1>8 DEF vars, TypeOK, CountOK, Readers, HeldInside, Inside, OldHolders,
                NextPhase, GraceHolds, OnePlace, Listed, NoOrphans, AnyReader
  <1> QED  BY <1>1, <1>2, <1>3, <1>4, <1>5, <1>6, <1>7, <1>8 DEF Next

\* The inductive invariant holds in every state the calls of rcu_utl.c reach,
\* for any finite set of threads and any set of nodes.
THEOREM Invariance == Spec => []IInv
  BY InitIInv, NextIInv, PTL DEF Spec

\* Every field of RCU_S keeps its type; the counters never go below zero.
THEOREM TypeCorrect == Spec => []TypeOK
  BY Invariance, PTL DEF IInv

\* RCU's promise: no node is freed, or taken off to be freed, while a reader
\* that found it is still inside its section.
THEOREM GraceCorrect == Spec => []GraceHolds
  BY Invariance, PTL DEF IInv

\* No node handed to RCU_Call is freed twice or lost.
THEOREM OnePlaceCorrect == Spec => []OnePlace
  BY Invariance, PTL DEF IInv

\* When the last reader leaves, nothing stays behind on a list.
THEOREM NoOrphansCorrect == Spec => []NoOrphans
  BY Invariance, PTL DEF IInv

\* Every step of RCU_S is a step of its client's nodes that Reclaim allows,
\* or leaves them alone.
LEMMA StepReclaims ==
    ASSUME IInv, [Next]_vars
    PROVE  [Abstract!Next]_(Abstract!vars)
  <1> USE DEF Abstract!Next, Abstract!Becomes, Abstract!vars
  <1>1. ASSUME NEW t \in Threads, RCU_Lock(t)  PROVE UNCHANGED Abstract!vars
    BY <1>1 DEF RCU_Lock
  <1>2. ASSUME NEW t \in Threads, RCU_UnLock(t)  PROVE Abstract!Leave(t)
    BY <1>2 DEF RCU_UnLock, Abstract!Leave
  <1>3. ASSUME NEW t \in Threads, NEW n \in Nodes, Find(t, n)
        PROVE  Abstract!Find(t, n)
    BY <1>3 DEF Find, Abstract!Find
  <1>4. ASSUME NEW t \in Threads, NEW n \in Nodes, Unlink(t, n)
        PROVE  Abstract!Unlink(n)
    BY <1>4 DEF Unlink, Abstract!Unlink
  <1>5. ASSUME NEW t \in Threads, NEW n \in Nodes, RCU_Call(t, n)
        PROVE  Abstract!Retire(n)
    BY <1>5 DEF RCU_Call, Abstract!Retire
  <1>6. ASSUME NEW t \in Threads, NEW n \in Nodes, FreeNode(t, n)
        PROVE  Abstract!Free(n)
    <2>1. status[n] = "retired"
      BY <1>6 DEF FreeNode, IInv, OnePlace
    <2>2. \A u \in Threads : n \notin held[u]
      BY <1>6 DEF FreeNode, IInv, GraceHolds
    <2> QED  BY <1>6, <2>1, <2>2 DEF FreeNode, Abstract!Free
  <1>7. ASSUME NEW n \in Nodes, Relink(n)  PROVE Abstract!Reuse(n)
    BY <1>7 DEF Relink, Abstract!Reuse
  <1>8. CASE UNCHANGED vars
    BY <1>8 DEF vars
  <1> QED  BY <1>1, <1>2, <1>3, <1>4, <1>5, <1>6, <1>7, <1>8 DEF Next

\* RCU_S implements deferred reclamation.
THEOREM RcuReclaims == Spec => IsReclaim
  <1>1. Init => Abstract!Init
    BY DEF Init, NoNodes, Abstract!Init
  <1>2. IInv /\ [Next]_vars => [Abstract!Next]_(Abstract!vars)
    BY StepReclaims
  <1> QED  BY <1>1, <1>2, Invariance, PTL DEF Spec, IsReclaim, Abstract!Spec
=============================================================================
