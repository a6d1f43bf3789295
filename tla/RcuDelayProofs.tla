--------------------------- MODULE RcuDelayProofs ---------------------------
(***************************************************************************)
(* Proofs about RcuDelay, for any finite set of readers and any writers    *)
(* and nodes, wherever Steps begin.                                        *)
(*                                                                         *)
(* The argument: while a Step runs, every reader that is not late goes by  *)
(* the current state (StepQuiet).  So when it ends, and the states change  *)
(* over, they all go by what is then the old state, and a holder of a node *)
(* that was retired or unlinked before is one of them or is late           *)
(* (OldHolders, Waited).  The next Step that begins shows that they have   *)
(* left.  Nothing of this depends on when writers add their nodes.         *)
(***************************************************************************)
EXTENDS RcuDelay, FiniteSetTheorems, TLAPS

Members(s) == {r \in Readers : at[r] = "in" /\ local[r] = s}

CountOK == \A s \in {0, 1} : counter[s] = Cardinality(Members(s))

\* Readers and writers are at places of their own.
Roles ==
    /\ \A r \in Readers : at[r] \in {"out", "enter", "in"}
    /\ \A w \in Writers : at[w] \notin {"enter", "in"}
    /\ stepper \in Writers => at[stepper] = "step"

HeldInside == \A r \in Readers : held[r] # {} => at[r] = "in"

\* A writer inside a call has a node, its own, that it has unlinked.
Owned ==
    \A w \in Writers :
        /\ node[w] # None => status[node[w]] = "unlinked"
        /\ at[w] # "out" => node[w] # None
        /\ at[w] \in {"out", "add"} => seen[w] = Unread
        /\ \A u \in Writers : node[w] # None /\ node[u] = node[w] => u = w

ListsOK ==
    /\ \A s \in {0, 1} : \A n \in list[s] : status[n] = "retired"
    /\ list[0] \cap list[1] = {}

StepQuiet ==
    stepper # None =>
        \A r \in Readers \ late :
            at[r] \in {"enter", "in"} => local[r] = state

OldHolders ==
    \A r \in Readers \ late : \A n \in held[r] :
        n \in list[Next_state] => local[r] = Next_state

\* What a writer knows of those who still hold its node.
Waited ==
    \A w \in Writers, r \in Readers \ late :
        node[w] \in held[r] =>
            /\ seen[w] = 1 => local[r] = Next_state
            /\ seen[w] # 2
            /\ at[w] = "just1" => local[r] = 1
            /\ at[w] # "return"
            /\ at[w] = "add" /\ local[w] # state => local[r] = Next_state

IInv ==
    /\ TypeOK
    /\ CountOK
    /\ Roles
    /\ HeldInside
    /\ Owned
    /\ ListsOK
    /\ StepQuiet
    /\ OldHolders
    /\ Waited

-----------------------------------------------------------------------------

\* The two states alternate.
LEMMA OtherState ==
    ASSUME state \in {0, 1}
    PROVE  /\ Next_state \in {0, 1} /\ Next_state # state
           /\ \A s \in {0, 1} : s = state \/ s = Next_state
           /\ \A s \in {0, 1} : s # state => s = Next_state
           /\ 1 - Next_state = state
  <1>1. CASE state = 0  BY <1>1 DEF Next_state
  <1>2. CASE state = 1  BY <1>2 DEF Next_state
  <1> QED  BY <1>1, <1>2

\* A zero counter means that nobody is in a section of that state.
LEMMA ZeroMeansEmpty ==
    ASSUME CountOK, NEW s \in {0, 1}, counter[s] = 0
    PROVE  \A r \in Readers : at[r] = "in" => local[r] # s
  <1>1. IsFiniteSet(Members(s))
    BY FS_Subset, RcuDelayAssumption DEF Members
  <1>2. Members(s) = {}
    BY <1>1, FS_EmptySet DEF CountOK
  <1> QED  BY <1>2 DEF Members

\* The counters stay right as long as no reader enters or leaves.
LEMMA SameCount ==
    ASSUME CountOK, UNCHANGED counter,
           \A r \in Readers : at[r] = "in" <=> at'[r] = "in",
           \A r \in Readers : at[r] = "in" => local'[r] = local[r]
    PROVE  CountOK'
  <1>1. \A s \in {0, 1} : Members(s)' = Members(s)
    BY DEF Members
  <1> QED  BY <1>1 DEF CountOK

\* CountIn counts its caller in.
LEMMA CountInCounts ==
    ASSUME TypeOK, CountOK, NEW r \in Readers, CountIn(r)
    PROVE  CountOK' /\ counter' \in [{0, 1} -> Nat]
  <1> DEFINE q == local[r]
  <1>0. q \in {0, 1}  BY DEF TypeOK
  <1>1. \A s \in {0, 1} : IsFiniteSet(Members(s))
    BY FS_Subset, RcuDelayAssumption DEF Members
  <1>2. /\ r \notin Members(q)
        /\ \A s \in {0, 1} :
              Members(s)' = IF s = q THEN Members(s) \cup {r} ELSE Members(s)
    BY <1>0 DEF CountIn, Members, Go, TypeOK
  <1>3. Cardinality(Members(q) \cup {r}) = Cardinality(Members(q)) + 1
    BY <1>0, <1>1, <1>2, FS_AddElement
  <1>4. counter' = [counter EXCEPT ![q] = @ + 1]
    BY DEF CountIn
  <1>5. counter' \in [{0, 1} -> Nat]
    BY <1>0, <1>4 DEF TypeOK
  <1>6. ASSUME NEW s \in {0, 1}
        PROVE  counter'[s] = Cardinality(Members(s)')
    <2>1. CASE s = q  BY <2>1, <1>0, <1>2, <1>3, <1>4 DEF CountOK, TypeOK
    <2>2. CASE s # q  BY <2>2, <1>0, <1>2, <1>4 DEF CountOK, TypeOK
    <2> QED  BY <2>1, <2>2
  <1> QED  BY <1>5, <1>6 DEF CountOK

\* RcuDelay_Unlock counts its caller out, and never below zero.
LEMMA UnlockCounts ==
    ASSUME TypeOK, CountOK, NEW r \in Readers, RcuDelay_Unlock(r)
    PROVE  CountOK' /\ counter' \in [{0, 1} -> Nat]
  <1> DEFINE q == local[r]
  <1>0. q \in {0, 1}  BY DEF TypeOK
  <1>1. \A s \in {0, 1} : IsFiniteSet(Members(s))
    BY FS_Subset, RcuDelayAssumption DEF Members
  <1>2. /\ r \in Members(q)
        /\ \A s \in {0, 1} :
              Members(s)' = IF s = q THEN Members(s) \ {r} ELSE Members(s)
    BY <1>0 DEF RcuDelay_Unlock, Members, Go, TypeOK
  <1>3. /\ Cardinality(Members(q) \ {r}) = Cardinality(Members(q)) - 1
        /\ Cardinality(Members(q)) \in Nat
        /\ Cardinality(Members(q) \ {r}) \in Nat
    BY <1>0, <1>1, <1>2, FS_RemoveElement, FS_CardinalityType
  <1>4. counter' = [counter EXCEPT ![q] = @ - 1]
    BY DEF RcuDelay_Unlock
  <1>5. counter[q] = Cardinality(Members(q))
    BY <1>0 DEF CountOK
  <1>6. counter' \in [{0, 1} -> Nat]
    BY <1>0, <1>2, <1>3, <1>4, <1>5 DEF TypeOK
  <1>7. ASSUME NEW s \in {0, 1}
        PROVE  counter'[s] = Cardinality(Members(s)')
    <2>1. CASE s = q  BY <2>1, <1>0, <1>2, <1>3, <1>4, <1>5 DEF TypeOK
    <2>2. CASE s # q  BY <2>2, <1>0, <1>2, <1>4 DEF CountOK, TypeOK
    <2> QED  BY <2>1, <2>2
  <1> QED  BY <1>6, <1>7 DEF CountOK

\* At the start nobody is inside and no node is retired.
LEMMA InitIInv == Init => IInv
  <1> SUFFICES ASSUME Init  PROVE IInv
    OBVIOUS
  <1>1. \A s \in {0, 1} : Members(s) = {}
    BY DEF Init, Members
  <1>2. CountOK
    BY <1>1, FS_EmptySet DEF Init, CountOK
  <1>3. started \in BOOLEAN /\ sync \in [Writers -> BOOLEAN]
    BY Zenon DEF Init
  <1>4. TypeOK
    BY <1>3 DEF Init, TypeOK, Unread
  <1>5. Roles /\ HeldInside /\ Owned /\ ListsOK /\ StepQuiet
    BY RcuDelayAssumption
    DEF Init, Roles, HeldInside, Owned, ListsOK, StepQuiet
  <1>6. OldHolders /\ Waited
    BY DEF Init, OldHolders, Waited
  <1> QED  BY <1>2, <1>4, <1>5, <1>6 DEF IInv

-----------------------------------------------------------------------------
(* Readers. *)

\* RcuDelay_Lock loads the state; its caller is not counted and holds nothing.
LEMMA LockKeeps ==
    ASSUME IInv, NEW r \in Readers, RcuDelay_Lock(r)
    PROVE  IInv'
  <1> USE DEF RcuDelay_Lock, ctrl, waits, client, Go, Load, ghost
  <1>1. TypeOK'  BY DEF IInv, TypeOK
  <1>2. CountOK'  BY SameCount DEF IInv, TypeOK
  <1>3. Roles' /\ HeldInside' /\ Owned' /\ ListsOK'
    BY RcuDelayAssumption DEF IInv, TypeOK, Roles, HeldInside, Owned, ListsOK
  <1>4. StepQuiet'  BY DEF IInv, TypeOK, StepQuiet
  <1>5. held[r] = {}  BY DEF IInv, HeldInside
  <1>6. OldHolders' /\ Waited'
    BY <1>5, RcuDelayAssumption DEF IInv, TypeOK, OldHolders, Waited, Next_state
  <1> QED  BY <1>1, <1>2, <1>3, <1>4, <1>6 DEF IInv

\* A reader that counts itself in goes by the state it has loaded.
LEMMA CountInKeeps ==
    ASSUME IInv, NEW r \in Readers, CountIn(r)
    PROVE  IInv'
  <1>1. CountOK' /\ counter' \in [{0, 1} -> Nat]
    BY CountInCounts DEF IInv
  <1> USE DEF CountIn, waits, client, Go, ghost
  <1>2. TypeOK'  BY <1>1 DEF IInv, TypeOK
  <1>3. Roles' /\ HeldInside' /\ Owned' /\ ListsOK'
    BY RcuDelayAssumption DEF IInv, TypeOK, Roles, HeldInside, Owned, ListsOK
  <1>4. StepQuiet'  BY DEF IInv, TypeOK, StepQuiet
  <1>5. OldHolders' /\ Waited'
    BY RcuDelayAssumption DEF IInv, TypeOK, OldHolders, Waited, Next_state
  <1> QED  BY <1>1, <1>2, <1>3, <1>4, <1>5 DEF IInv

\* A reader finds only linked nodes, which are on no list.
LEMMA FindKeeps ==
    ASSUME IInv, NEW r \in Readers, NEW n \in Nodes, Find(r, n)
    PROVE  IInv'
  <1> USE DEF Find, ctrl, waits, ghost
  <1>1. TypeOK'  BY DEF IInv, TypeOK
  <1>2. CountOK'  BY SameCount DEF IInv
  <1>3. Roles' /\ HeldInside' /\ Owned' /\ ListsOK' /\ StepQuiet'
    BY DEF IInv, TypeOK, Roles, HeldInside, Owned, ListsOK, StepQuiet
  <1>4. OldHolders'
    <2>1. n \notin list[Next_state]
      BY OtherState DEF IInv, TypeOK, ListsOK
    <2> QED  BY <2>1 DEF IInv, TypeOK, OldHolders, Next_state
  <1>5. Waited'
    <2>1. \A w \in Writers : node[w] # n
      BY RcuDelayAssumption DEF IInv, TypeOK, Owned
    <2> QED  BY <2>1 DEF IInv, TypeOK, Waited, Next_state
  <1> QED  BY <1>1, <1>2, <1>3, <1>4, <1>5 DEF IInv

\* RcuDelay_Unlock gives up what its caller holds.
LEMMA UnlockKeeps ==
    ASSUME IInv, NEW r \in Readers, RcuDelay_Unlock(r)
    PROVE  IInv'
  <1>1. CountOK' /\ counter' \in [{0, 1} -> Nat]
    BY UnlockCounts DEF IInv
  <1> USE DEF RcuDelay_Unlock, waits, Go, ghost
  <1>2. TypeOK'  BY <1>1 DEF IInv, TypeOK
  <1>3. Roles' /\ HeldInside' /\ Owned' /\ ListsOK'
    BY RcuDelayAssumption DEF IInv, TypeOK, Roles, HeldInside, Owned, ListsOK
  <1>4. StepQuiet'  BY DEF IInv, TypeOK, StepQuiet
  <1>5. OldHolders' /\ Waited'
    BY RcuDelayAssumption DEF IInv, TypeOK, OldHolders, Waited, Next_state
  <1> QED  BY <1>1, <1>2, <1>3, <1>4, <1>5 DEF IInv

-----------------------------------------------------------------------------
(* RcuDelay_Step. *)

\* A Step that begins makes late whoever it finds going by the other state.
LEMMA BeginIsQuiet ==
    ASSUME IInv, NEW t, Begin(t), NEW r \in Readers \ late',
           at[r] \in {"enter", "in"}
    PROVE  local[r] = state
  <1>1. CASE at[r] = "enter"
    BY <1>1 DEF Begin, Overtaken
  <1>2. CASE at[r] = "in"
    <2>1. local[r] # Next_state
      BY <1>2, ZeroMeansEmpty, OtherState DEF IInv, TypeOK, Begin, Quiet
    <2> QED  BY <2>1, OtherState DEF IInv, TypeOK
  <1> QED  BY <1>1, <1>2

\* rcu_engine_timeout begins a Step only when the other state is quiet.
LEMMA TimerKeeps ==
    ASSUME IInv, rcu_engine_timeout
    PROVE  IInv'
  <1> USE DEF rcu_engine_timeout, Begin, waits, client, ghost
  <1>1. TypeOK'  BY DEF IInv, TypeOK, Overtaken
  <1>2. CountOK'  BY SameCount DEF IInv
  <1>3. Roles' /\ HeldInside' /\ Owned' /\ ListsOK'
    BY RcuDelayAssumption DEF IInv, TypeOK, Roles, HeldInside, Owned, ListsOK
  <1>4. StepQuiet'
    BY BeginIsQuiet DEF StepQuiet
  <1>5. OldHolders' /\ Waited'
    BY DEF IInv, OldHolders, Waited, Next_state
  <1> QED  BY <1>1, <1>2, <1>3, <1>4, <1>5 DEF IInv

\* What a Step frees, only late readers hold.
LEMMA FreedUnheld ==
    ASSUME IInv, NEW n \in Nodes, FreeHead(n), NEW r \in Readers \ late
    PROVE  n \notin held[r]
  <1> SUFFICES ASSUME n \in held[r]  PROVE FALSE
    OBVIOUS
  <1>1. local[r] = Next_state
    BY DEF IInv, OldHolders, FreeHead
  <1>2. local[r] = state
    BY DEF IInv, HeldInside, StepQuiet, FreeHead
  <1> QED  BY <1>1, <1>2, OtherState DEF IInv, TypeOK

\* RcuDelay_Step frees a node of the other list, which only late
\* readers hold.
LEMMA FreeHeadKeeps ==
    ASSUME IInv, NEW n \in Nodes, FreeHead(n)
    PROVE  IInv'
  <1>0. /\ Next_state \in {0, 1} /\ state \in {0, 1} /\ Next_state # state
        /\ Next_state' = Next_state
        /\ status[n] = "retired"
    BY OtherState DEF IInv, TypeOK, ListsOK, FreeHead, Next_state
  <1> USE DEF FreeHead, waits, ghost
  <1>1. TypeOK'  BY <1>0 DEF IInv, TypeOK
  <1>2. CountOK'  BY SameCount DEF IInv
  <1>3. Roles' /\ HeldInside' /\ StepQuiet'
    BY DEF IInv, Roles, HeldInside, StepQuiet
  <1>4. Owned'  BY <1>0 DEF IInv, TypeOK, Owned
  <1>5. ListsOK'
    <2>1. list'[Next_state] = list[Next_state] \ {n} /\ list'[state] = list[state]
      BY <1>0 DEF IInv, TypeOK
    <2>2. n \notin list[state]
      BY <1>0 DEF IInv, ListsOK
    <2>3. \A s \in {0, 1} : list'[s] \subseteq list[s] /\ n \notin list'[s]
      BY <1>0, <2>1, <2>2, OtherState
    <2> QED  BY <2>3 DEF IInv, TypeOK, ListsOK
  <1>6. OldHolders'
    BY <1>0 DEF IInv, TypeOK, OldHolders
  <1>7. Waited'
    BY <1>0 DEF IInv, Waited
  <1> QED  BY <1>1, <1>2, <1>3, <1>4, <1>5, <1>6, <1>7 DEF IInv

\* The states change over: whoever is inside goes by the old one now.
LEMMA EndKeeps ==
    ASSUME IInv, End
    PROVE  IInv'
  <1>0. /\ state \in {0, 1} /\ state' \in {0, 1}
        /\ state' = Next_state /\ Next_state' = state
        /\ Next_state # state
    BY OtherState DEF IInv, TypeOK, End, Next_state
  <1>1. /\ stepper \in Writers \cup {Timer}
        /\ stepper' = None
        /\ UNCHANGED <<counter, list, started, local, sync, client, ghost>>
    BY DEF End, IInv, TypeOK
  <1>2. \A t \in Readers \cup Writers :
           at'[t] = IF t = stepper THEN AfterStep(t) ELSE at[t]
    BY <1>1, RcuDelayAssumption DEF End, Go, IInv, TypeOK
  <1>3. /\ at' \in [Readers \cup Writers ->
                        {"out", "enter", "in", "add", "just0", "just1",
                         "count", "sleep", "step", "return"}]
        /\ \A r \in Readers : at'[r] = at[r]
        /\ \A w \in Writers : at'[w] = at[w]
                \/ (w = stepper /\ at[w] = "step" /\ at'[w] \in {"just0", "count"})
    BY <1>1, <1>2, RcuDelayAssumption DEF End, Go, IInv, TypeOK, Roles, AfterStep
  <1>4. /\ seen' \in [Writers -> {Unread, 0, 1, 2}]
        /\ \A w \in Writers : /\ seen'[w] = Unread <=> seen[w] = Unread
                              /\ seen'[w] = 1 => seen[w] = 0
                              /\ seen'[w] = 2 => seen[w] \in {1, 2}
    BY DEF End, IInv, TypeOK, Unread
  <1>5. \A r \in Readers \ late : at[r] = "in" => local[r] = state
    BY <1>1, RcuDelayAssumption DEF IInv, StepQuiet
  <1>6. TypeOK'
    BY <1>0, <1>1, <1>3, <1>4 DEF IInv, TypeOK, client, ghost
  <1>7. CountOK'
    BY <1>1, <1>3, SameCount DEF IInv
  <1>8. Roles' /\ HeldInside' /\ ListsOK' /\ StepQuiet'
    BY <1>1, <1>3, RcuDelayAssumption
    DEF IInv, Roles, HeldInside, ListsOK, StepQuiet, client, ghost
  <1>9. Owned'
    BY <1>1, <1>3, <1>4 DEF IInv, Owned, client, ghost
  <1>10. OldHolders'
    BY <1>0, <1>1, <1>5 DEF IInv, HeldInside, OldHolders, client, ghost
  <1>11. Waited'
    <2> SUFFICES ASSUME NEW w \in Writers, NEW r \in Readers \ late, node[w] \in held[r]
                 PROVE  /\ seen'[w] = 1 => local[r] = state
                        /\ seen'[w] # 2
                        /\ at'[w] = "just1" => local[r] = 1
                        /\ at'[w] # "return"
                        /\ at'[w] = "add" /\ local[w] # Next_state => local[r] = state
      BY <1>0, <1>1 DEF Waited, client, ghost
    <2>1. local[r] = state  BY <1>5 DEF IInv, HeldInside
    <2>2. seen[w] # 1 /\ seen[w] # 2
      BY <1>0, <2>1 DEF IInv, Waited
    <2>3. at[w] # "return" /\ (at[w] = "just1" => local[r] = 1)
      BY DEF IInv, Waited
    <2> QED  BY <1>3, <1>4, <2>1, <2>2, <2>3
  <1> QED  BY <1>6, <1>7, <1>8, <1>9, <1>10, <1>11 DEF IInv

-----------------------------------------------------------------------------
(* Writers. *)

\* A writer that unlinks a node is the only one to have it.
LEMMA UnlinkKeeps ==
    ASSUME IInv, NEW w \in Writers, NEW n \in Nodes, Unlink(w, n)
    PROVE  IInv'
  <1> USE DEF Unlink, ctrl, waits, ghost
  <1>1. TypeOK'  BY DEF IInv, TypeOK
  <1>2. CountOK'  BY SameCount DEF IInv
  <1>3. Roles' /\ HeldInside' /\ StepQuiet'
    BY DEF IInv, Roles, HeldInside, StepQuiet
  <1>4. ListsOK'  BY DEF IInv, TypeOK, ListsOK
  <1>5. Owned'  BY RcuDelayAssumption DEF IInv, TypeOK, Owned
  <1>6. OldHolders'  BY DEF IInv, OldHolders, Next_state
  <1>7. seen[w] = Unread  BY DEF IInv, Owned
  <1>8. Waited'
    BY <1>7 DEF IInv, TypeOK, Waited, Next_state, Unread
  <1> QED  BY <1>1, <1>2, <1>3, <1>4, <1>5, <1>6, <1>8 DEF IInv

\* RcuEngine_Call loads the state whose list it will add to.
LEMMA CallKeeps ==
    ASSUME IInv, NEW w \in Writers, RcuEngine_Call(w)
    PROVE  IInv'
  <1> USE DEF RcuEngine_Call, waits, client, Go, Load, ghost
  <1>1. TypeOK'  BY DEF IInv, TypeOK
  <1>2. CountOK'  BY SameCount, RcuDelayAssumption DEF IInv, TypeOK
  <1>3. Roles' /\ HeldInside' /\ Owned' /\ ListsOK'
    BY RcuDelayAssumption DEF IInv, TypeOK, Roles, HeldInside, Owned, ListsOK
  <1>4. StepQuiet'  BY DEF IInv, TypeOK, StepQuiet
  <1>5. OldHolders' /\ Waited'
    BY RcuDelayAssumption DEF IInv, TypeOK, OldHolders, Waited, Next_state
  <1> QED  BY <1>1, <1>2, <1>3, <1>4, <1>5 DEF IInv

\* A node may go on the old list: its holders all go by the old state.
LEMMA AddKeeps ==
    ASSUME IInv, NEW w \in Writers, SL_AddHead(w)
    PROVE  IInv'
  <1> DEFINE n == node[w]
  <1>0. /\ n \in Nodes /\ status[n] = "unlinked"
        /\ local[w] \in {0, 1} /\ state \in {0, 1} /\ Next_state \in {0, 1}
        /\ \A s \in {0, 1} : n \notin list[s]
        /\ Next_state' = Next_state
    BY OtherState DEF IInv, TypeOK, Owned, ListsOK, SL_AddHead, Next_state
  <1> USE DEF SL_AddHead, waits, Go, ghost
  <1>1. TypeOK'  BY <1>0 DEF IInv, TypeOK
  <1>2. CountOK'  BY SameCount, RcuDelayAssumption DEF IInv, TypeOK
  <1>3. Roles' /\ HeldInside' /\ StepQuiet'
    BY RcuDelayAssumption DEF IInv, TypeOK, Roles, HeldInside, StepQuiet
  <1>4. Owned'
    BY <1>0, RcuDelayAssumption DEF IInv, TypeOK, Owned
  <1>5. ListsOK'
    <2>1. \A s \in {0, 1} : list'[s] = IF s = local[w] THEN list[s] \cup {n} ELSE list[s]
      BY <1>0 DEF IInv, TypeOK
    <2>2. \A s \in {0, 1} : \A m \in list'[s] : status'[m] = "retired"
      BY <1>0, <2>1 DEF IInv, TypeOK, ListsOK
    <2>3. list'[0] \cap list'[1] = {}
      BY <1>0, <2>1 DEF IInv, ListsOK
    <2> QED  BY <2>2, <2>3 DEF ListsOK
  <1>6. OldHolders'
    <2> SUFFICES ASSUME NEW r \in Readers \ late, NEW m \in held[r], m \in list'[Next_state]
                 PROVE  local[r] = Next_state
      BY <1>0, RcuDelayAssumption DEF OldHolders, IInv, TypeOK
    <2>1. CASE m \in list[Next_state]
      BY <2>1 DEF IInv, OldHolders
    <2>2. CASE m \notin list[Next_state]
      <3>1. m = n /\ local[w] = Next_state
        BY <1>0, <2>2 DEF IInv, TypeOK
      <3>2. local[w] # state
        BY <3>1, OtherState DEF IInv, TypeOK
      <3> QED  BY <3>1, <3>2 DEF IInv, Waited
    <2> QED  BY <2>1, <2>2
  <1>7. Waited'
    BY <1>0, RcuDelayAssumption DEF IInv, TypeOK, Waited
  <1> QED  BY <1>1, <1>2, <1>3, <1>4, <1>5, <1>6, <1>7 DEF IInv

\* A step of a writer that moves only its place and what it has seen.
LEMMA MoveKeeps ==
    ASSUME IInv, NEW w \in Writers, NEW place,
           place \in {"just0", "just1", "count", "sleep", "step", "return"},
           Go(w, place), node[w] # None, stepper # w,
           UNCHANGED <<state, counter, list, started, stepper, local, client, ghost>>,
           NEW k \in {Unread, 0, 1, 2}, seen' = [seen EXCEPT ![w] = k],
           k = seen[w] \/ k = 0,
           sync' \in [Writers -> BOOLEAN],
           \A r \in Readers \ late : node[w] \in held[r] =>
               (place = "just1" => local[r] = 1) /\ place # "return"
    PROVE  IInv'
  <1> USE DEF client, ghost, Go
  <1>1. TypeOK'  BY DEF IInv, TypeOK
  <1>2. CountOK'  BY SameCount, RcuDelayAssumption DEF IInv, TypeOK
  <1>3. Roles' /\ HeldInside' /\ ListsOK'
    BY RcuDelayAssumption DEF IInv, TypeOK, Roles, HeldInside, ListsOK
  <1>4. Owned'  BY DEF IInv, TypeOK, Owned
  <1>5. StepQuiet' /\ OldHolders'
    BY DEF IInv, TypeOK, StepQuiet, OldHolders, Next_state
  <1>6. Waited'
    BY DEF IInv, TypeOK, Waited, Next_state
  <1> QED  BY <1>1, <1>2, <1>3, <1>4, <1>5, <1>6 DEF IInv

\* The calls and checks of RcuDelay_Wait and RcuDelay_Sync.
LEMMA WaitKeeps ==
    ASSUME IInv, NEW w \in Writers,
           \/ RcuDelay_Wait(w) \/ RcuDelay_Sync(w)
           \/ rcudelay_do_just(w) \/ CountCheck(w)
    PROVE  IInv'
  <1>1. node[w] # None /\ stepper # w
    BY DEF IInv, Owned, Roles, RcuDelay_Wait, RcuDelay_Sync, rcudelay_do_just, CountCheck
  <1>2. seen[w] \in {Unread, 0, 1, 2} /\ seen = [seen EXCEPT ![w] = seen[w]]
        /\ sync \in [Writers -> BOOLEAN]
    BY DEF IInv, TypeOK
  <1>3. CASE RcuDelay_Wait(w)
    BY <1>1, <1>2, <1>3, MoveKeeps DEF RcuDelay_Wait, ctrl
  <1>4. CASE RcuDelay_Sync(w)
    <2>1. sync' \in [Writers -> BOOLEAN] /\ seen' = [seen EXCEPT ![w] = seen[w]]
      BY <1>2, <1>4 DEF RcuDelay_Sync
    <2> QED  BY <1>1, <1>2, <1>4, <2>1, MoveKeeps DEF RcuDelay_Sync, ctrl
  <1>5. CASE rcudelay_do_just(w)
    <2>1. seen' = [seen EXCEPT ![w] = seen[w]] /\ sync' = sync
      BY <1>2, <1>5 DEF rcudelay_do_just, waits
    <2>2. \A r \in Readers : node[w] \in held[r] => at[r] = "in" /\ local[r] \in {0, 1}
      BY DEF IInv, TypeOK, HeldInside
    <2>3. CASE at[w] = "just0"
      <3>1. ASSUME NEW r \in Readers, node[w] \in held[r], counter[0] = 0
            PROVE  local[r] = 1
        BY <2>2, <3>1, ZeroMeansEmpty DEF IInv
      <3> QED
        BY <1>1, <1>2, <1>5, <2>1, <2>3, <3>1, MoveKeeps DEF rcudelay_do_just, ctrl
    <2>4. CASE at[w] = "just1"
      <3>1. ASSUME NEW r \in Readers \ late, node[w] \in held[r], counter[1] = 0
            PROVE  FALSE
        <4>1. local[r] = 1  BY <2>4, <3>1 DEF IInv, Waited
        <4> QED  BY <2>2, <3>1, <4>1, ZeroMeansEmpty DEF IInv
      <3> QED
        BY <1>1, <1>2, <1>5, <2>1, <2>4, <3>1, MoveKeeps DEF rcudelay_do_just, ctrl
    <2> QED  BY <1>5, <2>3, <2>4 DEF rcudelay_do_just
  <1>6. CASE CountCheck(w)
    <2> DEFINE k == IF seen[w] = Unread THEN 0 ELSE seen[w]
    <2>1. /\ k \in {Unread, 0, 1, 2} /\ (k = seen[w] \/ k = 0)
          /\ seen' = [seen EXCEPT ![w] = k] /\ sync' = sync
      BY <1>2, <1>6 DEF CountCheck
    <2>2. Enough(w) => \A r \in Readers \ late : node[w] \notin held[r]
      BY <1>2 DEF Enough, IInv, Waited, Unread
    <2> HIDE DEF k
    <2> QED
      BY <1>1, <1>2, <1>6, <2>1, <2>2, MoveKeeps DEF CountCheck, ctrl
  <1> QED  BY <1>3, <1>4, <1>5, <1>6

\* A thread that waits begins a Step on the same test as the timer.
LEMMA StepCallKeeps ==
    ASSUME IInv, NEW w \in Writers, StepCall(w)
    PROVE  IInv'
  <1>1. CASE Begin(w) /\ Go(w, "step")
    <2> USE <1>1 DEF StepCall, Begin, Go, waits, client, ghost
    <2>1. TypeOK'  BY DEF IInv, TypeOK, Overtaken
    <2>2. CountOK'  BY SameCount, RcuDelayAssumption DEF IInv, TypeOK
    <2>3. Roles' /\ HeldInside' /\ Owned' /\ ListsOK'
      BY RcuDelayAssumption DEF IInv, TypeOK, Roles, HeldInside, Owned, ListsOK
    <2>4. StepQuiet'
      <3>1. \A r \in Readers \ late' : at[r] \in {"enter", "in"} => local[r] = state
        BY BeginIsQuiet
      <3> QED  BY <3>1 DEF IInv, TypeOK, StepQuiet
    <2>5. OldHolders' /\ Waited'
      BY DEF IInv, TypeOK, OldHolders, Waited, Next_state
    <2> QED  BY <2>1, <2>2, <2>3, <2>4, <2>5 DEF IInv
  <1>2. CASE stepper = None /\ ~Quiet /\ Go(w, AfterStep(w)) /\ UNCHANGED <<ctrl, ghost>>
    <2>1. node[w] # None /\ stepper # w
      BY <1>2, RcuDelayAssumption DEF IInv, Owned, StepCall
    <2>2. /\ seen[w] \in {Unread, 0, 1, 2} /\ seen' = [seen EXCEPT ![w] = seen[w]]
          /\ sync' \in [Writers -> BOOLEAN]
      BY DEF IInv, TypeOK, StepCall, waits
    <2>3. AfterStep(w) \in {"just0", "count"}
      BY DEF AfterStep
    <2> HIDE DEF AfterStep
    <2> QED
      BY <1>2, <2>1, <2>2, <2>3, MoveKeeps DEF StepCall, ctrl
  <1> QED  BY <1>1, <1>2 DEF StepCall

\* RcuDelay_Wait and RcuDelay_Sync have returned: the node has no reader.
LEMMA FreeOwnKeeps ==
    ASSUME IInv, NEW w \in Writers, FreeOwn(w)
    PROVE  IInv'
  <1>0. node[w] \in Nodes /\ status[node[w]] = "unlinked" /\ stepper # w
    BY DEF IInv, TypeOK, Owned, Roles, FreeOwn
  <1> USE DEF FreeOwn, ctrl, Go, ghost
  <1>1. TypeOK'  BY <1>0 DEF IInv, TypeOK
  <1>2. CountOK'  BY SameCount, RcuDelayAssumption DEF IInv, TypeOK
  <1>3. Roles' /\ HeldInside' /\ StepQuiet'
    BY <1>0, RcuDelayAssumption DEF IInv, TypeOK, Roles, HeldInside, StepQuiet
  <1>4. Owned'
    BY <1>0, RcuDelayAssumption DEF IInv, TypeOK, Owned
  <1>5. ListsOK'  BY <1>0 DEF IInv, TypeOK, ListsOK
  <1>6. OldHolders'  BY DEF IInv, OldHolders, Next_state
  <1>7. Waited'
    BY <1>0, RcuDelayAssumption DEF IInv, TypeOK, Waited, Next_state
  <1> QED  BY <1>1, <1>2, <1>3, <1>4, <1>5, <1>6, <1>7 DEF IInv

\* Freed memory that is used again is held by nobody and on no list.
LEMMA RelinkKeeps ==
    ASSUME IInv, NEW n \in Nodes, Relink(n)
    PROVE  IInv'
  <1> USE DEF Relink, ctrl, waits, ghost
  <1>1. TypeOK'  BY DEF IInv, TypeOK
  <1>2. CountOK'  BY SameCount DEF IInv
  <1>3. Roles' /\ HeldInside' /\ StepQuiet'
    BY DEF IInv, Roles, HeldInside, StepQuiet
  <1>4. Owned' /\ ListsOK'
    BY DEF IInv, TypeOK, Owned, ListsOK
  <1>5. OldHolders' /\ Waited'
    BY DEF IInv, OldHolders, Waited, Next_state
  <1> QED  BY <1>1, <1>2, <1>3, <1>4, <1>5 DEF IInv

\* An addition that tears a list: what is known of it is that it did.
LEMMA AddTornKeeps ==
    ASSUME IInv, NEW w \in Writers, AddTorn(w)
    PROVE  IInv'
  <1> USE DEF AddTorn, ctrl, waits, client
  <1>1. TypeOK' /\ CountOK' /\ Roles' /\ HeldInside'
    BY DEF IInv, TypeOK, CountOK, Members, Roles, HeldInside
  <1>2. Owned' /\ ListsOK' /\ StepQuiet' /\ OldHolders' /\ Waited'
    BY DEF IInv, Owned, ListsOK, StepQuiet, OldHolders, Waited, Next_state
  <1> QED  BY <1>1, <1>2 DEF IInv

-----------------------------------------------------------------------------

\* No step leaves the invariant.
LEMMA StepKeeps ==
    ASSUME IInv, [Next]_vars
    PROVE  IInv'
  <1>1. CASE UNCHANGED vars
    <2> USE <1>1 DEF vars, ctrl, waits, client, ghost
    <2>1. TypeOK' /\ CountOK' /\ Roles' /\ HeldInside'
      BY DEF IInv, TypeOK, CountOK, Members, Roles, HeldInside
    <2>2. Owned' /\ ListsOK' /\ StepQuiet' /\ OldHolders' /\ Waited'
      BY DEF IInv, Owned, ListsOK, StepQuiet, OldHolders, Waited, Next_state
    <2> QED  BY <2>1, <2>2 DEF IInv
  <1>2. CASE Work
    BY <1>2, LockKeeps, CountInKeeps, FindKeeps, UnlockKeeps, TimerKeeps,
       FreeHeadKeeps, EndKeeps, UnlinkKeeps, CallKeeps, AddKeeps, AddTornKeeps,
       WaitKeeps, StepCallKeeps, FreeOwnKeeps, RelinkKeeps
    DEF Work, StepGoesOn, InWait
  <1> QED  BY <1>1, <1>2 DEF Next

\* What the readers hold that are not late: the held of Abstract.
OnTime == [r \in Readers |-> IF r \in late THEN {} ELSE held[r]]

\* A Step makes late only readers that hold nothing yet.
LEMMA BeginHolds ==
    ASSUME IInv, NEW t, Begin(t), UNCHANGED held
    PROVE  OnTime' = OnTime
  <1>1. ASSUME NEW r \in Readers, r \in late', r \notin late
        PROVE  held[r] = {}
    BY <1>1 DEF IInv, HeldInside, Begin, Overtaken
  <1>2. late \subseteq late'
    BY DEF Begin
  <1> QED  BY <1>1, <1>2 DEF OnTime

\* Every step of the engine is a step of its clients' nodes that Reclaim
\* allows, or leaves them alone.
LEMMA StepReclaims ==
    ASSUME IInv, [Next]_vars
    PROVE  [Abstract!Next]_(Abstract!vars)
  <1> DEFINE Same == OnTime' = OnTime /\ status' = status
  <1>0. held \in [Readers -> SUBSET Nodes]
    BY DEF IInv, TypeOK
  <1>1. ASSUME Same  PROVE UNCHANGED Abstract!vars
    BY <1>1 DEF OnTime, Abstract!vars
  <1>2. ASSUME NEW r \in Readers, NEW n \in Nodes, Find(r, n)
        PROVE  Same \/ Abstract!Find(r, n)
    BY <1>0, <1>2 DEF Find, ghost, OnTime, Abstract!Find
  <1>3. ASSUME NEW r \in Readers, RcuDelay_Unlock(r)  PROVE Abstract!Leave(r)
    BY <1>0, <1>3 DEF RcuDelay_Unlock, Abstract!Leave
  <1>4. ASSUME NEW n \in Nodes, FreeHead(n)  PROVE Abstract!Free(n)
    <2>1. status[n] = "retired"
      BY <1>4, OtherState DEF IInv, TypeOK, ListsOK, FreeHead
    <2> QED
      BY <1>4, <2>1, FreedUnheld DEF FreeHead, ghost, Abstract!Free, Abstract!Becomes
  <1>5. ASSUME NEW w \in Writers, NEW n \in Nodes, Unlink(w, n)
        PROVE  Abstract!Unlink(n)
    BY <1>5 DEF Unlink, ghost, Abstract!Unlink, Abstract!Becomes
  <1>6. ASSUME NEW w \in Writers, SL_AddHead(w)
        PROVE  node[w] \in Nodes /\ Abstract!Retire(node[w])
    BY <1>6, RcuDelayAssumption
    DEF SL_AddHead, IInv, TypeOK, Owned, Abstract!Retire, Abstract!Becomes
  <1>7. ASSUME NEW w \in Writers, FreeOwn(w)
        PROVE  node[w] \in Nodes /\ Abstract!Free(node[w])
    <2>1. \A r \in Readers \ late : node[w] \notin held[r]
      BY <1>7 DEF FreeOwn, IInv, Waited
    <2> QED
      BY <1>7, <2>1
      DEF FreeOwn, ghost, IInv, TypeOK, Owned, Abstract!Free, Abstract!Becomes
  <1>8. ASSUME NEW n \in Nodes, Relink(n)  PROVE Abstract!Reuse(n)
    BY <1>8 DEF Relink, ghost, Abstract!Reuse, Abstract!Becomes
  <1>9. ASSUME NEW r \in Readers, RcuDelay_Lock(r) \/ CountIn(r)
        PROVE  Same
    BY <1>9 DEF RcuDelay_Lock, CountIn, client, ghost, OnTime
  <1>10. ASSUME NEW w \in Writers,
                \/ RcuEngine_Call(w) \/ RcuDelay_Wait(w) \/ RcuDelay_Sync(w)
                \/ rcudelay_do_just(w) \/ CountCheck(w) \/ AddTorn(w)
         PROVE  Same
    BY <1>10 DEF RcuEngine_Call, RcuDelay_Wait, RcuDelay_Sync, rcudelay_do_just,
                 CountCheck, AddTorn, client, ghost, OnTime
  <1>11. ASSUME NEW w \in Writers, StepCall(w)  PROVE Same
    <2>1. UNCHANGED <<held, status>>
      BY <1>11 DEF StepCall, client
    <2>2. CASE Begin(w)  BY <2>1, <2>2, BeginHolds
    <2>3. CASE UNCHANGED ghost  BY <2>1, <2>3 DEF ghost, OnTime
    <2> QED  BY <1>11, <2>2, <2>3 DEF StepCall
  <1>12. CASE rcu_engine_timeout
    <2>1. Same  BY <1>12, BeginHolds DEF rcu_engine_timeout, client
    <2> QED  BY <1>1, <2>1
  <1>13. CASE End \/ UNCHANGED vars
    <2>1. Same  BY <1>13 DEF End, client, ghost, vars, OnTime
    <2> QED  BY <1>1, <2>1
  <1> HIDE DEF Same
  <1> QED
    BY <1>1, <1>2, <1>3, <1>4, <1>5, <1>6, <1>7, <1>8, <1>9, <1>10, <1>11, <1>12,
       <1>13
    DEF Next, Work, StepGoesOn, InWait, Abstract!Next

LEMMA EngineKeeps == Spec => []IInv
  <1>1. IInv /\ [Next]_vars => IInv'
    BY StepKeeps
  <1> QED  BY <1>1, InitIInv, PTL DEF Spec

\* The counters, the lists and the places of the threads have their types: a
\* counter that the same reader counted down never goes below zero, also when
\* a Step overtook it between its load of the state and its counting.
THEOREM EngineTypeCorrect == Spec => []TypeOK
  <1>1. IInv => TypeOK
    BY DEF IInv
  <1> QED  BY <1>1, EngineKeeps, PTL

\* The engine frees a node, in a Step or after a wait, only when every reader
\* that has it was overtaken by a Step before it counted itself in: whatever
\* Steps begin, and whenever writers add their nodes.
THEOREM EngineReclaims == Spec => IsReclaim
  <1>1. Spec => []IInv
    BY EngineKeeps
  <1>2. Init => Abstract!Init
    BY DEF Init, Abstract!Init
  <1>3. IInv /\ [Next]_vars => [Abstract!Next]_(Abstract!vars)
    BY StepReclaims
  <1> QED  BY <1>1, <1>2, <1>3, PTL DEF Spec, IsReclaim, Abstract!Spec
=============================================================================
