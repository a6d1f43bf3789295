------------------------------ MODULE RcuDelay ------------------------------
(***************************************************************************)
(* RCU_DELAY_S (src/h/utl/rcu_delay.h, src/src/lib/util/rcu/rcu_delay.c)   *)
(* as the RCU engine uses it (src/src/lib/base/rcu_engine/rcu_engine.c).   *)
(*                                                                         *)
(* Only RcuDelay_Step takes the spin lock.  RcuDelay_Lock loads the state  *)
(* and then counts its caller in, RcuDelay_Call loads the state and then   *)
(* adds to its list: between the two, Steps of the timer and of threads    *)
(* that wait may have replaced the state.  A thread is overtaken when a    *)
(* Step begins while it still goes by a state an earlier Step replaced;    *)
(* the history variable late keeps who was, until it leaves its section or *)
(* has added its node.                                                     *)
(*                                                                         *)
(* An addition to a list that a Step is emptying is a data race.  It may   *)
(* come out well, or leave a list that leads to freed nodes (torn): what   *)
(* the program does with that is undefined, and nothing more is said.      *)
(*                                                                         *)
(* Readers and Writers are the roles threads play.  A writer unlinks a     *)
(* node and either hands it to RcuEngine_Call or waits (RcuEngine_Wait,    *)
(* RcuEngine_Sync) and frees it itself.                                    *)
(***************************************************************************)
EXTENDS Integers, FiniteSets

CONSTANTS Readers, Writers, Nodes,
          Timer,     \* the timer thread
          None       \* no thread, no node

ASSUME RcuDelayAssumption ==
    /\ IsFiniteSet(Readers) /\ Readers \cap Writers = {}
    /\ Timer \notin Readers \cup Writers /\ None \notin Writers \cup {Timer} \cup Nodes

VARIABLES state, counter, list,
          started,   \* the engine's timer runs
          stepper,   \* the thread inside RcuDelay_Step, or None
          at,        \* each thread's place
          local,     \* the state it has loaded
          seen,      \* grace periods since old_period_count (2: or more), or
                     \* Unread
          sync,      \* it is in RcuDelay_Sync
          node,      \* the node a writer has unlinked
          held, status,
          late,      \* the threads that a Step has overtaken (history)
          torn       \* a list leads to nodes that were freed

ctrl == <<state, counter, list, started, stepper>>
waits == <<seen, sync>>
client == <<node, held, status>>
ghost == <<late, torn>>
vars == <<ctrl, at, local, waits, client, ghost>>

Unread == -1

Init ==
    /\ state = 0
    /\ counter = [s \in {0, 1} |-> 0]
    /\ list = [s \in {0, 1} |-> {}]
    /\ started = FALSE
    /\ stepper = None
    /\ at = [t \in Readers \cup Writers |-> "out"]
    /\ local = [t \in Readers \cup Writers |-> 0]
    /\ seen = [w \in Writers |-> Unread]
    /\ sync = [w \in Writers |-> FALSE]
    /\ node = [w \in Writers |-> None]
    /\ held = [r \in Readers |-> {}]
    /\ status = [n \in Nodes |-> "linked"]
    /\ late = {}
    /\ torn = FALSE

Go(t, place) == at' = [at EXCEPT ![t] = place]

Load(t) == local' = [local EXCEPT ![t] = state]

-----------------------------------------------------------------------------
(* Readers. *)

RcuDelay_Lock(r) ==
    /\ at[r] = "out"
    /\ Load(r)
    /\ Go(r, "enter")
    /\ UNCHANGED <<ctrl, waits, client, ghost>>

CountIn(r) ==
    /\ at[r] = "enter"
    /\ counter' = [counter EXCEPT ![local[r]] = @ + 1]
    /\ Go(r, "in")
    /\ UNCHANGED <<state, list, started, stepper, local, waits, client, ghost>>

Find(r, n) ==
    /\ at[r] = "in"
    /\ status[n] = "linked" /\ n \notin held[r]
    /\ held' = [held EXCEPT ![r] = @ \cup {n}]
    /\ UNCHANGED <<ctrl, at, local, waits, node, status, ghost>>

\* Slip: the reader counts itself out of the state there is by now.
UnlockCurrent(r) ==
    /\ at[r] = "in"
    /\ counter' = [counter EXCEPT ![state] = @ - 1]
    /\ held' = [held EXCEPT ![r] = {}]
    /\ late' = late \ {r}
    /\ Go(r, "out")
    /\ UNCHANGED <<state, list, started, stepper, local, waits, node, status, torn>>

RcuDelay_Unlock(r) ==
    /\ at[r] = "in"
    /\ counter' = [counter EXCEPT ![local[r]] = @ - 1]
    /\ held' = [held EXCEPT ![r] = {}]
    /\ late' = late \ {r}
    /\ Go(r, "out")
    /\ UNCHANGED <<state, list, started, stepper, local, waits, node, status, torn>>

-----------------------------------------------------------------------------
(* RcuDelay_Step, by the timer or by a thread that waits. *)

Next_state == 1 - state

\* Slip: the readers of the current state are looked at.
QuietCurrent == counter[state] = 0

Quiet == counter[Next_state] = 0

\* Who goes by a state that has been replaced.
Overtaken == {t \in Readers \cup Writers : at[t] \in {"enter", "add"} /\ local[t] # state}

\* The spin lock is taken and the test passes, wherever other threads are
\* between their load and its use.
Begin(t) ==
    /\ stepper = None
    /\ Quiet
    /\ stepper' = t
    /\ late' = late \cup Overtaken
    /\ UNCHANGED <<state, counter, list, started, torn>>

FreeHead(n) ==
    /\ stepper # None
    /\ n \in list[Next_state]
    /\ list' = [list EXCEPT ![Next_state] = @ \ {n}]
    /\ status' = [status EXCEPT ![n] = "freed"]
    /\ UNCHANGED <<state, counter, started, stepper, at, local, waits, node, held, ghost>>

\* Where a waiting thread goes on after its Step.
AfterStep(w) == IF sync[w] THEN "just0" ELSE "count"

\* Slip: the grace period is not counted.
EndUncounted ==
    /\ stepper # None /\ list[Next_state] = {}
    /\ state' = Next_state
    /\ stepper' = None
    /\ IF stepper = Timer THEN UNCHANGED at ELSE Go(stepper, AfterStep(stepper))
    /\ UNCHANGED <<counter, list, started, local, waits, client, ghost>>

\* Slip: the state stays as it is.
EndUnflipped ==
    /\ stepper # None /\ list[Next_state] = {}
    /\ seen' = [w \in Writers |-> IF seen[w] \in {0, 1} THEN seen[w] + 1 ELSE seen[w]]
    /\ stepper' = None
    /\ IF stepper = Timer THEN UNCHANGED at ELSE Go(stepper, AfterStep(stepper))
    /\ UNCHANGED <<state, counter, list, started, local, sync, client, ghost>>

\* The list is empty: grace_period_count goes up and the states change over.
End ==
    /\ stepper # None /\ list[Next_state] = {}
    /\ seen' = [w \in Writers |-> IF seen[w] \in {0, 1} THEN seen[w] + 1 ELSE seen[w]]
    /\ state' = Next_state
    /\ stepper' = None
    /\ IF stepper = Timer THEN UNCHANGED at ELSE Go(stepper, AfterStep(stepper))
    /\ UNCHANGED <<counter, list, started, local, sync, client, ghost>>

rcu_engine_timeout ==
    /\ started
    /\ Begin(Timer)
    /\ UNCHANGED <<at, local, waits, client>>

-----------------------------------------------------------------------------
(* Writers. *)

Unlink(w, n) ==
    /\ at[w] = "out" /\ node[w] = None
    /\ status[n] = "linked"
    /\ status' = [status EXCEPT ![n] = "unlinked"]
    /\ node' = [node EXCEPT ![w] = n]
    /\ UNCHANGED <<ctrl, at, local, waits, held, ghost>>

\* The engine's mutex lets one thread at a time into RcuDelay_Call.
RcuEngine_Call(w) ==
    /\ at[w] = "out" /\ node[w] # None
    /\ \A u \in Writers : at[u] # "add"
    /\ started' = TRUE
    /\ Load(w)
    /\ Go(w, "add")
    /\ UNCHANGED <<state, counter, list, stepper, waits, client, ghost>>

\* The node comes to the head of the list, whole.
SL_AddHead(w) ==
    /\ at[w] = "add"
    /\ list' = [list EXCEPT ![local[w]] = @ \cup {node[w]}]
    /\ status' = [status EXCEPT ![node[w]] = "retired"]
    /\ node' = [node EXCEPT ![w] = None]
    /\ late' = late \ {w}
    /\ Go(w, "out")
    /\ UNCHANGED <<state, counter, started, stepper, local, waits, held, torn>>

\* A Step has been emptying the list between the two accesses of SL_AddHead.
AddTorn(w) ==
    /\ at[w] = "add" /\ w \in late
    /\ torn' = TRUE
    /\ UNCHANGED <<ctrl, at, local, waits, client, late>>

RcuDelay_Wait(w) ==
    /\ at[w] = "out" /\ node[w] # None
    /\ seen' = [seen EXCEPT ![w] = 0]
    /\ Go(w, "sleep")
    /\ UNCHANGED <<ctrl, local, sync, client, ghost>>

RcuDelay_Sync(w) ==
    /\ at[w] = "out" /\ node[w] # None
    /\ sync' = [sync EXCEPT ![w] = TRUE]
    /\ Go(w, "just0")
    /\ UNCHANGED <<ctrl, local, seen, client, ghost>>

\* rcudelay_do_just reads one counter, and the other if the first is 0.
rcudelay_do_just(w) ==
    /\ \/ /\ at[w] = "just0"
          /\ Go(w, IF counter[0] = 0 THEN "just1" ELSE "count")
       \/ /\ at[w] = "just1"
          /\ Go(w, IF counter[1] = 0 THEN "return" ELSE "count")
    /\ UNCHANGED <<ctrl, local, waits, client, ghost>>

StepCall(w) ==
    /\ at[w] = "sleep"
    /\ \/ Begin(w) /\ Go(w, "step")
       \/ stepper = None /\ ~Quiet /\ Go(w, AfterStep(w)) /\ UNCHANGED <<ctrl, ghost>>
    /\ UNCHANGED <<local, waits, client>>

Enough(w) == seen[w] >= 2

\* old_period_count is read the first time, and compared with later on.
CountCheck(w) ==
    /\ at[w] = "count"
    /\ Go(w, IF Enough(w) THEN "return" ELSE "sleep")
    /\ seen' = [seen EXCEPT ![w] = IF @ = Unread THEN 0 ELSE @]
    /\ UNCHANGED <<ctrl, local, sync, client, ghost>>

\* The call returns and the writer frees the node it unlinked.
FreeOwn(w) ==
    /\ at[w] = "return"
    /\ status' = [status EXCEPT ![node[w]] = "freed"]
    /\ node' = [node EXCEPT ![w] = None]
    /\ seen' = [seen EXCEPT ![w] = Unread]
    /\ sync' = [sync EXCEPT ![w] = FALSE]
    /\ Go(w, "out")
    /\ UNCHANGED <<ctrl, local, held, ghost>>

Relink(n) ==
    /\ status[n] = "freed"
    /\ status' = [status EXCEPT ![n] = "linked"]
    /\ UNCHANGED <<ctrl, at, local, waits, node, held, ghost>>

InWait(w) == rcudelay_do_just(w) \/ StepCall(w) \/ CountCheck(w) \/ FreeOwn(w)

StepGoesOn == End \/ \E n \in Nodes : FreeHead(n)

Work ==
    \/ \E r \in Readers : RcuDelay_Lock(r) \/ CountIn(r) \/ RcuDelay_Unlock(r)
    \/ \E r \in Readers, n \in Nodes : Find(r, n)
    \/ rcu_engine_timeout \/ StepGoesOn
    \/ \E w \in Writers :
          \/ RcuEngine_Call(w) \/ SL_AddHead(w) \/ AddTorn(w)
          \/ RcuDelay_Wait(w) \/ RcuDelay_Sync(w) \/ InWait(w)
          \/ \E n \in Nodes : Unlink(w, n)
    \/ \E n \in Nodes : Relink(n)

Next == (~torn /\ Work) \/ (torn /\ UNCHANGED vars)

Spec == Init /\ [][Next]_vars

\* Threads inside a call go on, readers leave their sections, the timer
\* fires, and a thread that waits for the spin lock gets it.
FairSpec ==
    /\ Spec
    /\ \A r \in Readers : WF_vars(~torn /\ (CountIn(r) \/ RcuDelay_Unlock(r)))
    /\ \A w \in Writers : WF_vars(~torn /\ SL_AddHead(w)) /\ SF_vars(~torn /\ InWait(w))
    /\ WF_vars(~torn /\ StepGoesOn)
    /\ WF_vars(~torn /\ rcu_engine_timeout)

-----------------------------------------------------------------------------
(* Properties. *)

\* Every field keeps its type, and no counter goes below zero.
TypeOK ==
    /\ state \in {0, 1}
    /\ counter \in [{0, 1} -> Nat]
    /\ list \in [{0, 1} -> SUBSET Nodes]
    /\ started \in BOOLEAN
    /\ stepper \in Writers \cup {Timer, None}
    /\ at \in [Readers \cup Writers -> {"out", "enter", "in", "add", "just0", "just1",
                                        "count", "sleep", "step", "return"}]
    /\ local \in [Readers \cup Writers -> {0, 1}]
    /\ seen \in [Writers -> {Unread, 0, 1, 2}]
    /\ sync \in [Writers -> BOOLEAN]
    /\ node \in [Writers -> Nodes \cup {None}]
    /\ held \in [Readers -> SUBSET Nodes]
    /\ status \in [Nodes -> {"linked", "unlinked", "retired", "freed"}]
    /\ late \subseteq Readers \cup Writers
    /\ torn \in BOOLEAN

\* What the readers hold that no Step has overtaken.
Abstract == INSTANCE Reclaim WITH
    held <- [r \in Readers |-> IF r \in late THEN {} ELSE held[r]]

\* A node is freed, by a Step or by a writer that waited, only when no reader
\* that found it is still inside, although readers count themselves in late,
\* nodes are added to lists that are being emptied, and Steps test only one
\* counter.  The one exception is a reader that a Step overtook: RcuDelay_Step
\* began while it had loaded a state but not yet counted itself in, and an
\* earlier Step had replaced that state.
IsReclaim == Abstract!Spec

\* What the module is for, 延迟释放 (deferred freeing): a node a reader holds
\* has not been freed.  RcuDelay_Step does not keep it for readers it overtook.
HeldIsNotFreed == \A r \in Readers, n \in Nodes : n \in held[r] => status[n] # "freed"

\* Every node handed to RcuEngine_Call is freed, however sections overlap,
\* unless a late addition has torn a list.
RetiredIsFreed ==
    \A n \in Nodes : (status[n] = "retired") ~> (status[n] = "freed" \/ torn)

\* RcuEngine_Wait and RcuEngine_Sync return, also while readers keep coming.
WaitEnds ==
    \A w \in Writers : at[w] \in {"sleep", "just0"} ~> (at[w] = "return" \/ torn)
=============================================================================
