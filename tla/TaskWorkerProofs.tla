-------------------------- MODULE TaskWorkerProofs --------------------------
(***************************************************************************)
(* Proofs about the event and about the task worker that waits on one, for *)
(* any number of senders and any user events.                              *)
(*                                                                         *)
(* The event: NoLostWakeup is not inductive.  It becomes so with what the  *)
(* count means to the reader: while it is on its way to the semaphore      *)
(* writers know what it wants (Marked); before its decrement a match has   *)
(* raised the count (DecPaid), and after it the count is below zero unless *)
(* a token is due (WaitOwed), so the next match posts one.                 *)
(*                                                                         *)
(* The worker, its senders, its timer and its creator use their event as   *)
(* Event describes, so what is proved of the event holds of the worker.    *)
(*                                                                         *)
(* The queue: with one sender, what lies between the indices is what was   *)
(* put and not yet taken.  QInv says where the sender and the reader are   *)
(* in their calls: the slot that is being written is outside the waiting   *)
(* ones, the slot that is being read is the first of them, and the index   *)
(* each of them is about to store goes by one it alone moves.              *)
(***************************************************************************)
EXTENDS TaskWorker, Wrap, SequenceTheorems

(* The event. *)

Marked == rpc # "idle" => flag = mode /\ event_watting = want

DecPaid == rpc = "dec" /\ Ready => count >= 1 \/ TokenDue

WaitOwed == rpc \in {"enter", "wait"} => count < 0 \/ TokenDue

EInv == EventTypeOK /\ Marked /\ DecPaid /\ WaitOwed /\ NoLostWakeup

\* A new event has no reader and no bits.
LEMMA EventInit == Event_Create => EInv
  <1> SUFFICES ASSUME Event_Create  PROVE EInv
    OBVIOUS
  <1>1. rpc = "idle"  BY DEF Event_Create
  <1>2. timed \in BOOLEAN /\ mode \in {"any", "all"} /\ flag \in {"none", "any", "all"}
    BY Zenon DEF Event_Create
  <1>3. count \in Int /\ v \in Nat  BY DEF Event_Create
  <1>4. EventTypeOK
    BY <1>1, <1>2, <1>3, Zenon DEF Event_Create, EventTypeOK
  <1> QED
    BY <1>1, <1>4 DEF EInv, Marked, DecPaid, WaitOwed, NoLostWakeup

\* A write that completes what a marked reader wants raises the count, and
\* owes a token if the count was below zero.
LEMMA WriteKeeps ==
    ASSUME EInv, NEW w \in Writers, NEW new \in SUBSET Bits, Event_Write(w, new)
    PROVE  EInv'
  <1> DEFINE match == flag # "none" /\ Satisfied(event_watting \cap events', event_watting, flag)
  <1>1. EventTypeOK'
    BY DEF EInv, EventTypeOK, Event_Write, sem_CV, args
  <1>2. /\ rpc' = rpc /\ v' = v /\ want' = want /\ mode' = mode
        /\ flag' = flag /\ event_watting' = event_watting
        /\ holding = {}
    BY DEF Event_Write, args
  <1>3. CASE match
    <2>1. count' = count + 1 /\ (count + 1 <= 0 => holding' = {w})
      BY <1>3 DEF Event_Write, sem_CV
    <2>2. count \in Int /\ count' \in Int
      BY <1>1 DEF EInv, EventTypeOK
    <2>3. count' >= 1 \/ TokenDue'
      BY <2>1, <2>2 DEF TokenDue
    <2>4. count < 0 => TokenDue'
      BY <2>1, <2>2 DEF TokenDue
    <2>5. TokenDue => TokenDue'
      BY <1>2 DEF TokenDue
    <2> QED
      BY <1>1, <1>2, <2>3, <2>4, <2>5
      DEF EInv, Marked, DecPaid, WaitOwed, NoLostWakeup
  <1>4. CASE ~match
    <2>1. count' = count /\ holding' = holding
      BY <1>4 DEF Event_Write
    <2>2. rpc # "idle" => ~Ready'
      BY <1>2, <1>4 DEF EInv, EventTypeOK, Marked, Ready
    <2> QED
      BY <1>1, <1>2, <2>1, <2>2
      DEF EInv, Marked, DecPaid, WaitOwed, NoLostWakeup, TokenDue
  <1> QED  BY <1>3, <1>4

\* A reader goes to the semaphore only when what it wants is not there.
LEMMA LookKeeps ==
    ASSUME EInv, NEW asked \in SUBSET Bits, NEW how \in {"any", "all"},
           NEW reset \in {"none", "any", "all"}, Look(asked, how, reset),
           want' = asked, mode' = how, timed' \in BOOLEAN
    PROVE  EInv'
  <1>1. EventTypeOK'
    BY DEF EInv, EventTypeOK, Look, sem
  <1>2. rpc' = "idle" \/ (rpc' = "dec" /\ ~Ready' /\ flag' = how /\ event_watting' = asked)
    BY DEF Look, Ready
  <1> QED
    BY <1>1, <1>2 DEF EInv, Marked, DecPaid, WaitOwed, NoLostWakeup

\* No step of a writer or of the reader, a wait that runs out included,
\* leaves the invariant.
LEMMA EventStep == EInv /\ [EventNext]_eventVars => EInv'
  <1> SUFFICES ASSUME EInv, [EventNext]_eventVars  PROVE EInv'
    OBVIOUS
  <1>1. ASSUME NEW w \in Writers, NEW new \in SUBSET Bits, Event_Write(w, new)
        PROVE  EInv'
    BY <1>1, WriteKeeps
  <1>2. ASSUME NEW w \in Writers, _OSSEM_V(w)
        PROVE  EInv'
    <2>1. EventTypeOK'
      BY <1>2 DEF EInv, EventTypeOK, _OSSEM_V, shared, args
    <2>2. TokenDue'
      BY <1>2 DEF EInv, EventTypeOK, _OSSEM_V, TokenDue
    <2> QED
      BY <1>2, <2>1, <2>2
      DEF _OSSEM_V, shared, args, EInv, Marked, DecPaid, WaitOwed, NoLostWakeup
  <1>3. ASSUME NEW asked \in SUBSET Bits, NEW how \in {"any", "all"},
               NEW bounded \in BOOLEAN, Event_Read(asked, how, bounded)
        PROVE  EInv'
    <2>1. flag \in {"none", "any", "all"}  BY DEF EInv, EventTypeOK
    <2> QED  BY <1>3, <2>1, LookKeeps DEF Event_Read
  <1>4. CASE Event_ReadAgain
    <2>1. want \in SUBSET Bits /\ mode \in {"any", "all"} /\ timed \in BOOLEAN
      BY DEF EInv, EventTypeOK
    <2>2. want' = want /\ mode' = mode /\ timed' = timed
      BY <1>4 DEF Event_ReadAgain, args
    <2> QED  BY <1>4, <2>1, <2>2, LookKeeps DEF Event_ReadAgain
  <1>5. CASE sem_CPV
    <2>1. EventTypeOK'
      BY <1>5 DEF EInv, EventTypeOK, sem_CPV, shared, args
    <2>2. Ready' = Ready /\ TokenDue' = TokenDue
      BY <1>5 DEF sem_CPV, shared, args, Ready, TokenDue
    <2>3. count \in Int
      BY DEF EInv, EventTypeOK
    <2>4. rpc' = "back" \/ (rpc' = "enter" /\ count' < 0 /\ (Ready => TokenDue))
      BY <1>5, <2>3 DEF sem_CPV, EInv, DecPaid
    <2> QED
      BY <1>5, <2>1, <2>2, <2>4
      DEF sem_CPV, shared, args, EInv, Marked, DecPaid, WaitOwed, NoLostWakeup
  <1>6. CASE _OSSEM_P
    <2>1. EventTypeOK'
      BY <1>6 DEF EInv, EventTypeOK, _OSSEM_P, shared, args
    <2>2. \/ rpc' = "back"
          \/ /\ rpc = "enter" /\ rpc' = "wait"
             /\ Ready' = Ready /\ TokenDue' = TokenDue /\ count' = count
      BY <1>6 DEF _OSSEM_P, shared, args, Ready, TokenDue
    <2> QED
      BY <1>6, <2>1, <2>2
      DEF _OSSEM_P, shared, args, EInv, Marked, DecPaid, WaitOwed, NoLostWakeup
  <1>7. CASE Woken
    BY <1>7 DEF Woken, shared, args, EInv, EventTypeOK, Marked, DecPaid, WaitOwed, NoLostWakeup
  <1>8. CASE TimeOut
    BY <1>8 DEF TimeOut, shared, sem, args, EInv, EventTypeOK, Marked, DecPaid, WaitOwed, NoLostWakeup
  <1>9. CASE Undo
    BY <1>9 DEF Undo, shared, args, EInv, EventTypeOK, Marked, DecPaid, WaitOwed, NoLostWakeup
  <1>10. CASE GiveUp
    BY <1>10 DEF GiveUp, sem, args, EInv, EventTypeOK, Marked, DecPaid, WaitOwed, NoLostWakeup
  <1>11. CASE UNCHANGED eventVars
    BY <1>11
    DEF eventVars, shared, sem, args, EInv, EventTypeOK, Marked, DecPaid, WaitOwed,
        NoLostWakeup, Ready, TokenDue
  <1> QED
    BY <1>1, <1>2, <1>3, <1>4, <1>5, <1>6, <1>7, <1>8, <1>9, <1>10, <1>11
    DEF EventNext, EventRead

\* However writers and the reader interleave, and whatever time limits the
\* reader sets, a reader of Event_Read whose bits are there is woken.
THEOREM EventNeverLosesWakeup == EventSpec => [](EventTypeOK /\ NoLostWakeup)
  <1>1. EventSpec => []EInv
    BY EventInit, EventStep, PTL DEF EventSpec
  <1>2. EInv => EventTypeOK /\ NoLostWakeup
    BY DEF EInv
  <1> QED  BY <1>1, <1>2, PTL

-----------------------------------------------------------------------------
(* The worker's use of the event. *)

\* A write of one bit by any of the threads is a step of the event.
LEMMA WriteIsStep ==
    ASSUME NEW w \in Writers, NEW bit \in Bits, Event_Write(w, {bit})
    PROVE  EventNext
  <1>1. {bit} \in SUBSET Bits  OBVIOUS
  <1> QED  BY <1>1 DEF EventNext

\* Every step of the task worker's system is a step of its event or leaves
\* the event alone.
LEMMA StepOfEvent ==
    ASSUME [Next]_vars
    PROVE  [EventNext]_eventVars
  <1>1. /\ Writers = Senders \cup {Timer, Creator}
        /\ DATA \in Bits /\ CLOCK \in Bits /\ QUIT \in Bits
        /\ Users \subseteq Bits
    BY TaskWorkerAssumption
  <1>2. CASE MTimer_Add
    BY <1>2 DEF MTimer_Add
  <1>3. CASE task_worker_TriggerQuit
    BY <1>1, <1>3, WriteIsStep DEF task_worker_TriggerQuit
  <1>4. CASE task_worker_TimeOut
    BY <1>1, <1>4, WriteIsStep DEF task_worker_TimeOut, Tell
  <1>5. ASSUME NEW e \in Users, TASK_Worker_SetEvent(e)
        PROVE  UNCHANGED eventVars
    BY <1>5 DEF TASK_Worker_SetEvent
  <1>6. ASSUME NEW s \in Senders, SenderSteps(s)
        PROVE  [EventNext]_eventVars
    <2>1. CASE UNCHANGED eventVars
      BY <2>1
    <2>2. CASE Tell(s, DATA)
      BY <1>1, <2>2, WriteIsStep DEF Tell
    <2> QED  BY <1>6, <2>1, <2>2 DEF SenderSteps, TASK_Worker_MsgInput
  <1>7. ASSUME NEW s \in Senders, NEW e \in Users, TASK_Worker_EventInput(s, e)
        PROVE  EventNext
    BY <1>1, <1>7, WriteIsStep DEF TASK_Worker_EventInput, Tell
  <1>8. ASSUME NEW w \in Writers, Posts(w)
        PROVE  EventNext
    BY <1>8 DEF Posts, EventNext
  <1>9. CASE Read
    <2>1. CASE Event_Read(Bits, "any", FALSE)
      <3>1. Bits \in SUBSET Bits /\ "any" \in {"any", "all"} /\ FALSE \in BOOLEAN
        BY Zenon
      <3> QED  BY <2>1, <3>1, Zenon DEF EventNext
    <2>2. CASE EventRead
      BY <2>2 DEF EventNext
    <2> QED  BY <1>9, <2>1, <2>2 DEF Read
  <1>10. CASE Clock \/ Data \/ Quit \/ \E i \in Users : task_worker_DealUserEvent(i)
    BY <1>10 DEF Clock, Data, Quit, task_worker_DealUserEvent
  <1>11. CASE UNCHANGED vars
    BY <1>11 DEF vars
  <1> QED
    BY <1>2, <1>3, <1>4, <1>5, <1>6, <1>7, <1>8, <1>9, <1>10, <1>11 DEF Next, Work

\* The system of the task worker implements the event's specification.
THEOREM WorkerUsesEvent == Spec => EventSpec
  <1>1. Init => Event_Create  BY DEF Init
  <1>2. [Next]_vars => [EventNext]_eventVars  BY StepOfEvent
  <1> QED  BY <1>1, <1>2, PTL DEF Spec, EventSpec

\* task_worker_Main never sleeps in Event_Read on an event that is written,
\* whichever of its threads wrote it and when.
THEOREM WorkerIsWoken == Spec => []NoLostWakeup
  BY WorkerUsesEvent, EventNeverLosesWakeup, PTL

-----------------------------------------------------------------------------
(* The queue, with the one sender it is made for. *)

\* What a write and a read in progress know of the queue.
QInv(s) ==
    /\ MsgQueTypeOK
    /\ wr[s] # "idle" => MSGQUE_Count < Capacity
    /\ wr[s] \in {"load", "store"} => msgs[prod % Slots] = <<s, sent[s] + 1>>
    /\ wr[s] = "store" => old[s] = prod
    /\ rd \in {"copy", "bump"} => MSGQUE_Count > 0
    /\ rd = "bump" => msg = msgs[cons % Slots]

\* The constants as the arithmetic needs them.
LEMMA Sizes ==
  /\ Capacity \in Nat /\ Capacity > 0 /\ Slots \in Nat /\ Slots > 0 /\ Slots >= Capacity
  /\ IndexMod \in Nat /\ IndexMod > 0 /\ IndexMod > Slots /\ IndexMod % Slots = 0
  BY MsgQueAssumption

\* The write index is count messages ahead of the read index, and the slot it
\* stands for is count slots ahead.
LEMMA CountIs ==
  ASSUME NEW c \in 0..IndexMod-1, NEW p \in 0..IndexMod-1
  PROVE  /\ (p - c) % IndexMod \in 0..IndexMod-1
         /\ p = (c + ((p - c) % IndexMod)) % IndexMod
         /\ p % Slots = (c + ((p - c) % IndexMod)) % Slots
  <1>1. /\ IndexMod \in Nat /\ IndexMod > 0 /\ Slots \in Nat /\ Slots > 0
        /\ IndexMod % Slots = 0
    BY Sizes
  <1>2. c \in Int /\ p \in Int /\ p - c \in Int  BY <1>1
  <1>3. PICK n \in 0..IndexMod-1 : n = (p - c) % IndexMod  BY <1>1, <1>2, DivMod
  <1>4. (((p - c) % IndexMod) + c) % IndexMod = (p - c + c) % IndexMod
    BY <1>1, <1>2, ModAdd
  <1>5. p - c + c = p /\ n + c = c + n  BY <1>1, <1>2
  <1>6. p % IndexMod = p  BY <1>1, ModSmall
  <1>7. (c + n) % IndexMod = p  BY <1>3, <1>4, <1>5, <1>6
  <1>8. (((c + n) % IndexMod) + 0) % Slots = (c + n + 0) % Slots
    <2>1. c + n \in Int /\ 0 \in Int  BY <1>1, <1>2
    <2> QED  BY <1>1, <2>1, ModMod
  <1>9. c + n + 0 = c + n /\ p + 0 = p  BY <1>1, <1>2
  <1> QED  BY <1>3, <1>7, <1>8, <1>9

\* One message written and one message read, as the count sees them.
LEMMA CountSteps ==
  ASSUME NEW c \in 0..IndexMod-1, NEW p \in 0..IndexMod-1, NEW n, n = (p - c) % IndexMod
  PROVE  /\ n + 1 < IndexMod => (((p + 1) % IndexMod) - c) % IndexMod = n + 1
         /\ n > 0 => (p - ((c + 1) % IndexMod)) % IndexMod = n - 1
  <1>1. IndexMod \in Nat /\ IndexMod > 0  BY Sizes
  <1>2. c \in Int /\ p \in Int  BY <1>1
  <1>3. n \in 0..IndexMod-1 /\ n \in Int /\ p = (c + n) % IndexMod  BY <1>1, CountIs
  <1>4. c % IndexMod = c  BY <1>1, ModSmall
  <1>5. ASSUME n + 1 < IndexMod
        PROVE  (((p + 1) % IndexMod) - c) % IndexMod = n + 1
    <2>1. (p + 1) % IndexMod = (c + n + 1) % IndexMod
      <3>1. c + n \in Int /\ 1 \in Int  BY <1>2, <1>3
      <3>2. (((c + n) % IndexMod) + 1) % IndexMod = (c + n + 1) % IndexMod
        BY <1>1, <3>1, ModAdd
      <3> QED  BY <1>3, <3>2
    <2>2. PICK a \in Int : a = c + n + 1  BY <1>2, <1>3
    <2>3. 0 + a - c = n + 1 /\ 0 + a - c \in 0..IndexMod-1
      BY <1>1, <1>2, <1>3, <1>5, <2>2
    <2>4. (0 + (a % IndexMod) - (c % IndexMod)) % IndexMod = 0 + a - c
      BY <1>1, <1>2, <2>3, ModDiff
    <2>5. a % IndexMod \in Int  BY <1>1, DivMod
    <2>6. 0 + (a % IndexMod) - c = (a % IndexMod) - c  BY <1>2, <2>5
    <2> QED  BY <1>4, <2>1, <2>2, <2>3, <2>4, <2>6
  <1>6. ASSUME n > 0
        PROVE  (p - ((c + 1) % IndexMod)) % IndexMod = n - 1
    <2>1. PICK a \in Int : a = c + n  BY <1>2, <1>3
    <2>2. PICK b \in Int : b = c + 1  BY <1>2
    <2>3. 0 + a - b = n - 1 /\ 0 + a - b \in 0..IndexMod-1
      BY <1>1, <1>2, <1>3, <1>6, <2>1, <2>2
    <2>4. (0 + (a % IndexMod) - (b % IndexMod)) % IndexMod = 0 + a - b
      BY <1>1, <2>1, <2>2, <2>3, ModDiff
    <2>5. b % IndexMod \in Int  BY <1>1, DivMod
    <2>6. 0 + p - (b % IndexMod) = p - (b % IndexMod)  BY <1>2, <2>5
    <2> QED  BY <1>3, <2>1, <2>2, <2>3, <2>4, <2>6
  <1> QED  BY <1>5, <1>6

\* The slots of the messages that wait, and the one to be written, differ.
LEMMA SlotsDiffer ==
  ASSUME NEW c \in Int, NEW i \in Int, NEW k \in Int, i < k, k - i < Slots
  PROVE  (c + i) % Slots # (c + k) % Slots
  <1>1. Slots \in Nat /\ Slots > 0  BY Sizes
  <1>2. PICK a \in Int : a = c + i  OBVIOUS
  <1>3. PICK b \in Int : b = c + k  OBVIOUS
  <1>4. a - b < Slots /\ b - a < Slots /\ a # b  BY <1>1, <1>2, <1>3
  <1>5. a % Slots # b % Slots  BY <1>1, <1>4, ModInjective
  <1> QED  BY <1>2, <1>3, <1>5

\* An index stands for a slot.
LEMMA SlotIs ==
  ASSUME NEW a \in Int
  PROVE  a % Slots \in 0..Slots-1
  <1>1. Slots \in Nat /\ Slots > 0  BY Sizes
  <1> QED  BY <1>1, DivMod

\* The reader hands on the message it has copied.
Handled == rd = "have" /\ rd' = "idle" /\ msg' = Empty /\ UNCHANGED <<writing, cons, msgs>>

\* The steps of the queue, as its users take them.
QStep(s) ==
    \/ MSGQUE_WriteMsg(s) \/ Fill(s) \/ LoadProd(s) \/ StoreProd(s)
    \/ MSGQUE_ReadMsg \/ Copy \/ Bump \/ Handled
    \/ UNCHANGED queVars

Message == (Senders \X Nat) \cup {Empty}

\* The types, in the form the steps need them.
LEMMA QTypes ==
  ASSUME NEW s, Senders = {s}, MsgQueTypeOK
  PROVE  /\ prod \in 0..IndexMod-1 /\ cons \in 0..IndexMod-1 /\ prod \in Int /\ cons \in Int
         /\ msgs \in [0..Slots-1 -> Message]
         /\ sent \in [Senders -> Nat] /\ sent[s] \in Nat /\ s \in Senders
         /\ wr \in [Senders -> {"idle", "fill", "load", "store"}]
         /\ old \in [Senders -> 0..IndexMod-1]
         /\ MSGQUE_Count \in 0..Capacity /\ MSGQUE_Count \in Int
         /\ MSGQUE_Count = (prod - cons) % IndexMod
         /\ MSGQUE_Count < IndexMod
         /\ prod % Slots = (cons + MSGQUE_Count) % Slots
         /\ prod % Slots \in 0..Slots-1 /\ cons % Slots \in 0..Slots-1
  <1>1. prod \in 0..IndexMod-1 /\ cons \in 0..IndexMod-1  BY DEF MsgQueTypeOK
  <1>2. IndexMod \in Nat /\ Slots \in Nat /\ Slots > 0 /\ Capacity \in Nat  BY Sizes
  <1>3. prod \in Int /\ cons \in Int  BY <1>1, <1>2
  <1>4. MSGQUE_Count = (prod - cons) % IndexMod  BY DEF MSGQUE_Count
  <1>5. /\ (prod - cons) % IndexMod \in 0..IndexMod-1
        /\ prod % Slots = (cons + ((prod - cons) % IndexMod)) % Slots
    BY <1>1, CountIs
  <1>6. MSGQUE_Count \in 0..IndexMod-1  BY <1>4, <1>5
  <1>7. MSGQUE_Count <= Capacity  BY DEF MsgQueTypeOK
  <1>8. MSGQUE_Count \in 0..Capacity /\ MSGQUE_Count \in Int /\ MSGQUE_Count < IndexMod
    BY <1>2, <1>6, <1>7
  <1>9. prod % Slots \in 0..Slots-1 /\ cons % Slots \in 0..Slots-1  BY <1>3, SlotIs
  <1>10. prod % Slots = (cons + MSGQUE_Count) % Slots  BY <1>4, <1>5
  <1> QED  BY <1>1, <1>3, <1>4, <1>8, <1>9, <1>10 DEF MsgQueTypeOK, Message

\* Filling the slot at prod touches none of the messages that wait.
LEMMA FillSpares ==
  ASSUME NEW s, Senders = {s}, MsgQueTypeOK, MSGQUE_Count < Capacity,
         NEW i \in 0..MSGQUE_Count-1
  PROVE  (cons + i) % Slots # prod % Slots
  <1>1. /\ cons \in Int /\ MSGQUE_Count \in Int /\ MSGQUE_Count \in 0..Capacity
        /\ prod % Slots = (cons + MSGQUE_Count) % Slots
    BY QTypes
  <1>2. Slots \in Int /\ Capacity \in Int /\ Slots >= Capacity  BY Sizes
  <1>3. PICK n \in Int : n = MSGQUE_Count  BY <1>1
  <1>4. i \in Int /\ i < n /\ n - i < Slots  BY <1>1, <1>2, <1>3
  <1>5. (cons + i) % Slots # (cons + n) % Slots  BY <1>1, <1>3, <1>4, SlotsDiffer
  <1> QED  BY <1>1, <1>3, <1>5

\* Every step of the queue keeps what a write and a read know of it.
LEMMA QKept ==
  ASSUME NEW s, Senders = {s}, QInv(s), QStep(s)
  PROVE  QInv(s)'
  <1>0. MsgQueTypeOK  BY DEF QInv
  <1>1. /\ prod \in 0..IndexMod-1 /\ cons \in 0..IndexMod-1 /\ prod \in Int /\ cons \in Int
        /\ msgs \in [0..Slots-1 -> Message]
        /\ sent \in [Senders -> Nat] /\ sent[s] \in Nat /\ s \in Senders
        /\ wr \in [Senders -> {"idle", "fill", "load", "store"}]
        /\ old \in [Senders -> 0..IndexMod-1]
        /\ MSGQUE_Count \in 0..Capacity /\ MSGQUE_Count \in Int
        /\ MSGQUE_Count = (prod - cons) % IndexMod
        /\ MSGQUE_Count < IndexMod
        /\ prod % Slots \in 0..Slots-1 /\ cons % Slots \in 0..Slots-1
    BY <1>0, QTypes
  <1>2. /\ Capacity \in Nat /\ Slots \in Nat /\ Slots >= Capacity /\ IndexMod \in Nat
        /\ IndexMod > Slots /\ IndexMod > 0
    BY Sizes
  <1>3. CASE MSGQUE_WriteMsg(s)
    <2>1. /\ UNCHANGED <<prod, sent, old, cons, rd, msg, msgs>>
          /\ wr' = [wr EXCEPT ![s] = "fill"] /\ MSGQUE_Count' = MSGQUE_Count
          /\ ~MSGQUE_Full
      BY <1>3 DEF MSGQUE_WriteMsg, reading, MSGQUE_Count
    <2>2. MSGQUE_Count < Capacity  BY <1>1, <1>2, <2>1 DEF MSGQUE_Full
    <2>3. wr' \in [Senders -> {"idle", "fill", "load", "store"}] /\ wr'[s] = "fill"
      BY <1>1, <2>1
    <2>4. MsgQueTypeOK'  BY <1>0, <2>1, <2>3 DEF MsgQueTypeOK
    <2> QED  BY <2>1, <2>2, <2>3, <2>4 DEF QInv
  <1>4. CASE Fill(s)
    <2>1. /\ UNCHANGED <<prod, sent, old, cons, rd, msg>>
          /\ msgs' = [msgs EXCEPT ![prod % Slots] = <<s, sent[s] + 1>>]
          /\ wr' = [wr EXCEPT ![s] = "load"] /\ MSGQUE_Count' = MSGQUE_Count
          /\ wr[s] = "fill"
      BY <1>4 DEF Fill, reading, MSGQUE_Count
    <2>2. MSGQUE_Count < Capacity  BY <2>1 DEF QInv
    <2>3. wr' \in [Senders -> {"idle", "fill", "load", "store"}] /\ wr'[s] = "load"
      BY <1>1, <2>1
    <2>4. <<s, sent[s] + 1>> \in Message  BY <1>1 DEF Message
    <2>5. msgs' \in [0..Slots-1 -> Message] /\ msgs'[prod % Slots] = <<s, sent[s] + 1>>
      BY <1>1, <2>1, <2>4
    <2>6. MsgQueTypeOK'  BY <1>0, <2>1, <2>3, <2>5 DEF MsgQueTypeOK, Message
    <2>7. ASSUME rd = "bump"  PROVE msgs'[cons % Slots] = msgs[cons % Slots]
      <3>1. MSGQUE_Count > 0  BY <2>7 DEF QInv
      <3>2. 0 \in 0..MSGQUE_Count-1  BY <1>1, <3>1
      <3>3. (cons + 0) % Slots # prod % Slots  BY <1>0, <2>2, <3>2, FillSpares
      <3>4. cons + 0 = cons  BY <1>1
      <3> QED  BY <1>1, <2>1, <3>3, <3>4
    <2> QED  BY <2>1, <2>2, <2>3, <2>5, <2>6, <2>7 DEF QInv
  <1>5. CASE LoadProd(s)
    <2>1. /\ UNCHANGED <<prod, sent, cons, rd, msg, msgs>>
          /\ old' = [old EXCEPT ![s] = prod]
          /\ wr' = [wr EXCEPT ![s] = "store"] /\ MSGQUE_Count' = MSGQUE_Count
          /\ wr[s] = "load"
      BY <1>5 DEF LoadProd, reading, MSGQUE_Count
    <2>3. wr' \in [Senders -> {"idle", "fill", "load", "store"}] /\ wr'[s] = "store"
      BY <1>1, <2>1
    <2>4. old' \in [Senders -> 0..IndexMod-1] /\ old'[s] = prod  BY <1>1, <2>1
    <2>5. MsgQueTypeOK'  BY <1>0, <2>1, <2>3, <2>4 DEF MsgQueTypeOK
    <2> QED  BY <2>1, <2>3, <2>4, <2>5 DEF QInv
  <1>6. CASE StoreProd(s)
    <2>1. /\ UNCHANGED <<old, cons, rd, msg, msgs>>
          /\ prod' = (old[s] + 1) % IndexMod
          /\ sent' = [sent EXCEPT ![s] = sent[s] + 1]
          /\ wr' = [wr EXCEPT ![s] = "idle"]
          /\ wr[s] = "store"
      BY <1>6 DEF StoreProd, reading
    <2>2. MSGQUE_Count < Capacity /\ old[s] = prod  BY <2>1 DEF QInv
    <2>3. wr' \in [Senders -> {"idle", "fill", "load", "store"}] /\ wr'[s] = "idle"
      BY <1>1, <2>1
    <2>4. sent' \in [Senders -> Nat]  BY <1>1, <2>1
    <2>5. prod' \in 0..IndexMod-1
      <3>1. prod + 1 \in Int  BY <1>1
      <3> QED  BY <1>2, <2>1, <2>2, <3>1, DivMod
    <2>6. MSGQUE_Count' = MSGQUE_Count + 1
      <3>1. MSGQUE_Count + 1 < IndexMod  BY <1>1, <1>2, <2>2
      <3>2. (((prod + 1) % IndexMod) - cons) % IndexMod = MSGQUE_Count + 1
        BY <1>1, <3>1, CountSteps
      <3> QED  BY <2>1, <2>2, <3>2 DEF MSGQUE_Count
    <2>7. MSGQUE_Count' <= Capacity /\ MSGQUE_Count' > 0  BY <1>1, <1>2, <2>2, <2>6
    <2>8. MsgQueTypeOK'  BY <1>0, <2>1, <2>3, <2>4, <2>5, <2>7 DEF MsgQueTypeOK
    <2> QED  BY <2>1, <2>3, <2>7, <2>8 DEF QInv
  <1>7. CASE MSGQUE_ReadMsg
    <2>1. /\ UNCHANGED <<prod, sent, wr, old, cons, msg, msgs>>
          /\ rd' = "copy" /\ MSGQUE_Count' = MSGQUE_Count /\ MSGQUE_Count # 0
      BY <1>7 DEF MSGQUE_ReadMsg, writing, MSGQUE_Count, MSGQUE_Empty
    <2>2. MSGQUE_Count > 0  BY <1>1, <2>1
    <2>3. MsgQueTypeOK'  BY <1>0, <2>1 DEF MsgQueTypeOK
    <2> QED  BY <2>1, <2>2, <2>3 DEF QInv
  <1>8. CASE Copy
    <2>1. /\ UNCHANGED <<prod, sent, wr, old, cons, msgs>>
          /\ rd = "copy" /\ rd' = "bump" /\ MSGQUE_Count' = MSGQUE_Count
          /\ msg' = msgs[cons % Slots]
      BY <1>8 DEF Copy, writing, MSGQUE_Count
    <2>2. MsgQueTypeOK'  BY <1>0, <2>1 DEF MsgQueTypeOK
    <2> QED  BY <2>1, <2>2 DEF QInv
  <1>9. CASE Bump
    <2>1. /\ UNCHANGED <<prod, sent, wr, old, msg, msgs>>
          /\ rd = "bump" /\ rd' = "have" /\ cons' = (cons + 1) % IndexMod
      BY <1>9 DEF Bump, writing
    <2>2. MSGQUE_Count > 0  BY <2>1 DEF QInv
    <2>3. MSGQUE_Count' = MSGQUE_Count - 1
      <3>1. (prod - ((cons + 1) % IndexMod)) % IndexMod = MSGQUE_Count - 1
        BY <1>1, <2>2, CountSteps
      <3> QED  BY <2>1, <3>1 DEF MSGQUE_Count
    <2>4. /\ MSGQUE_Count' <= Capacity
          /\ MSGQUE_Count < Capacity => MSGQUE_Count' < Capacity
      BY <1>1, <1>2, <2>3
    <2>5. cons' \in 0..IndexMod-1
      <3>1. cons + 1 \in Int  BY <1>1
      <3> QED  BY <1>2, <2>1, <3>1, DivMod
    <2>6. MsgQueTypeOK'  BY <1>0, <2>1, <2>4, <2>5 DEF MsgQueTypeOK
    <2> QED  BY <2>1, <2>4, <2>6 DEF QInv
  <1>10. CASE Handled
    <2>1. /\ UNCHANGED <<prod, sent, wr, old, cons, msgs>>
          /\ rd' = "idle" /\ MSGQUE_Count' = MSGQUE_Count
      BY <1>10 DEF Handled, writing, MSGQUE_Count
    <2>2. MsgQueTypeOK'  BY <1>0, <2>1 DEF MsgQueTypeOK
    <2> QED  BY <2>1, <2>2 DEF QInv
  <1>11. CASE UNCHANGED queVars
    <2>1. UNCHANGED <<prod, sent, wr, old, cons, rd, msg, msgs>> /\ MSGQUE_Count' = MSGQUE_Count
      BY <1>11 DEF queVars, writing, reading, MSGQUE_Count
    <2>2. MsgQueTypeOK'  BY <1>0, <2>1 DEF MsgQueTypeOK
    <2> QED  BY <2>1, <2>2 DEF QInv
  <1> QED  BY <1>3, <1>4, <1>5, <1>6, <1>7, <1>8, <1>9, <1>10, <1>11 DEF QStep

\* The worker and its one sender use the queue by its steps only.
LEMMA StepOfQueue ==
  ASSUME NEW s, Senders = {s}, [Next]_vars
  PROVE  QStep(s)
  <1>1. ASSUME NEW t \in Senders, SenderSteps(t)  PROVE QStep(s)
    <2>1. t = s  OBVIOUS
    <2> QED  BY <1>1, <2>1 DEF SenderSteps, TASK_Worker_MsgInput, QStep
  <1>2. CASE Data
    BY <1>2 DEF Data, QStep, Handled
  <1>3. CASE UNCHANGED queVars  BY <1>3 DEF QStep
  <1>4. CASE MTimer_Add \/ task_worker_TriggerQuit \/ task_worker_TimeOut
    BY <1>3, <1>4 DEF MTimer_Add, task_worker_TriggerQuit, task_worker_TimeOut
  <1>5. ASSUME NEW e \in Users,
               \/ TASK_Worker_SetEvent(e)
               \/ \E t \in Senders : TASK_Worker_EventInput(t, e)
               \/ task_worker_DealUserEvent(e)
        PROVE  QStep(s)
    BY <1>3, <1>5 DEF TASK_Worker_SetEvent, TASK_Worker_EventInput, task_worker_DealUserEvent
  <1>6. ASSUME NEW w \in Writers, Posts(w)  PROVE QStep(s)
    BY <1>3, <1>6 DEF Posts
  <1>7. CASE Read \/ Clock \/ Quit
    BY <1>3, <1>7 DEF Read, Clock, Quit
  <1>8. CASE UNCHANGED vars  BY <1>3, <1>8 DEF vars
  <1> QED  BY <1>1, <1>2, <1>4, <1>5, <1>6, <1>7, <1>8 DEF Next, Work

LEMMA QInitial ==
  ASSUME NEW s, Senders = {s}, MSGQUE_Create
  PROVE  QInv(s)
  <1>1. PICK i \in Starts : prod = i /\ cons = i  BY DEF MSGQUE_Create
  <1>2. i \in 0..IndexMod-1 /\ IndexMod \in Nat /\ IndexMod > 0 /\ Capacity \in Nat
    BY MsgQueAssumption
  <1>3. MSGQUE_Count = 0
    <2>1. prod - cons = 0 /\ 0 \in 0..IndexMod-1  BY <1>1, <1>2
    <2>2. 0 % IndexMod = 0  BY <1>2, <2>1, ModSmall
    <2> QED  BY <2>1, <2>2 DEF MSGQUE_Count
  <1>4. MsgQueTypeOK
    <2>1. /\ msgs = [j \in 0..Slots-1 |-> Empty] /\ sent = [t \in Senders |-> 0]
          /\ wr = [t \in Senders |-> "idle"] /\ old = [t \in Senders |-> 0]
          /\ rd = "idle"
      BY DEF MSGQUE_Create
    <2>2. 0 \in 0..IndexMod-1 /\ MSGQUE_Count <= Capacity  BY <1>2, <1>3
    <2> QED  BY <1>1, <1>2, <2>1, <2>2 DEF MsgQueTypeOK
  <1>5. wr[s] = "idle" /\ rd = "idle"  BY DEF MSGQUE_Create
  <1> QED  BY <1>4, <1>5 DEF QInv

\* The inductive invariant of the queue in its worker.
LEMMA QInductive ==
  ASSUME NEW s, Senders = {s}
  PROVE  Spec => []QInv(s)
  <1>1. Init => QInv(s)  BY QInitial DEF Init
  <1>2. QInv(s) /\ [Next]_vars => QInv(s)'  BY QKept, StepOfQueue
  <1> QED  BY <1>1, <1>2, PTL DEF Spec

\* What the worker and its senders keep of their own.
WorkerTypeOK ==
    /\ phase \in {"creating", "running", "failed"}
    /\ handlers \subseteq Users /\ called \subseteq Users
    /\ telling \subseteq Senders
    /\ todo \subseteq Bits
    /\ done \in BOOLEAN

LEMMA WorkerTyped ==
  ASSUME WorkerTypeOK, EventTypeOK, [Next]_vars
  PROVE  WorkerTypeOK'
  <1>1. CASE MTimer_Add \/ task_worker_TriggerQuit
    BY <1>1 DEF MTimer_Add, task_worker_TriggerQuit, WorkerTypeOK, worker
  <1>2. CASE task_worker_TimeOut
    BY <1>2 DEF task_worker_TimeOut, WorkerTypeOK, worker
  <1>3. ASSUME NEW e \in Users, TASK_Worker_SetEvent(e)  PROVE WorkerTypeOK'
    BY <1>3 DEF TASK_Worker_SetEvent, WorkerTypeOK, worker
  <1>4. ASSUME NEW t \in Senders, SenderSteps(t)  PROVE WorkerTypeOK'
    BY <1>4 DEF SenderSteps, TASK_Worker_MsgInput, WorkerTypeOK, worker
  <1>5. ASSUME NEW t \in Senders, NEW e \in Users, TASK_Worker_EventInput(t, e)
        PROVE  WorkerTypeOK'
    BY <1>5 DEF TASK_Worker_EventInput, WorkerTypeOK, worker
  <1>6. ASSUME NEW w \in Writers, Posts(w)  PROVE WorkerTypeOK'
    BY <1>6 DEF Posts, WorkerTypeOK, worker
  <1>7. CASE Read
    BY <1>7 DEF Read, WorkerTypeOK, EventTypeOK
  <1>8. CASE Clock
    BY <1>8 DEF Clock, WorkerTypeOK
  <1>9. CASE Data
    BY <1>9 DEF Data, WorkerTypeOK
  <1>10. CASE Quit
    BY <1>10 DEF Quit, WorkerTypeOK
  <1>11. ASSUME NEW i \in Users, task_worker_DealUserEvent(i)  PROVE WorkerTypeOK'
    BY <1>11 DEF task_worker_DealUserEvent, WorkerTypeOK
  <1>12. CASE UNCHANGED vars  BY <1>12 DEF vars, worker, WorkerTypeOK
  <1> QED
    BY <1>1, <1>2, <1>3, <1>4, <1>5, <1>6, <1>7, <1>8, <1>9, <1>10, <1>11, <1>12
    DEF Next, Work

\* With the one producer msgque_utl.c asks for, every field of the worker, its
\* event and its queue keeps its type, and the queue its limit, also when the
\* indices wrap.
THEOREM WorkerTypeCorrect ==
  ASSUME NEW s, Senders = {s}
  PROVE  Spec => []TypeOK
  <1>1. Init => WorkerTypeOK  BY DEF Init, WorkerTypeOK
  <1>2. WorkerTypeOK /\ EventTypeOK /\ [Next]_vars => WorkerTypeOK'  BY WorkerTyped
  <1>3. Spec => []EventTypeOK  BY WorkerUsesEvent, EventNeverLosesWakeup, PTL
  <1>4. Spec => []WorkerTypeOK  BY <1>1, <1>2, <1>3, PTL DEF Spec
  <1>5. Spec => []QInv(s)  BY QInductive
  <1>6. WorkerTypeOK /\ EventTypeOK /\ QInv(s) => TypeOK  BY DEF WorkerTypeOK, QInv, TypeOK
  <1> QED  BY <1>3, <1>4, <1>5, <1>6, PTL

-----------------------------------------------------------------------------
(* The queue implements Fifo. *)

\* What waits is a sequence of messages.
WaitingOK ==
    /\ Waiting \in Seq(Message) /\ Len(Waiting) = MSGQUE_Count
    /\ \A i \in 1..MSGQUE_Count : Waiting[i] = msgs[(cons + i - 1) % Slots]

\* What the reader has taken.
Has == [c \in {"reader"} |-> IF rd = "have" THEN <<msg>> ELSE <<>>]

LEMMA SeqOf ==
  ASSUME NEW S, NEW n \in Nat, NEW f \in [1..n -> S]
  PROVE  f \in Seq(S) /\ Len(f) = n
  <1>1. f \in Seq(S)  BY SeqDef
  <1>2. DOMAIN f = 1..n /\ DOMAIN f = 1..Len(f) /\ Len(f) \in Nat  BY <1>1, LenProperties
  <1> QED  BY <1>1, <1>2

LEMMA WaitingFacts ==
  ASSUME NEW s, Senders = {s}
  PROVE  QInv(s) => WaitingOK
  <1> SUFFICES ASSUME QInv(s)  PROVE WaitingOK
    OBVIOUS
  <1>1. /\ cons \in Int /\ msgs \in [0..Slots-1 -> Message]
        /\ MSGQUE_Count \in 0..Capacity
    BY QTypes DEF QInv
  <1>2. PICK n \in Nat : n = MSGQUE_Count  BY <1>1, Sizes
  <1>3. \A i \in 1..n : msgs[(cons + i - 1) % Slots] \in Message
    <2> TAKE i \in 1..n
    <2>1. cons + i - 1 \in Int  BY <1>1
    <2>2. (cons + i - 1) % Slots \in 0..Slots-1  BY <2>1, SlotIs
    <2> QED  BY <1>1, <2>2
  <1>4. /\ Waiting \in [1..n -> Message]
        /\ \A i \in 1..n : Waiting[i] = msgs[(cons + i - 1) % Slots]
    BY <1>2, <1>3 DEF Waiting
  <1>5. Waiting \in Seq(Message) /\ Len(Waiting) = n  BY <1>4, SeqOf
  <1> QED  BY <1>2, <1>4, <1>5 DEF WaitingOK

\* Storing the index appends the sender's next message.
LEMMA StorePuts ==
  ASSUME NEW s, Senders = {s}, QInv(s), QInv(s)', WaitingOK, WaitingOK', StoreProd(s)
  PROVE  Abstract!Put(s, 1)
  <1>1. /\ cons \in 0..IndexMod-1 /\ prod \in 0..IndexMod-1 /\ cons \in Int
        /\ MSGQUE_Count \in 0..Capacity /\ MSGQUE_Count = (prod - cons) % IndexMod
        /\ sent \in [Senders -> Nat] /\ sent[s] \in Nat /\ s \in Senders
        /\ prod % Slots = (cons + MSGQUE_Count) % Slots
    BY QTypes DEF QInv
  <1>2. /\ UNCHANGED <<old, cons, rd, msg, msgs>> /\ wr[s] = "store"
        /\ prod' = (old[s] + 1) % IndexMod
        /\ sent' = [sent EXCEPT ![s] = @ + 1]
    BY DEF StoreProd, reading
  <1>3. /\ MSGQUE_Count < Capacity /\ old[s] = prod
        /\ msgs[prod % Slots] = <<s, sent[s] + 1>>
    BY <1>2 DEF QInv
  <1>4. PICK m \in Nat : m = MSGQUE_Count  BY <1>1, Sizes
  <1>5. Capacity \in Nat /\ IndexMod \in Nat /\ m + 1 < IndexMod /\ m + 1 <= Capacity
    BY <1>3, <1>4, Sizes
  <1>6. MSGQUE_Count' = m + 1
    <2>1. (((prod + 1) % IndexMod) - cons) % IndexMod = m + 1
      BY <1>1, <1>4, <1>5, CountSteps
    <2> QED  BY <1>2, <1>3, <2>1 DEF MSGQUE_Count
  <1>7. /\ Waiting \in Seq(Message) /\ Len(Waiting) = m
        /\ Waiting' \in Seq(Message) /\ Len(Waiting') = m + 1
        /\ \A i \in 1..m : Waiting[i] = msgs[(cons + i - 1) % Slots]
        /\ \A i \in 1..m+1 : Waiting'[i] = msgs[(cons + i - 1) % Slots]
    BY <1>2, <1>4, <1>6 DEF WaitingOK, Message
  <1> DEFINE B == [i \in 1..1 |-> <<s, sent[s] + i>>]
  <1>8. B \in Seq(Message) /\ Len(B) = 1 /\ B[1] = <<s, sent[s] + 1>>
    <2>1. \A i \in 1..1 : <<s, sent[s] + i>> \in Message  BY <1>1 DEF Message
    <2>2. B \in [1..1 -> Message]  BY <2>1
    <2>3. B[1] = <<s, sent[s] + 1>>  OBVIOUS
    <2> HIDE DEF B
    <2> QED  BY <2>2, <2>3, SeqOf
  <1>9. Abstract!Batch(s, 1) = B  BY DEF Abstract!Batch
  <1> HIDE DEF B
  <1>10. /\ Waiting \o B \in Seq(Message) /\ Len(Waiting \o B) = m + 1
         /\ \A i \in 1..m+1 : (Waiting \o B)[i] = IF i <= m THEN Waiting[i] ELSE B[i - m]
    <2>1. /\ Waiting \o B \in Seq(Message)
          /\ Len(Waiting \o B) = Len(Waiting) + Len(B)
          /\ \A i \in 1..Len(Waiting)+Len(B) :
                (Waiting \o B)[i] = IF i <= Len(Waiting) THEN Waiting[i] ELSE B[i - Len(Waiting)]
      BY <1>7, <1>8, ConcatProperties
    <2>2. Len(Waiting) = m /\ Len(B) = 1 /\ m \in Nat  BY <1>4, <1>7, <1>8
    <2> QED  BY <2>1, <2>2
  <1>11. ASSUME NEW i \in 1..m+1  PROVE Waiting'[i] = (Waiting \o B)[i]
    <2>1. CASE i <= m
      <3>1. i \in 1..m  BY <2>1
      <3> QED  BY <1>7, <1>10, <2>1, <3>1
    <2>2. CASE ~(i <= m)
      <3>1. i = m + 1 /\ i - m = 1 /\ cons + i - 1 = cons + m  BY <1>1, <2>2
      <3>2. Waiting'[i] = <<s, sent[s] + 1>>  BY <1>1, <1>3, <1>4, <1>7, <3>1
      <3> QED  BY <1>8, <1>10, <2>2, <3>1, <3>2
    <2> QED  BY <2>1, <2>2
  <1>12. Waiting' = Waiting \o B  BY <1>7, <1>10, <1>11, SeqEqual
  <1>13. Has' = Has  BY <1>2 DEF Has
  <1>14. Len(Waiting) + 1 <= Capacity  BY <1>5, <1>7
  <1> QED  BY <1>2, <1>9, <1>12, <1>13, <1>14 DEF Abstract!Put, Has

\* An index stands for the same slot before and after it wraps.
LEMMA SlotOf ==
  ASSUME NEW a \in Int, NEW j \in Int
  PROVE  ((a % IndexMod) + j) % Slots = (a + j) % Slots
  <1>1. /\ IndexMod \in Nat /\ IndexMod > 0 /\ Slots \in Nat /\ Slots > 0
        /\ IndexMod % Slots = 0
    BY Sizes
  <1> QED  BY <1>1, ModMod

\* Bumping the index takes the first message.
LEMMA BumpTakes ==
  ASSUME NEW s, Senders = {s}, QInv(s), QInv(s)', WaitingOK, WaitingOK', Bump
  PROVE  Abstract!Take("reader", 1)
  <1>1. /\ cons \in 0..IndexMod-1 /\ prod \in 0..IndexMod-1 /\ cons \in Int
        /\ MSGQUE_Count \in 0..Capacity /\ MSGQUE_Count = (prod - cons) % IndexMod
    BY QTypes DEF QInv
  <1>2. /\ UNCHANGED <<prod, sent, wr, old, msg, msgs>>
        /\ rd = "bump" /\ rd' = "have" /\ cons' = (cons + 1) % IndexMod
    BY DEF Bump, writing
  <1>3. MSGQUE_Count > 0 /\ msg = msgs[cons % Slots]  BY <1>2 DEF QInv
  <1>4. PICK m \in Nat : m = MSGQUE_Count /\ m >= 1  BY <1>1, <1>3, Sizes
  <1>5. PICK k \in Nat : k = m - 1  BY <1>4
  <1>6. MSGQUE_Count' = k
    <2>1. (prod - ((cons + 1) % IndexMod)) % IndexMod = m - 1
      BY <1>1, <1>3, <1>4, CountSteps
    <2> QED  BY <1>2, <1>5, <2>1 DEF MSGQUE_Count
  <1>7. /\ Waiting \in Seq(Message) /\ Len(Waiting) = m
        /\ Waiting' \in Seq(Message) /\ Len(Waiting') = k
        /\ \A i \in 1..m : Waiting[i] = msgs[(cons + i - 1) % Slots]
        /\ \A i \in 1..k : Waiting'[i] = msgs[(cons' + i - 1) % Slots]
    BY <1>2, <1>4, <1>6 DEF WaitingOK, Message
  <1>8. ASSUME NEW i \in 1..k  PROVE (cons' + i - 1) % Slots = (cons + (i + 1) - 1) % Slots
    <2>1. PICK j \in Int : j = i - 1  OBVIOUS
    <2>2. PICK a \in Int : a = cons + 1  BY <1>1
    <2>3. ((a % IndexMod) + j) % Slots = (a + j) % Slots
      BY SlotOf
    <2>4. cons' \in Int /\ cons' = a % IndexMod
      <3>1. a % IndexMod \in Int  BY <2>2, Sizes, DivMod
      <3> QED  BY <1>2, <2>2, <3>1
    <2>5. cons' + i - 1 = cons' + j /\ cons + (i + 1) - 1 = a + j
      BY <1>1, <2>1, <2>2, <2>4
    <2> QED  BY <2>3, <2>4, <2>5
  <1>9. \A i \in 1..m : Waiting[i] \in Message  BY <1>7, ElementOfSeq
  <1>10. SubSeq(Waiting, 1, 1) = <<msg>>
    <2>1. \A i \in 1..1 : i \in 1..m  BY <1>4
    <2>2. /\ SubSeq(Waiting, 1, 1) \in Seq(Message) /\ Len(SubSeq(Waiting, 1, 1)) = 1
          /\ \A i \in 1..1 : SubSeq(Waiting, 1, 1)[i] = Waiting[i]
      BY <1>9, <2>1, SubSeqProperties
    <2>3. Waiting[1] = msg
      <3>1. 1 \in 1..m /\ cons + 1 - 1 = cons  BY <1>1, <1>4
      <3> QED  BY <1>3, <1>7, <3>1
    <2>4. msg \in Message
      <3>1. 1 \in 1..m  BY <1>4
      <3> QED  BY <1>9, <2>3, <3>1
    <2>5. <<msg>> \in Seq(Message) /\ Len(<<msg>>) = 1 /\ <<msg>>[1] = msg  BY <2>4
    <2>6. \A i \in 1..1 : SubSeq(Waiting, 1, 1)[i] = <<msg>>[i]
      <3>1. \A i \in 1..1 : i = 1  OBVIOUS
      <3> QED  BY <2>2, <2>3, <2>5, <3>1
    <2> QED  BY <2>2, <2>5, <2>6, SeqEqual
  <1>11. Waiting' = SubSeq(Waiting, 2, Len(Waiting))
    <2> DEFINE S == SubSeq(Waiting, 2, m)
    <2>1. \A i \in 2..m : Waiting[i] \in Message
      <3>1. \A i \in 2..m : i \in 1..m  OBVIOUS
      <3> QED  BY <1>9, <3>1
    <2>2. /\ S \in Seq(Message) /\ Len(S) = IF 2 <= m THEN m - 2 + 1 ELSE 0
          /\ \A i \in 1..m-2+1 : S[i] = Waiting[2 + i - 1]
      BY <2>1, SubSeqProperties
    <2> HIDE DEF S
    <2>3. Len(S) = k /\ m - 2 + 1 = k  BY <1>4, <1>5, <2>2
    <2>4. ASSUME NEW i \in 1..k  PROVE Waiting'[i] = S[i]
      <3>1. S[i] = Waiting[2 + i - 1]  BY <2>2, <2>3
      <3>2. i + 1 \in 1..m /\ 2 + i - 1 = i + 1  BY <1>4, <1>5
      <3>3. Waiting[i + 1] = msgs[(cons + (i + 1) - 1) % Slots]  BY <1>7, <3>2
      <3> QED  BY <1>7, <1>8, <3>1, <3>2, <3>3
    <2>5. Waiting' = S  BY <1>7, <2>2, <2>3, <2>4, SeqEqual
    <2> QED  BY <1>7, <2>5 DEF S
  <1>12. Has["reader"] = <<>> /\ Has' = [Has EXCEPT !["reader"] = <<msg>>]
    BY <1>2 DEF Has
  <1>13. 1 <= Len(Waiting) /\ 1 + 1 = 2  BY <1>4, <1>7
  <1> QED  BY <1>2, <1>10, <1>11, <1>12, <1>13 DEF Abstract!Take, Has

\* The end of a message's handling.
LEMMA HandledHands ==
  ASSUME Handled
  PROVE  Abstract!Hand("reader")
  <1>1. /\ UNCHANGED <<prod, sent, wr, old, cons, msgs>> /\ rd = "have" /\ rd' = "idle"
    BY DEF Handled, writing
  <1>2. Waiting' = Waiting  BY <1>1 DEF Waiting, MSGQUE_Count
  <1>3. Has["reader"] = <<msg>> /\ <<msg>> # <<>>  BY <1>1 DEF Has
  <1>4. Has' = [Has EXCEPT !["reader"] = <<>>]  BY <1>1 DEF Has
  <1> QED  BY <1>1, <1>2, <1>3, <1>4 DEF Abstract!Hand, Has

\* Steps that neither store nor bump an index leave what waits alone.
LEMMA QStutters ==
  ASSUME NEW s, Senders = {s}, QInv(s), QInv(s)', WaitingOK, WaitingOK',
         \/ MSGQUE_WriteMsg(s) \/ Fill(s) \/ LoadProd(s)
         \/ MSGQUE_ReadMsg \/ Copy \/ UNCHANGED queVars
  PROVE  UNCHANGED Abstract!vars
  <1>1. UNCHANGED <<prod, cons, sent>>
    BY DEF MSGQUE_WriteMsg, Fill, LoadProd, MSGQUE_ReadMsg, Copy, queVars, writing, reading
  <1>2. Has' = Has
    BY DEF MSGQUE_WriteMsg, Fill, LoadProd, MSGQUE_ReadMsg, Copy, queVars, reading, Has
  <1>3. MSGQUE_Count' = MSGQUE_Count  BY <1>1 DEF MSGQUE_Count
  <1>4. CASE msgs' = msgs
    <2>1. Waiting' = Waiting  BY <1>1, <1>3, <1>4 DEF Waiting
    <2> QED  BY <1>1, <1>2, <2>1 DEF Abstract!vars, Has
  <1>5. CASE Fill(s)
    <2>1. msgs' = [msgs EXCEPT ![prod % Slots] = <<s, sent[s] + 1>>] /\ wr[s] = "fill"
      BY <1>5 DEF Fill
    <2>2. MSGQUE_Count < Capacity /\ MsgQueTypeOK  BY <2>1 DEF QInv
    <2>3. /\ cons \in Int /\ MSGQUE_Count \in 0..Capacity /\ MSGQUE_Count \in Int
          /\ msgs \in [0..Slots-1 -> Message]
      BY <2>2, QTypes
    <2>4. ASSUME NEW i \in 1..MSGQUE_Count
          PROVE  msgs'[(cons + i - 1) % Slots] = msgs[(cons + i - 1) % Slots]
      <3>1. PICK j \in 0..MSGQUE_Count-1 : j = i - 1  BY <2>3
      <3>2. cons + i - 1 = cons + j /\ cons + j \in Int  BY <2>3, <3>1
      <3>3. (cons + j) % Slots # prod % Slots  BY <2>2, <3>1, FillSpares
      <3>4. (cons + j) % Slots \in 0..Slots-1  BY <3>2, SlotIs
      <3> QED  BY <2>1, <2>3, <3>2, <3>3, <3>4
    <2>5. Waiting' = Waiting
      <3>1. Waiting' = [i \in 1..MSGQUE_Count |-> msgs'[(cons + i - 1) % Slots]]
        BY <1>1, <1>3 DEF Waiting
      <3> QED  BY <2>4, <3>1 DEF Waiting
    <2> QED  BY <1>1, <1>2, <2>5 DEF Abstract!vars, Has
  <1> QED
    BY <1>4, <1>5 DEF MSGQUE_WriteMsg, LoadProd, MSGQUE_ReadMsg, Copy, queVars

\* With one sender the message queue is the bounded queue of Fifo, whatever
\* its capacity and wherever its indices wrap: no message is lost, repeated,
\* overwritten or read before it is written.
THEOREM MsgQueIsFifo ==
  ASSUME NEW s, Senders = {s}
  PROVE  Spec => IsFifo
  <1>1. Init => Abstract!Init
    <2> SUFFICES ASSUME Init  PROVE Abstract!Init
      OBVIOUS
    <2>1. QInv(s) /\ MSGQUE_Create  BY QInitial DEF Init
    <2>2. WaitingOK  BY <2>1, WaitingFacts
    <2>3. MSGQUE_Count = 0
      <3>1. prod = cons /\ prod \in Int /\ IndexMod \in Nat /\ IndexMod > 0
        BY <2>1, QTypes, Sizes DEF MSGQUE_Create, QInv
      <3>2. prod - cons = 0 /\ 0 \in 0..IndexMod-1  BY <3>1
      <3>3. 0 % IndexMod = 0  BY <3>1, <3>2, ModSmall
      <3> QED  BY <3>2, <3>3 DEF MSGQUE_Count
    <2>4. Waiting = <<>>  BY <2>2, <2>3, EmptySeq DEF WaitingOK
    <2>5. sent = [t \in Senders |-> 0] /\ rd = "idle"  BY <2>1 DEF MSGQUE_Create
    <2> QED  BY <2>4, <2>5 DEF Abstract!Init
  <1>2. ASSUME QInv(s), QInv(s)', [Next]_vars
        PROVE  [Abstract!Next]_(Abstract!vars)
    <2>1. QStep(s)  BY <1>2, StepOfQueue
    <2>2. WaitingOK  BY <1>2, WaitingFacts
    <2>3. WaitingOK'
      <3>1. QInv(s) => WaitingOK  BY WaitingFacts
      <3>2. (QInv(s) => WaitingOK)'  BY WaitingFacts, PTL
      <3> QED  BY <1>2, <3>2
    <2>4. 1 \in 1..Capacity  BY Sizes
    <2>5. CASE StoreProd(s)
      <3>1. Abstract!Put(s, 1)  BY <1>2, <2>2, <2>3, <2>5, StorePuts
      <3> QED  BY <2>4, <3>1 DEF Abstract!Next
    <2>6. CASE Bump
      <3>1. Abstract!Take("reader", 1)  BY <1>2, <2>2, <2>3, <2>6, BumpTakes
      <3> QED  BY <2>4, <3>1 DEF Abstract!Next
    <2>7. CASE Handled
      <3>1. Abstract!Hand("reader")  BY <2>7, HandledHands
      <3> QED  BY <3>1 DEF Abstract!Next
    <2>8. CASE ~StoreProd(s) /\ ~Bump /\ ~Handled
      <3>1. UNCHANGED Abstract!vars  BY <1>2, <2>1, <2>2, <2>3, <2>8, QStutters DEF QStep
      <3> QED  BY <3>1
    <2> QED  BY <2>5, <2>6, <2>7, <2>8
  <1>3. Spec => []QInv(s)  BY QInductive
  <1> QED  BY <1>1, <1>2, <1>3, PTL DEF Spec, IsFifo, Abstract!Spec

=============================================================================
