----------------------------- MODULE TaskWorker -----------------------------
(***************************************************************************)
(* A task worker or task master (src/src/lib/util/task_worker): a thread   *)
(* that waits on an event and, when it is woken, steps its clock, empties  *)
(* its message queue and calls the handlers of user events.  The workers   *)
(* of one TASK_WORKER_CTRL_S share nothing but the table of handlers, so   *)
(* one is modelled.  VTimer, the NAT capture thread and the runner of      *)
(* pwatcher have the same loop.                                            *)
(*                                                                         *)
(* The creator is the thread inside TASK_Worker_Create: the worker runs    *)
(* before MTimer_Add has succeeded, and is told to quit when it fails.     *)
(***************************************************************************)
EXTENDS Event, MsgQue

CONSTANTS Timer, Creator,   \* the timer thread and the creating thread
          Users,            \* the user events in use, of 0 to 15
          MaxSent,          \* messages a sender writes in all
          MaxTokens         \* the semaphore's count is kept to this

\* Events by the number of their bit.
DATA == 31
CLOCK == 30
QUIT == 29

ASSUME TaskWorkerAssumption ==
    /\ Writers = Senders \cup {Timer, Creator}
    /\ Users \subseteq 0..15
    /\ Bits = {DATA, CLOCK, QUIT} \cup Users
    /\ MaxSent \in Nat /\ MaxTokens \in Nat

VARIABLES phase,      \* "creating", "running" or "failed"
          handlers,   \* user events with a pfFunc
          telling,    \* senders that wrote a message and not yet its event
          todo,       \* the worker's uiEvent, what is left of it
          called,     \* user events whose handler it called for this uiEvent
          done        \* the worker has cleaned up and ended

worker == <<todo, called, done>>
vars == <<eventVars, queVars, phase, handlers, telling, worker>>

Init ==
    /\ Event_Create /\ MSGQUE_Create
    /\ phase = "creating"
    /\ handlers = {}
    /\ telling = {}
    /\ todo = {} /\ called = {} /\ done = FALSE

-----------------------------------------------------------------------------
(* Creation. *)

MTimer_Add ==
    /\ phase = "creating"
    /\ phase' = "running"
    /\ UNCHANGED <<eventVars, queVars, handlers, telling, worker>>

task_worker_TriggerQuit ==
    /\ phase = "creating"
    /\ phase' = "failed"
    /\ Event_Write(Creator, {QUIT})
    /\ UNCHANGED <<queVars, handlers, telling, worker>>

-----------------------------------------------------------------------------
(* Other threads, once the worker has been handed out. *)

\* Outside of any call.
Free(w) == w \notin holding /\ w \notin telling /\ (w \in Senders => wr[w] = "idle")

Tell(w, bit) ==
    /\ phase = "running"
    /\ count < MaxTokens
    /\ Event_Write(w, {bit})

task_worker_TimeOut ==
    /\ Free(Timer)
    /\ Tell(Timer, CLOCK)
    /\ UNCHANGED <<queVars, phase, handlers, telling, worker>>

\* A handler is set, or taken away with a NULL.  Nothing locks the table and
\* the user handle is stored after the pfFunc: a worker in between calls the
\* new handler with the old handle, which is data the model leaves out.
TASK_Worker_SetEvent(e) ==
    /\ phase = "running"
    /\ handlers' \in {handlers \cup {e}, handlers \ {e}}
    /\ UNCHANGED <<eventVars, queVars, phase, telling, worker>>

TASK_Worker_EventInput(s, e) ==
    /\ Free(s)
    /\ Tell(s, e)
    /\ UNCHANGED <<queVars, phase, handlers, telling, worker>>

\* Slip: the event is written before the message.
MsgInputEventFirst(s) ==
    \/ /\ phase = "running"
       /\ Free(s)
       /\ sent[s] < MaxSent /\ ~MSGQUE_Full
       /\ count < MaxTokens
       /\ Event_Write(s, {DATA})
       /\ wr' = [wr EXCEPT ![s] = "fill"]
       /\ UNCHANGED <<prod, sent, old, reading, msgs, telling>>
    \/ (Fill(s) \/ LoadProd(s) \/ StoreProd(s)) /\ UNCHANGED <<eventVars, telling>>

\* The message is written, when there is room, and then its event.
TASK_Worker_MsgInput(s) ==
    \/ /\ phase = "running"
       /\ Free(s)
       /\ sent[s] < MaxSent
       /\ MSGQUE_WriteMsg(s)
       /\ UNCHANGED <<eventVars, telling>>
    \/ (Fill(s) \/ LoadProd(s)) /\ UNCHANGED <<eventVars, telling>>
    \/ StoreProd(s) /\ telling' = telling \cup {s} /\ UNCHANGED eventVars
    \/ /\ s \in telling
       /\ Tell(s, DATA)
       /\ telling' = telling \ {s}
       /\ UNCHANGED queVars

Posts(w) ==
    /\ _OSSEM_V(w)
    /\ UNCHANGED <<queVars, phase, handlers, telling, worker>>

-----------------------------------------------------------------------------
(* task_worker_Main. *)

\* Event_Read for all bits, without a time limit; what it clears is uiEvent.
Read ==
    /\ ~done /\ todo = {}
    /\ Event_Read(Bits, "any", FALSE) \/ EventRead
    /\ todo' = events \ events'
    /\ called' = {}
    /\ UNCHANGED <<queVars, phase, handlers, telling, done>>

\* VCLOCK_Step.
Clock ==
    /\ CLOCK \in todo
    /\ todo' = todo \ {CLOCK}
    /\ UNCHANGED <<eventVars, queVars, phase, handlers, telling, called, done>>

\* Messages are read and handled until the queue is found empty.
Data ==
    /\ DATA \in todo /\ CLOCK \notin todo
    /\ \/ (MSGQUE_ReadMsg \/ Copy \/ Bump) /\ UNCHANGED todo
       \/ /\ rd = "have"
          /\ rd' = "idle" /\ msg' = Empty
          /\ UNCHANGED <<writing, cons, msgs, todo>>
       \/ /\ rd = "idle" /\ MSGQUE_Empty
          /\ todo' = todo \ {DATA}
          /\ UNCHANGED queVars
    /\ UNCHANGED <<eventVars, phase, handlers, telling, called, done>>

\* Slip: only the first of the user events read is dealt with.
DealFirst(i) ==
    /\ i \in todo
    /\ todo \cap ({CLOCK, DATA} \cup 0..i-1) = {}
    /\ todo' = todo \ Users
    /\ called' = called \cup ({i} \cap handlers)
    /\ UNCHANGED <<eventVars, queVars, phase, handlers, telling, done>>

\* The user events in turn: the handler is called if there is one by now.
task_worker_DealUserEvent(i) ==
    /\ i \in todo
    /\ todo \cap ({CLOCK, DATA} \cup 0..i-1) = {}
    /\ todo' = todo \ {i}
    /\ called' = called \cup ({i} \cap handlers)
    /\ UNCHANGED <<eventVars, queVars, phase, handlers, telling, done>>

\* The loop is left and task_worker_Clean deletes the queue and the event.
Quit ==
    /\ todo = {QUIT}
    /\ todo' = {}
    /\ done' = TRUE
    /\ UNCHANGED <<eventVars, queVars, phase, handlers, telling, called>>

Work == Read \/ Clock \/ Data \/ Quit \/ \E i \in Users : task_worker_DealUserEvent(i)

SenderSteps(s) ==
    TASK_Worker_MsgInput(s) /\ UNCHANGED <<phase, handlers, worker>>

Next ==
    \/ MTimer_Add \/ task_worker_TriggerQuit
    \/ task_worker_TimeOut
    \/ \E e \in Users : TASK_Worker_SetEvent(e)
    \/ \E s \in Senders : SenderSteps(s) \/ \E e \in Users : TASK_Worker_EventInput(s, e)
    \/ \E w \in Writers : Posts(w)
    \/ Work

Spec == Init /\ [][Next]_vars

\* The worker and the threads inside a call keep running, and a thread that
\* waits for the event's mutex gets it: it is held for a few instructions,
\* and only now and then.
FairSpec ==
    /\ Spec
    /\ SF_vars(Work)
    /\ \A w \in Writers : WF_vars(Posts(w))
    /\ \A s \in Senders : SF_vars(~Free(s) /\ SenderSteps(s))

-----------------------------------------------------------------------------
(* Properties. *)

\* Every field keeps its type, and the queue its limit.
TypeOK ==
    /\ EventTypeOK /\ MsgQueTypeOK
    /\ phase \in {"creating", "running", "failed"}
    /\ handlers \subseteq Users /\ called \subseteq Users
    /\ telling \subseteq Senders
    /\ todo \subseteq Bits
    /\ done \in BOOLEAN

\* A message that MSGQUE_WriteMsg took is read and handled, whatever its
\* sender's event finds the worker doing: none is left lying in the queue.
MsgHandled ==
    \A s \in Senders, k \in 1..MaxSent :
        (\E i \in DOMAIN Waiting : Waiting[i] = <<s, k>>) ~> msg = <<s, k>>

\* A user event is read, also when it comes while the worker is busy, and
\* then its handler is called, also when several are read at once, if it has
\* one and nobody takes it away before.
EventServed ==
    \A e \in Users :
        /\ e \in events ~> e \in todo
        /\ e \in todo /\ e \in handlers ~> e \in called \/ e \notin handlers

\* A worker whose creation failed ends.
QuitEnds == phase = "failed" ~> done
=============================================================================
