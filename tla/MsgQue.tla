------------------------------- MODULE MsgQue -------------------------------
(***************************************************************************)
(* MSGQUE (src/src/lib/util/msgque/msgque_utl.c), a bounded queue without  *)
(* locks, for one producer and one consumer.  Each access to the shared    *)
(* indices and slots is a step; memory is taken to be sequentially         *)
(* consistent, as in Ring.  The indices are UINTs that run on and wrap:    *)
(* IndexMod stands for 2^32.                                               *)
(*                                                                         *)
(* Message k of sender s is <<s, k>>.  Nothing keeps several threads from  *)
(* writing at once, so prod++ is a load and a store.                       *)
(***************************************************************************)
EXTENDS Integers, Sequences

CONSTANTS Senders,     \* threads that write messages
          Capacity,    \* q->capacity
          Slots,       \* q->mask + 1, the power of two not below the capacity
          IndexMod,    \* 2^32 in the code
          Starts,      \* indices an idle queue may be at
          Empty        \* what a slot holds before it is written

ASSUME MsgQueAssumption ==
    /\ Capacity \in Nat /\ Capacity > 0
    /\ Slots \in Nat /\ Slots >= Capacity
    /\ IndexMod \in Nat /\ IndexMod > Slots /\ IndexMod % Slots = 0
    /\ Starts \subseteq 0..IndexMod-1

VARIABLES prod, cons, msgs,
          sent,     \* messages each sender has written
          wr,       \* each sender's place in MSGQUE_WriteMsg
          old,      \* the prod it has loaded
          rd,       \* the consumer's place in MSGQUE_ReadMsg
          msg       \* the message it has copied

writing == <<prod, sent, wr, old>>
reading == <<cons, rd, msg>>
queVars == <<writing, reading, msgs>>

MSGQUE_Create ==
    /\ \E i \in Starts : prod = i /\ cons = i
    /\ msgs = [i \in 0..Slots-1 |-> Empty]
    /\ sent = [s \in Senders |-> 0]
    /\ wr = [s \in Senders |-> "idle"]
    /\ old = [s \in Senders |-> 0]
    /\ rd = "idle"
    /\ msg = Empty

MSGQUE_Count == (prod - cons) % IndexMod

\* Slip: one message more than the capacity is let in.
FullLate == MSGQUE_Count > Capacity

MSGQUE_Full == Capacity - MSGQUE_Count = 0

MSGQUE_Empty == MSGQUE_Count = 0

-----------------------------------------------------------------------------
\* MSGQUE_WriteMsg; a full queue answers BS_FULL and nothing changes.
MSGQUE_WriteMsg(s) ==
    /\ wr[s] = "idle"
    /\ ~MSGQUE_Full
    /\ wr' = [wr EXCEPT ![s] = "fill"]
    /\ UNCHANGED <<prod, sent, old, reading, msgs>>

\* Slip: the index goes up before the slot is filled.
FillAfter(s) ==
    \/ /\ wr[s] = "fill"
       /\ wr' = [wr EXCEPT ![s] = "slot"]
       /\ prod' = (prod + 1) % IndexMod
       /\ UNCHANGED <<sent, old, reading, msgs>>
    \/ /\ wr[s] = "slot"
       /\ wr' = [wr EXCEPT ![s] = "store"]
       /\ msgs' = [msgs EXCEPT ![(prod - 1) % Slots] = <<s, sent[s] + 1>>]
       /\ old' = [old EXCEPT ![s] = (prod - 1) % IndexMod]
       /\ UNCHANGED <<prod, sent, reading>>

Fill(s) ==
    /\ wr[s] = "fill"
    /\ msgs' = [msgs EXCEPT ![prod % Slots] = <<s, sent[s] + 1>>]
    /\ wr' = [wr EXCEPT ![s] = "load"]
    /\ UNCHANGED <<prod, sent, old, reading>>

LoadProd(s) ==
    /\ wr[s] = "load"
    /\ old' = [old EXCEPT ![s] = prod]
    /\ wr' = [wr EXCEPT ![s] = "store"]
    /\ UNCHANGED <<prod, sent, reading, msgs>>

StoreProd(s) ==
    /\ wr[s] = "store"
    /\ prod' = (old[s] + 1) % IndexMod
    /\ sent' = [sent EXCEPT ![s] = @ + 1]
    /\ wr' = [wr EXCEPT ![s] = "idle"]
    /\ UNCHANGED <<old, reading, msgs>>

\* MSGQUE_ReadMsg; an empty queue answers BS_EMPTY and nothing changes.
MSGQUE_ReadMsg ==
    /\ rd = "idle"
    /\ ~MSGQUE_Empty
    /\ rd' = "copy"
    /\ UNCHANGED <<writing, cons, msg, msgs>>

Copy ==
    /\ rd = "copy"
    /\ msg' = msgs[cons % Slots]
    /\ rd' = "bump"
    /\ UNCHANGED <<writing, cons, msgs>>

Bump ==
    /\ rd = "bump"
    /\ cons' = (cons + 1) % IndexMod
    /\ rd' = "have"
    /\ UNCHANGED <<writing, msg, msgs>>

-----------------------------------------------------------------------------
(* Properties. *)

\* Every index, slot and local keeps its type.
MsgQueTypeOK ==
    /\ prod \in 0..IndexMod-1 /\ cons \in 0..IndexMod-1
    /\ msgs \in [0..Slots-1 -> (Senders \X Nat) \cup {Empty}]
    /\ sent \in [Senders -> Nat]
    /\ wr \in [Senders -> {"idle", "fill", "load", "store"}]
    /\ old \in [Senders -> 0..IndexMod-1]
    /\ rd \in {"idle", "copy", "bump", "have"}
    /\ MSGQUE_Count <= Capacity

\* The messages a reader can see, oldest first.
Waiting == [i \in 1..MSGQUE_Count |-> msgs[(cons + i - 1) % Slots]]

Abstract == INSTANCE Fifo WITH
    Producers <- Senders, Consumers <- {"reader"}, q <- Waiting,
    taken <- [c \in {"reader"} |-> IF rd = "have" THEN <<msg>> ELSE <<>>]

\* With one sender the queue is a bounded first-in first-out queue: no
\* message is lost, overwritten, repeated or read before it is written.
IsFifo == Abstract!Spec

\* What the head of msgque_utl.c says of the queue: it has one producer, so
\* no two threads are inside MSGQUE_WriteMsg at once.
OneProducer == \A s, t \in Senders : wr[s] # "idle" /\ wr[t] # "idle" => s = t
=============================================================================
