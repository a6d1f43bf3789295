------------------------------- MODULE Event -------------------------------
(***************************************************************************)
(* Event bits with one reader (src/src/lib/util/event/event_utl.c), over   *)
(* the counting semaphore of sem_utl.c and os_sem_linux.c.                 *)
(*                                                                         *)
(* The fields of the event are touched under its mutex.  A writer posts to *)
(* the semaphore with the mutex held, in two steps: the count goes up, and *)
(* if somebody may be waiting a token is put into the operating system's   *)
(* semaphore.  The reader gives the mutex up before it goes to the         *)
(* semaphore, so it can be overtaken between any two of its steps.         *)
(*                                                                         *)
(* flag is "none" for 0, "any" for EVENT_FLAG_WAIT and "all" for           *)
(* EVENT_FLAG_WAIT | EVENT_FLAG_CARE_ALL.  A read without EVENT_FLAG_WAIT  *)
(* hands an uninitialised wait mode to the semaphore and is left out.      *)
(***************************************************************************)
EXTENDS Integers

CONSTANTS Writers,     \* threads that write events
          Bits         \* the event bits

VARIABLES events, event_watting, flag,  \* _EVENT_CTRL_S
          count, v,     \* the semaphore's count and its tokens
          holding,      \* the writer that has the mutex and is to post a token
          rpc,          \* the reader's place in Event_Read
          want, mode, timed  \* its arguments

shared == <<events, event_watting, flag>>
sem == <<count, v>>
args == <<want, mode, timed>>
eventVars == <<shared, sem, holding, rpc, args>>

Event_Create ==
    /\ events = {} /\ event_watting = {} /\ flag = "none"
    /\ count = 0 /\ v = 0
    /\ holding = {}
    /\ rpc = "idle"
    /\ want = {} /\ mode = "any" /\ timed = FALSE

\* Do the bits there are of those asked for suffice?
Satisfied(got, asked, how) == IF how = "all" THEN got = asked ELSE got # {}

-----------------------------------------------------------------------------
(* Writers. *)

\* Slip: a token is posted only if the count has gone below 0 again.
sem_CVStrict(w) ==
    /\ count' = count + 1
    /\ holding' = IF count + 1 < 0 THEN {w} ELSE {}

\* The count goes up; a token is due unless nobody can be waiting.
sem_CV(w) ==
    /\ count' = count + 1
    /\ holding' = IF count + 1 <= 0 THEN {w} ELSE {}

\* Everything up to the atomic increment of the count.
Event_Write(w, new) ==
    /\ holding = {}
    /\ events' = events \cup new
    /\ IF flag # "none" /\ Satisfied(event_watting \cap events', event_watting, flag)
       THEN sem_CV(w)
       ELSE UNCHANGED <<count, holding>>
    /\ UNCHANGED <<event_watting, flag, v, rpc, args>>

\* The token, and the release of the event's mutex.
_OSSEM_V(w) ==
    /\ w \in holding
    /\ v' = v + 1
    /\ holding' = {}
    /\ UNCHANGED <<shared, count, rpc, args>>

-----------------------------------------------------------------------------
(* The reader. *)

\* Slip: the reader goes to wait without telling writers so.
LookUnmarked(asked, how, reset) ==
    LET got == events \cap asked
    IN  /\ holding = {}
        /\ IF Satisfied(got, asked, how)
           THEN events' = events \ got /\ rpc' = "idle"
           ELSE UNCHANGED events /\ rpc' = "dec"
        /\ flag' = reset
        /\ UNCHANGED <<event_watting, sem, holding>>

\* One turn of the loop under the mutex: take the bits and return, or leave
\* word which bits are waited for and go to the semaphore.
Look(asked, how, reset) ==
    LET got == events \cap asked
    IN  /\ holding = {}
        /\ IF Satisfied(got, asked, how)
           THEN /\ events' = events \ got
                /\ flag' = reset
                /\ rpc' = "idle"
                /\ UNCHANGED event_watting
           ELSE /\ event_watting' = asked
                /\ flag' = how
                /\ rpc' = "dec"
                /\ UNCHANGED events
        /\ UNCHANGED <<sem, holding>>

Event_Read(asked, how, bounded) ==
    /\ rpc = "idle"
    /\ want' = asked /\ mode' = how /\ timed' = bounded
    /\ Look(asked, how, flag)

\* After the semaphore: the flag is reset and the bits are looked at again.
Event_ReadAgain ==
    /\ rpc = "back"
    /\ Look(want, mode, "none")
    /\ UNCHANGED args

sem_CPV ==
    /\ rpc = "dec"
    /\ count' = count - 1
    /\ rpc' = IF count - 1 < 0 THEN "enter" ELSE "back"
    /\ UNCHANGED <<shared, v, holding, args>>

\* A token that is there is taken at once; otherwise the thread waits for one.
_OSSEM_P ==
    /\ rpc = "enter"
    /\ IF v > 0 THEN v' = v - 1 /\ rpc' = "back"
                ELSE UNCHANGED v /\ rpc' = "wait"
    /\ UNCHANGED <<shared, count, holding, args>>

Woken ==
    /\ rpc = "wait"
    /\ v > 0
    /\ v' = v - 1
    /\ rpc' = "back"
    /\ UNCHANGED <<shared, count, holding, args>>

\* The wait may run out although a token has come by now.
TimeOut ==
    /\ rpc = "wait"
    /\ timed
    /\ rpc' = "undo"
    /\ UNCHANGED <<shared, sem, holding, args>>

\* sem_CPV takes its decrement back, without a look at the tokens.
Undo ==
    /\ rpc = "undo"
    /\ count' = count + 1
    /\ rpc' = "late"
    /\ UNCHANGED <<shared, v, holding, args>>

\* Event_Read returns BS_TIME_OUT.
GiveUp ==
    /\ rpc = "late"
    /\ holding = {}
    /\ flag' = "none"
    /\ rpc' = "idle"
    /\ UNCHANGED <<events, event_watting, sem, holding, args>>

EventRead == Event_ReadAgain \/ sem_CPV \/ _OSSEM_P \/ Woken

EventNext ==
    \/ \E w \in Writers :
          _OSSEM_V(w) \/ \E new \in SUBSET Bits : Event_Write(w, new)
    \/ \E asked \in SUBSET Bits, how \in {"any", "all"}, bounded \in BOOLEAN :
          Event_Read(asked, how, bounded)
    \/ EventRead \/ TimeOut \/ Undo \/ GiveUp

EventSpec == Event_Create /\ [][EventNext]_eventVars

-----------------------------------------------------------------------------
(* Properties. *)

\* Every field keeps its type.
EventTypeOK ==
    /\ events \subseteq Bits /\ event_watting \subseteq Bits
    /\ flag \in {"none", "any", "all"}
    /\ count \in Int /\ v \in Nat
    /\ holding \subseteq Writers
    /\ rpc \in {"idle", "dec", "enter", "wait", "undo", "late", "back"}
    /\ want \subseteq Bits /\ mode \in {"any", "all"} /\ timed \in BOOLEAN

\* What the reader asked for is there.
Ready == Satisfied(events \cap want, want, mode)

\* A token is there, or the writer that holds the mutex is about to post one.
TokenDue == v > 0 \/ holding # {}

\* No wake-up is lost: a reader that waits for a token gets one if the bits
\* it asked for are there, whatever was written between its look at the bits
\* and its wait, and however many waits have run out before.
NoLostWakeup == rpc \in {"enter", "wait"} /\ Ready => TokenDue
=============================================================================
