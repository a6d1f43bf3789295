------------------------------- MODULE Vclock -------------------------------
(***************************************************************************)
(* VCLOCK (src/src/lib/util/vclock/vclock_utl.c): the hierarchical timing  *)
(* wheel behind MTimer, NAT ageing, session and transport retransmission,  *)
(* keep-alive, ARP and the MAC table.                                      *)
(*                                                                         *)
(* Each call is one step: it runs under the instance's lock.  VCLOCK_Step  *)
(* releases the lock around every callback, so it is several: advance and  *)
(* cascade, take one due timer, return from its callback, finish.  Between *)
(* them the callback, or another thread, may make any call.                *)
(*                                                                         *)
(* Ticks are UINTs: TickMod stands for 2^32.  ulNodeCount is left out: it  *)
(* is never read.  Within a slot the order of the list is left open.       *)
(***************************************************************************)
EXTENDS Integers, FiniteSetsExt

CONSTANTS Timers,       \* the VCLOCK_NODE_S objects
          Scale,        \* _VCLOCK_TIMER_SCALE_PER_LEVEL, 64 in the code
          Levels,       \* _VCLOCK_TIMER_TOTLE_LEVEL, 6 in the code
          TickMod,      \* 2^32 in the code
          Firsts,       \* first_tick values clients use
          Periods,      \* tick values clients use
          NotInList,    \* the place of a timer that is in no slot
          Nobody        \* no callback is running

ASSUME WheelAssumption ==
    /\ Scale \in Nat /\ Scale > 1
    /\ Levels \in Nat /\ Levels > 0
    /\ TickMod \in Nat /\ TickMod > 0
    /\ Scale ^ Levels >= TickMod
\* The ticks of one slot of each level, as the proofs go by them.
ASSUME SpanAssumption ==
    /\ Scale ^ 0 = 1
    /\ \A l \in 0..Levels-1 : Scale ^ (l + 1) = Scale * (Scale ^ l)
ASSUME TicksAssumption ==
    /\ \A k \in Firsts : k \in Nat /\ k + 1 < TickMod
    /\ \A k \in Periods : k \in Nat /\ k < TickMod
ASSUME NamesAssumption ==
    /\ NotInList \notin Nat /\ NotInList \notin (0..Levels-1) \X (0..Scale-1)
    /\ Nobody \notin Timers

VARIABLES uiCurrentTick,
          ulCurrentLevelTick,  \* the current slot of each level
          place,               \* <<level, slot>> of each timer, or NotInList
          uiTriggerTick,
          ulTick,
          cycle,               \* TIMER_FLAG_CYCLE
          pause,               \* TIMER_FLAG_PAUSE
          added,               \* timers VCLOCK_AddTimer has set up
          stepping,            \* VCLOCK_Step is running
          firing               \* the timer whose callback runs, or Nobody

clock == <<uiCurrentTick, ulCurrentLevelTick>>
flags == <<ulTick, cycle, pause, added>>
step == <<stepping, firing>>
vars == <<clock, place, uiTriggerTick, flags, step>>

VCLOCK_InitInstance ==
    /\ uiCurrentTick = 0
    /\ ulCurrentLevelTick = [l \in 0..Levels-1 |-> 0]

Init ==
    /\ VCLOCK_InitInstance
    /\ place = [t \in Timers |-> NotInList]
    /\ uiTriggerTick = [t \in Timers |-> 0]
    /\ ulTick = [t \in Timers |-> 0]
    /\ cycle = [t \in Timers |-> FALSE]
    /\ pause = [t \in Timers |-> FALSE]
    /\ added = {}
    /\ stepping = FALSE
    /\ firing = Nobody

-----------------------------------------------------------------------------
(* Putting a timer into the wheel. *)

InList(t) == place[t] # NotInList

\* Slip: a delay of exactly one revolution stays on the lower level.
LevelLate(k) == Max({0} \cup {l \in 1..Levels : k > Scale ^ l})

\* How often k can be divided by Scale before nothing is left.
Level(k) == Max({0} \cup {l \in 1..Levels : k \div (Scale ^ l) # 0})

\* Slip: the slot is not brought back into the level.
SlotOfUnwrapped(cur, k) ==
    LET l == Level(k)
    IN  <<l, cur[l] + k \div (Scale ^ l)>>

\* The slot k ticks ahead, given the current slots of the levels.
SlotOf(cur, k) ==
    LET l == Level(k)
    IN  <<l, (cur[l] + k \div (Scale ^ l)) % Scale>>

_vclock_timer_add(t, k) ==
    /\ uiTriggerTick' = [uiTriggerTick EXCEPT ![t] = (uiCurrentTick + k) % TickMod]
    /\ place' = [place EXCEPT ![t] = SlotOf(ulCurrentLevelTick, k)]

Remove(t) ==
    /\ place' = [place EXCEPT ![t] = NotInList]
    /\ UNCHANGED uiTriggerTick

-----------------------------------------------------------------------------
(* The calls. *)

\* The node is not in the wheel: DLL_NODE_INIT makes it so without looking.
VCLOCK_AddTimer(t, first, tick, cyc) ==
    /\ ~InList(t)
    /\ tick # 0
    /\ ulTick' = [ulTick EXCEPT ![t] = tick]
    /\ cycle' = [cycle EXCEPT ![t] = cyc]
    /\ pause' = [pause EXCEPT ![t] = FALSE]
    /\ added' = added \cup {t}
    /\ _vclock_timer_add(t, first + 1)
    /\ UNCHANGED <<clock, step>>

VCLOCK_DelTimer(t) ==
    /\ InList(t)
    /\ Remove(t)
    /\ UNCHANGED <<clock, flags, step>>

VCLOCK_Pause(t) ==
    /\ Remove(t)
    /\ pause' = [pause EXCEPT ![t] = TRUE]
    /\ UNCHANGED <<clock, ulTick, cycle, added, step>>

VCLOCK_Resume(t, first) ==
    /\ pause[t]
    /\ pause' = [pause EXCEPT ![t] = FALSE]
    /\ _vclock_timer_add(t, first)
    /\ UNCHANGED <<clock, ulTick, cycle, added, step>>

VCLOCK_RestartWithTick(t, first, tick) ==
    /\ ulTick' = [ulTick EXCEPT ![t] = tick]
    /\ _vclock_timer_add(t, first)
    /\ UNCHANGED <<clock, cycle, pause, added, step>>

VCLOCK_GetTickLeft(t) == (uiTriggerTick[t] - uiCurrentTick) % TickMod

\* Nothing is done when the full period is still ahead.  The code reads the
\* ticks before it takes the lock: with a stale reading it does nothing or
\* makes the VCLOCK_RestartWithTick call of an older period.
VCLOCK_Refresh(t) ==
    /\ ulTick[t] # VCLOCK_GetTickLeft(t)
    /\ VCLOCK_RestartWithTick(t, ulTick[t], ulTick[t])

-----------------------------------------------------------------------------
(* VCLOCK_Step. *)

\* Levels whose slot advances: those below have all come round.
Advancing == {l \in 0..Levels-1 : \A j \in 0..l-1 : ulCurrentLevelTick[j] = Scale - 1}

\* Slip: the level above the ones that came round is not cascaded.
CascadingShort == {l \in Advancing \ {0} : ulCurrentLevelTick[l] = Scale - 1}

\* The levels whose new current slot is spread over the levels below.
Cascading == Advancing \ {0}

\* The timers of those slots are added again.  The code goes from the highest
\* level down; a timer it meets again on a lower one is added where it is.
Cascade(now, cur) ==
    [t \in Timers |->
        IF \E l \in Cascading : place[t] = <<l, cur[l]>>
        THEN SlotOf(cur, (uiTriggerTick[t] - now) % TickMod)
        ELSE place[t]]

Advance ==
    /\ ~stepping
    /\ LET now == (uiCurrentTick + 1) % TickMod
           cur == [l \in 0..Levels-1 |->
                      IF l \in Advancing THEN (ulCurrentLevelTick[l] + 1) % Scale
                                         ELSE ulCurrentLevelTick[l]]
       IN  /\ uiCurrentTick' = now
           /\ ulCurrentLevelTick' = cur
           /\ place' = Cascade(now, cur)
    /\ stepping' = TRUE
    /\ UNCHANGED <<uiTriggerTick, flags, firing>>

Due(t) == place[t] = <<0, ulCurrentLevelTick[0]>>

\* Slip: what is left of the old delay, none, is used instead of the period.
PutBackLeft(t) == _vclock_timer_add(t, VCLOCK_GetTickLeft(t))

PutBack(t) == _vclock_timer_add(t, ulTick[t])

\* A due timer leaves its slot; a cyclic one is put back a period ahead.
Take(t) ==
    /\ stepping
    /\ firing = Nobody
    /\ Due(t)
    /\ IF cycle[t] THEN PutBack(t) ELSE Remove(t)
    /\ firing' = t
    /\ UNCHANGED <<clock, flags, stepping>>

\* A cyclic timer with period 0 is back in the slot being scanned.
Stuck(t) == cycle[t] /\ ulTick[t] = 0 /\ Due(t)

\* Nothing here makes a callback do so, but the callback of such a timer has
\* to stop or restart it, as those of KA and NAT do; the others may return at
\* once.
Return ==
    /\ firing # Nobody
    /\ ~Stuck(firing)
    /\ firing' = Nobody
    /\ UNCHANGED <<clock, place, uiTriggerTick, flags, stepping>>

Finish ==
    /\ stepping
    /\ firing = Nobody
    /\ \A t \in Timers : ~Due(t)
    /\ stepping' = FALSE
    /\ UNCHANGED <<clock, place, uiTriggerTick, flags, firing>>

-----------------------------------------------------------------------------
\* A client sets a timer up before it makes any other call on it.
Call(t) ==
    \/ \E first \in Firsts, tick \in Periods, cyc \in BOOLEAN :
          VCLOCK_AddTimer(t, first, tick, cyc)
    \/ /\ t \in added
       /\ \/ \E first \in Firsts, tick \in Periods :
                VCLOCK_RestartWithTick(t, first, tick)
          \/ \E first \in Firsts : VCLOCK_Resume(t, first)
          \/ VCLOCK_DelTimer(t)
          \/ VCLOCK_Pause(t)
          \/ VCLOCK_Refresh(t)

Next ==
    \/ \E t \in Timers : Call(t) \/ Take(t)
    \/ Advance \/ Return \/ Finish

Spec == Init /\ [][Next]_vars

\* The callback of a cyclic timer with period 0 makes its call.
Unstick == \E t \in Timers : firing = t /\ Stuck(t) /\ Call(t)

\* The thread inside VCLOCK_Step keeps running, and callbacks return.
FairSpec ==
    /\ Spec
    /\ WF_vars(Unstick)
    /\ WF_vars(\E t \in Timers : Take(t))
    /\ WF_vars(Return)
    /\ WF_vars(Finish)

-----------------------------------------------------------------------------
(* Properties. *)

\* Every field keeps its type; in particular a timer's level exists, which
\* _vclock_timer_add asserts.
TypeOK ==
    /\ uiCurrentTick \in 0..TickMod-1
    /\ ulCurrentLevelTick \in [0..Levels-1 -> 0..Scale-1]
    /\ place \in [Timers -> ((0..Levels-1) \X (0..Scale-1)) \cup {NotInList}]
    /\ uiTriggerTick \in [Timers -> 0..TickMod-1]
    /\ ulTick \in [Timers -> Periods \cup {0}]
    /\ cycle \in [Timers -> BOOLEAN]
    /\ pause \in [Timers -> BOOLEAN]
    /\ added \subseteq Timers
    /\ stepping \in BOOLEAN
    /\ firing \in Timers \cup {Nobody}

\* The ticks until a timer is taken, read off the wheel: its distance on the
\* lowest level, its trigger tick on the others.
Left(t) ==
    IF ~InList(t) THEN NotInList
    ELSE IF place[t][1] # 0 THEN VCLOCK_GetTickLeft(t)
    ELSE IF Due(t) /\ ~stepping THEN Scale
    ELSE (place[t][2] - ulCurrentLevelTick[0]) % Scale

Service == INSTANCE TimerService WITH
    Revolution <- Scale, MaxTicks <- TickMod, Never <- NotInList,
    left <- [t \in Timers |-> Left(t)]

\* The wheel implements the timer service: whatever calls are made, from
\* callbacks and from other threads between callbacks, every running timer
\* is taken in the very step its delay runs out, never before, never after
\* and never twice, across cascades and the wrap of the tick counter.
OnTime == Service!Spec

\* Only level 0 may hold timers in its current slot: a timer left in the
\* current slot of a higher level would be a revolution of that level late.
NoneBehind ==
    \A t \in Timers : InList(t) /\ place[t][1] # 0 =>
        /\ place[t][2] # ulCurrentLevelTick[place[t][1]]
        /\ VCLOCK_GetTickLeft(t) # 0

\* A call puts a timer into the slot that is being scanned.
Feed == \E t \in Timers : stepping /\ Call(t) /\ Due(t)'

\* A step of the clock ends: the scan of the current slot, which starts over
\* after each callback, is not fed by timers with a period, however short.
\* That of a cyclic timer with period 0 is left to its client: it ends only
\* because the callback moves the timer (Return), which VCLOCK_Step does not
\* see to.  Callers that keep adding timers with no delay can hold it too.
StepEnds == []<>~stepping \/ []<><<Feed>>_vars
=============================================================================
