---------------------------- MODULE TimerService ----------------------------
(***************************************************************************)
(* What a VCLOCK instance promises, without the wheel: every running timer *)
(* has a number of ticks left, a step of the clock takes one off each, and *)
(* before the step ends every timer with none left has been taken, exactly *)
(* once per expiry, to have its callback run.                              *)
(*                                                                         *)
(* One corner is part of the promise because clients meet it: a timer      *)
(* started with zero ticks while no step is running does not expire at     *)
(* once but a whole revolution of the lowest wheel later.                  *)
(***************************************************************************)
EXTENDS Integers

CONSTANTS Timers,      \* the VCLOCK_NODE_S objects
          Revolution,  \* slots of the lowest wheel
          MaxTicks,    \* the longest delay or period
          Never,       \* ticks left of a timer that is not running
          Nobody       \* no callback is running

VARIABLES left,        \* ticks left, or Never
          stepping,    \* a step of the clock is in progress
          firing       \* the timer whose callback is running, or Nobody

vars == <<left, stepping, firing>>

Init ==
    /\ left = [t \in Timers |-> Never]
    /\ stepping = FALSE
    /\ firing = Nobody

Delay(k) == IF k = 0 /\ ~stepping THEN Revolution ELSE k

Start(t, k) ==
    /\ left' = [left EXCEPT ![t] = Delay(k)]
    /\ UNCHANGED <<stepping, firing>>

Stop(t) ==
    /\ left' = [left EXCEPT ![t] = Never]
    /\ UNCHANGED <<stepping, firing>>

\* No running timer has been passed over when the clock advances.
Tick ==
    /\ ~stepping
    /\ stepping' = TRUE
    /\ \A t \in Timers : left[t] # 0
    /\ left' = [t \in Timers |-> IF left[t] = Never THEN Never ELSE left[t] - 1]
    /\ UNCHANGED firing

\* A timer with no ticks left is taken, and runs on with its period or stops.
Expire(t, next) ==
    /\ stepping
    /\ firing = Nobody
    /\ left[t] = 0
    /\ firing' = t
    /\ left' = [left EXCEPT ![t] = next]
    /\ UNCHANGED stepping

Return ==
    /\ firing # Nobody
    /\ firing' = Nobody
    /\ UNCHANGED <<left, stepping>>

\* The step ends when every due timer has been taken.
Done ==
    /\ stepping
    /\ firing = Nobody
    /\ \A t \in Timers : left[t] # 0
    /\ stepping' = FALSE
    /\ UNCHANGED <<left, firing>>

Next ==
    \/ \E t \in Timers : \/ \E k \in 0..MaxTicks : Start(t, k) \/ Expire(t, k)
                         \/ Expire(t, Never)
                         \/ Stop(t)
    \/ Tick \/ Return \/ Done

Spec == Init /\ [][Next]_vars
=============================================================================
