--------------------------------- MODULE Ka ---------------------------------
(***************************************************************************)
(* Keep-alive (src/src/lib/util/keepalive/ka_utl.c) in the hands of a      *)
(* session of src/src/lib/util/ses/ses_utl.c, its main user: after usIdle  *)
(* ticks without a packet the peer is probed, and after usMaxProbeCount    *)
(* probes, usIntval ticks apart, that nothing answers, it is taken for     *)
(* gone.  A session is closed by a RST, by its keep-alive or when its SYN  *)
(* is not answered (ses_Abort); its node stays, and can be given options,  *)
(* until the user frees it (SES_Close).                                    *)
(*                                                                         *)
(* KA_S embeds its timer.  Until KA_Start has run the instance handle and  *)
(* the callback in it are NULL, and every VCLOCK call on it is made with   *)
(* that NULL: the program stops there (Dead), in a debug build by the      *)
(* assertion of vclock_utl.c, in a release build in _VCLOCK_Lock.          *)
(*                                                                         *)
(* The timer is the abstract one of TimerService.  StartsFirst restricts   *)
(* the session to what the assertion asks for, KA_Start before any other   *)
(* call; the session as it is written is StartsFirst = FALSE.  SES_Connect *)
(* is called once, on a new session, as all its callers do.                *)
(***************************************************************************)
EXTENDS Naturals

CONSTANTS Opts,           \* keep-alive options SES_SetOpt is called with
          DftOpt,         \* the one a new session has
          StartsFirst,
          SilenceMax,     \* bound on silent, longer than any session waits
          Never,          \* ticks left of a timer that is not running
          Dead            \* the program has stopped

Options == [usIdle : Nat, usIntval : Nat \ {0}, usMaxProbeCount : Nat]

\* KA_S: its options, whether its timer has the instance and the callback
\* that KA_Start gives it, the probes sent and the ticks left on the timer.
KA_S == [stSet : Options, hVClockInstance : BOOLEAN, pfFunc : BOOLEAN,
         usProbeCount : Nat, left : Nat \cup {Never}]

\* The silence after which a peer is given up.
Patience(opt) == opt.usIdle + opt.usIntval * opt.usMaxProbeCount

ASSUME KaAssumption ==
    /\ Opts \subseteq Options /\ DftOpt \in Options
    /\ SilenceMax \in Nat
    /\ \A opt \in Opts \cup {DftOpt} : Patience(opt) < SilenceMax
    /\ StartsFirst \in BOOLEAN
    /\ Never \notin Nat /\ Dead \notin KA_S

VARIABLES uiStatus,  \* "handshake", "establish", "closed", or "free"
          ka,        \* KA_S, or Dead
          silent,    \* ticks since keep-alive was last reset
          hurried    \* a probe was asked for since then

kaVars == <<uiStatus, ka, silent, hurried>>

Up == ka # Dead

\* ses_InitKA on a zeroed node.
ses_InitKA ==
    [stSet |-> DftOpt, hVClockInstance |-> FALSE, pfFunc |-> FALSE,
     usProbeCount |-> 0, left |-> Never]

KaInit ==
    /\ uiStatus = "handshake"
    /\ ka = ses_InitKA
    /\ silent = 0
    /\ hurried = FALSE

-----------------------------------------------------------------------------
(* KA, as functions of KA_S. *)

\* A VCLOCK call on k that leaves left ticks on its timer.
Vclock(k, left) == IF k = Dead \/ ~k.hVClockInstance THEN Dead ELSE [k EXCEPT !.left = left]

\* VCLOCK_AddTimer adds one to its first tick.
KA_Start(k) ==
    IF k = Dead THEN Dead
    ELSE [k EXCEPT !.hVClockInstance = TRUE, !.usProbeCount = 0,
                   !.pfFunc = (k.stSet.usIdle # 0),
                   !.left = IF k.stSet.usIdle = 0 THEN Never ELSE k.stSet.usIdle + 1]

Cleared(k) == IF k = Dead THEN Dead ELSE [k EXCEPT !.usProbeCount = 0]

KA_Stop(k) == Cleared(Vclock(k, Never))

\* Slip: the probes that were not answered stay counted.
KA_ResetCounting(k) == Vclock(k, IF k.stSet.usIdle = 0 THEN Never ELSE k.stSet.usIdle)

KA_Reset(k) == Cleared(Vclock(k, IF k.stSet.usIdle = 0 THEN Never ELSE k.stSet.usIdle))

\* Slip: one probe too many.
ExhaustedLate(k) == k.usProbeCount > k.stSet.usMaxProbeCount

Exhausted(k) == k.usProbeCount >= k.stSet.usMaxProbeCount

\* Slip: the timer is not started again after a probe.
ProbedOnce(k) == [Vclock(k, Never) EXCEPT !.usProbeCount = @ + 1]

\* ka_KeepAlive while probes are left.
Probed(k) ==
    LET timed == Vclock(k, k.stSet.usIntval)
    IN  IF timed = Dead THEN Dead ELSE [timed EXCEPT !.usProbeCount = @ + 1]

\* ka_KeepAlive when none is left: the timer is paused and the session's
\* pfKeepAliveFailed aborts it, which stops keep-alive.
Failed(k) == KA_Stop(Vclock(k, Never))

-----------------------------------------------------------------------------
(* The session. *)

ka_KeepAlive(k) ==
    /\ ka' = IF Exhausted(k) THEN Failed(k) ELSE Probed(k)
    /\ uiStatus' = IF Exhausted(k) THEN "closed" ELSE uiStatus

Heard == silent' = 0 /\ hurried' = FALSE

\* A packet for this session refreshes keep-alive before it is looked at;
\* the handshake's ACK then starts keep-alive.
ses_ProtocolPktIn ==
    /\ Up
    /\ uiStatus \in {"handshake", "establish"}
    /\ IF uiStatus = "establish"
       THEN ka' = KA_Reset(ka)
       ELSE ka' = KA_Start(IF StartsFirst THEN ka ELSE KA_Reset(ka))
    /\ uiStatus' = "establish"
    /\ Heard

\* A call that the user or the timer makes on a session with a node; with
\* StartsFirst not before KA_Start.
Called ==
    /\ Up
    /\ uiStatus # "free"
    /\ StartsFirst => ka.hVClockInstance

\* ses_ResetKeepAliveTime: the new options, and a reset at once, also when
\* the session is closed.
SES_SetOpt(opt) ==
    /\ Called
    /\ ka' = KA_Reset([ka EXCEPT !.stSet = opt])
    /\ Heard
    /\ UNCHANGED uiStatus

\* TP_TiggerKeepAlive: a probe, or the failure, ahead of its time.
KA_TrigerKeepAlive ==
    /\ Called
    /\ ka_KeepAlive(ka)
    /\ hurried' = TRUE
    /\ UNCHANGED silent

\* For a RST, or after the last resend of a SYN.
ses_Abort ==
    /\ Called
    /\ uiStatus # "closed"
    /\ ka' = KA_Stop(ka)
    /\ uiStatus' = "closed"
    /\ UNCHANGED <<silent, hurried>>

\* The timers are stopped and the node is freed, whatever its status.
SES_Close ==
    /\ Called
    /\ ka' = KA_Stop(ka)
    /\ uiStatus' = "free"
    /\ UNCHANGED <<silent, hurried>>

\* The node is used for a new session.
ses_NewSes ==
    /\ Up
    /\ uiStatus = "free"
    /\ uiStatus' = "handshake"
    /\ ka' = ses_InitKA
    /\ Heard

\* One tick.
SES_TimerStep ==
    /\ Up
    /\ ka.left # Never
    /\ silent' = IF silent < SilenceMax THEN silent + 1 ELSE silent
    /\ IF ka.left > 1
       THEN /\ ka' = [ka EXCEPT !.left = @ - 1]
            /\ UNCHANGED uiStatus
       ELSE IF ka.pfFunc THEN ka_KeepAlive(ka)
       ELSE ka' = Dead /\ UNCHANGED uiStatus
    /\ UNCHANGED hurried

KaNext ==
    \/ ses_ProtocolPktIn
    \/ \E opt \in Opts : SES_SetOpt(opt)
    \/ KA_TrigerKeepAlive
    \/ ses_Abort \/ SES_Close \/ ses_NewSes
    \/ SES_TimerStep

KaSpec == KaInit /\ [][KaNext]_kaVars

\* The timer thread keeps calling SES_TimerStep.
KaFairSpec == KaSpec /\ WF_kaVars(SES_TimerStep)

-----------------------------------------------------------------------------
(* Properties. *)

\* Fields keep their types, and no probe is sent beyond the last.  Keep-alive
\* runs in every established session that has it on, and never in a node
\* that is free or in its handshake.
KaTypeOK ==
    Up =>
        /\ uiStatus \in {"handshake", "establish", "closed", "free"}
        /\ ka \in KA_S /\ ka.stSet \in Opts \cup {DftOpt}
        /\ ka.usProbeCount <= ka.stSet.usMaxProbeCount
        /\ silent \in 0..SilenceMax /\ hurried \in BOOLEAN
        /\ uiStatus = "establish" /\ ka.stSet.usIdle # 0 => ka.left # Never
        /\ ka.left # Never => uiStatus \in {"establish", "closed"}

\* The timer gives the peer up in this step.
GivesUp == SES_TimerStep /\ ka.left = 1 /\ ka.pfFunc /\ Exhausted(ka)

\* A peer is taken for gone only after the whole of the idle time and of the
\* interval after every probe has passed in silence, unless somebody asked
\* for a probe out of turn; whenever the options were changed, and also in a
\* session that is closed already.
NotTooSoon == [][GivesUp /\ ~hurried => silent' >= Patience(ka.stSet)]_kaVars

\* An established session with keep-alive on, whose peer is not heard of any
\* more, is closed in the end.
GoneIsNoticed ==
    \/ []<>~(Up /\ uiStatus = "establish" /\ ka.stSet.usIdle # 0)
    \/ []<><<ses_ProtocolPktIn \/ \E opt \in Opts : SES_SetOpt(opt)>>_kaVars

\* VCLOCK is never called without its instance: the assertion
\* BS_DBGASSERT(0 != pstVClockInstance) of every VCLOCK call.
VclockGiven == Up
=============================================================================
