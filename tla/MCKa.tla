-------------------------------- MODULE MCKa --------------------------------
(***************************************************************************)
(* The keep-alive options of the runs: off, no probes at all, and ones     *)
(* whose idle time, interval and number of probes all differ from those a  *)
(* new session has.                                                        *)
(***************************************************************************)
EXTENDS Ka

Option(idle, intval, count) ==
    [usIdle |-> idle, usIntval |-> intval, usMaxProbeCount |-> count]

MCDftOpt == Option(3, 2, 3)

MCOpts == {Option(0, 2, 1), Option(1, 1, 0), Option(4, 3, 2)}
=============================================================================
