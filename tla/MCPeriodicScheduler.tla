------------------------ MODULE MCPeriodicScheduler ------------------------
(***************************************************************************)
(* An instance of PeriodicScheduler for TLC: one task every two seconds,   *)
(* one every other minute.                                                 *)
(***************************************************************************)
EXTENDS PeriodicScheduler, TLC

CONSTANTS n1, n2

MCScheduleOf ==
  n1 :> [kind |-> "interval", every |-> 2]
    @@ n2 :> [kind |-> "cron", minute |-> [form |-> "step", n |-> 2]]
=============================================================================
