--------------------------- MODULE MCResultStore ---------------------------
(***************************************************************************)
(* An instance of ResultStore for TLC.                                     *)
(***************************************************************************)
EXTENDS ResultStore, TLC

CONSTANTS i1, i2, p1, p2

MCResults ==
  {[status |-> "open", completed |-> "none", json |-> TRUE],
   [status |-> "success", completed |-> "naive", json |-> TRUE],
   [status |-> "failure", completed |-> "naive", json |-> TRUE],
   [status |-> "success", completed |-> "aware", json |-> FALSE]}

(* Two calls wait for the first id, one of them without time. *)
MCWaitsFor == p1 :> i1 @@ p2 :> i1
MCTimeout == p1 :> 3 @@ p2 :> 0
=============================================================================
