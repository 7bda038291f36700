------------------------------ MODULE TaskQueue ------------------------------
(***************************************************************************)
(* What a delayed-task backend promises to the caller of `.delay()`,       *)
(* without saying how: tasks wait in one line, are taken from its front,   *)
(* at most Concurrency of them run at a time, and every task that leaves   *)
(* the line or stops running has exactly one outcome, for ever.  It is     *)
(* read off AsyncTaskDelayBase.listen_tasks and _function_runner.          *)
(***************************************************************************)
EXTENDS Naturals, Sequences, FiniteSets

CONSTANTS
  Messages,     \* the task messages ever submitted
  Concurrency   \* how many tasks may run at a time

VARIABLES
  waiting,      \* the line: submitted and not yet started
  running,      \* the tasks whose function is being executed
  outcome       \* how each task ended, "none" while it has not

vars == <<waiting, running, outcome>>

Outcomes == {"acked", "nacked", "abandoned", "discarded"}

InLine == {waiting[i] : i \in 1..Len(waiting)}

TypeOK ==
  /\ waiting \in Seq(Messages)
  /\ running \subseteq Messages
  /\ outcome \in [Messages -> Outcomes \cup {"none"}]

Init ==
  /\ waiting = <<>>
  /\ running = {}
  /\ outcome = [m \in Messages |-> "none"]

Submit(m) ==
  /\ m \notin InLine \cup running
  /\ outcome[m] = "none"
  /\ waiting' = Append(waiting, m)
  /\ UNCHANGED <<running, outcome>>

(* The front of the line starts to run.  *)
Start ==
  /\ waiting # <<>>
  /\ Cardinality(running) < Concurrency
  /\ running' = running \cup {Head(waiting)}
  /\ waiting' = Tail(waiting)
  /\ UNCHANGED outcome

(* The front of the line is dropped without ever running. *)
Discard ==
  /\ waiting # <<>>
  /\ outcome' = [outcome EXCEPT ![Head(waiting)] = "discarded"]
  /\ waiting' = Tail(waiting)
  /\ UNCHANGED running

(* A running task succeeds, fails for good, or is cancelled. *)
Finish(m, how) ==
  /\ m \in running
  /\ running' = running \ {m}
  /\ outcome' = [outcome EXCEPT ![m] = how]
  /\ UNCHANGED waiting

Next ==
  \/ Start
  \/ Discard
  \/ \E m \in Messages :
       \/ Submit(m)
       \/ \E how \in {"acked", "nacked", "abandoned"} : Finish(m, how)

Spec == Init /\ [][Next]_vars
=============================================================================
