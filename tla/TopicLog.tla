------------------------------ MODULE TopicLog ------------------------------
(***************************************************************************)
(* What publish/subscribe promises to a subscriber: the messages of its    *)
(* bus form a log; it reads the log from the place it joined at, one       *)
(* message after the other, and no function is started twice for the same  *)
(* message.  All managers of a broker are on one bus; a manager that lives *)
(* in memory is on a bus of its own.                                       *)
(***************************************************************************)
EXTENDS Naturals, Sequences

CONSTANTS
  Messages,
  Handlers,
  Managers,    \* the subscribers
  ManagerOf,   \* the manager a handler is registered with
  HomeOf,      \* the manager that publishes a message
  Outside      \* the place of a manager that has not joined, or has left

VARIABLES
  log,         \* for each manager, everything published on its bus
  place,       \* how much of that log the manager has read or skipped
  calls        \* the handlers started, with the message

vars == <<log, place, calls>>

Init ==
  /\ log = [g \in Managers |-> <<>>]
  /\ place = [g \in Managers |-> Outside]
  /\ calls = {}

Publish(m) ==
  /\ \E bus \in {Managers, {HomeOf[m]}} :
       log' = [g \in Managers |-> IF g \in bus THEN Append(log[g], m) ELSE log[g]]
  /\ UNCHANGED <<place, calls>>

Join(g) ==
  /\ place[g] = Outside
  /\ place' = [place EXCEPT ![g] = Len(log[g])]
  /\ UNCHANGED <<log, calls>>

Leave(g) ==
  /\ place[g] # Outside
  /\ place' = [place EXCEPT ![g] = Outside]
  /\ UNCHANGED <<log, calls>>

(* The message it reads may also be the last: one that breaks it. *)
Read(g) ==
  /\ place[g] # Outside
  /\ place[g] < Len(log[g])
  /\ \E next \in {place[g] + 1, Outside} : place' = [place EXCEPT ![g] = next]
  /\ LET m == log[g][place[g] + 1] IN
       \E H \in SUBSET {h \in Handlers : ManagerOf[h] = g /\ <<h, m>> \notin calls} :
         calls' = calls \cup (H \X {m})
  /\ UNCHANGED log

Next ==
  \/ \E m \in Messages : Publish(m)
  \/ \E g \in Managers : Join(g) \/ Read(g) \/ Leave(g)

Spec == Init /\ [][Next]_vars
=============================================================================
