-------------------------- MODULE TaskWorkerProofs --------------------------
(***************************************************************************)
(* Theorems about TaskWorker, for any messages, any concurrency and any    *)
(* number of retries.  The inductive invariant is built in layers: the     *)
(* types; where each message is (Places); where each slot is (Slots).      *)
(* Then the proof that the worker implements TaskQueue.                    *)
(***************************************************************************)
EXTENDS TaskWorker, FiniteSetTheorems, TLAPS

(* TypeOK, but for the sign of the counter of asyncio.Queue, which is a    *)
(* consequence of where the messages are.                                  *)
Typing ==
  /\ sent \subseteq Messages
  /\ queue \in Seq(Messages)
  /\ unfinished \in Int
  /\ available \subseteq Functions
  /\ free \in Nat
  /\ listener \in ListenerStates
  /\ hand \in Messages \cup {NoMessage}
  /\ running \subseteq Messages
  /\ phase \in [Messages -> Live \cup Ended \cup {"none"}]
  /\ attempts \in [Messages -> Nat]
  /\ metadata \in [Messages -> {"none", "ack", "nack"}]
  /\ waiter \in {"idle", "waiting", "finished", "timed_out", "cancelled"}
  /\ stopped \in BOOLEAN
  /\ listener \in {"acquire", "granted", "holding"} <=> hand # NoMessage

LEMMA InitTyping == Init => Typing
<1> SUFFICES ASSUME Init PROVE Typing
  OBVIOUS
<1> USE ConstantsOK DEF ConstantsOK, Init
<1>1. queue \in Seq(Messages)
  OBVIOUS
<1>2. listener \in {"acquire", "granted", "holding"} <=> hand # NoMessage
  OBVIOUS
<1>3. /\ listener \in ListenerStates
      /\ phase \in [Messages -> Live \cup Ended \cup {"none"}]
      /\ attempts \in [Messages -> Nat]
      /\ metadata \in [Messages -> {"none", "ack", "nack"}]
  BY DEF ListenerStates, Live, Ended
<1>4. stopped \in BOOLEAN
  BY Zenon
<1> QED
  BY <1>1, <1>2, <1>3, <1>4 DEF Typing

LEMMA NextTyping == Typing /\ [Next]_vars => Typing'
<1> SUFFICES ASSUME Typing, [Next]_vars PROVE Typing'
  OBVIOUS
<1> USE ConstantsOK DEF ConstantsOK, Typing, ListenerStates, Live, Ended, queueVars,
        listenerVars, runnerVars
<1>1. CASE Take
  BY <1>1 DEF Take
<1>2. CASE Reject
  BY <1>2 DEF Reject, HasSlot, Fetch
<1>3. CASE Crash
  BY <1>3 DEF Crash, HasSlot
<1>4. CASE Launch
  BY <1>4 DEF Launch, HasSlot, Fetch
<1>5. ASSUME NEW f \in Functions, RegisterTask(f) PROVE Typing'
  BY <1>5 DEF RegisterTask
<1>6. ASSUME NEW m \in Messages, Submit(m) PROVE Typing'
  BY <1>6 DEF Submit
<1>7. ASSUME NEW m \in Messages, Runner(m) PROVE Typing'
  <2>1. CASE Attempt(m)
    BY <2>1 DEF Attempt
  <2>2. CASE Ack(m)
    BY <2>2 DEF Ack
  <2>3. CASE Backoff(m)
    BY <2>3 DEF Backoff
  <2>4. CASE Nack(m)
    BY <2>4 DEF Nack
  <2>5. CASE TaskDone(m)
    BY <2>5 DEF TaskDone, ReleaseSlot
  <2> QED
    BY <1>7, <2>1, <2>2, <2>3, <2>4, <2>5 DEF Runner
<1>8. ASSUME NEW m \in Messages, Cancelled(m) PROVE Typing'
  BY <1>8 DEF Cancelled
<1>9. CASE CleanupOldTasks
  BY <1>9 DEF CleanupOldTasks
<1>10. CASE BeginWait \/ Poll
  BY <1>10 DEF BeginWait, Poll, WaitFinishes, WaitTimesOut
<1>11. CASE Stop
  BY <1>11 DEF Stop
<1>12. CASE ListenerCancelled
  BY <1>12 DEF ListenerCancelled
<1>13. CASE UNCHANGED vars
  BY <1>13 DEF vars
<1> QED
  BY <1>1, <1>2, <1>3, <1>4, <1>5, <1>6, <1>7, <1>8, <1>9, <1>10, <1>11,
     <1>12, <1>13 DEF Next

-----------------------------------------------------------------------------
(* Where each message is. *)

Distinct(q) == \A i, j \in 1..Len(q) : q[i] = q[j] => i = j
Elements(q) == {q[i] : i \in 1..Len(q)}

(* put() adds the message at the back, once. *)
LEMMA AppendNew ==
  ASSUME NEW S, NEW q \in Seq(S), NEW e \in S, Distinct(q), e \notin Elements(q)
  PROVE  /\ Elements(Append(q, e)) = Elements(q) \cup {e}
         /\ Distinct(Append(q, e))
<1>1. /\ Len(Append(q, e)) = Len(q) + 1
      /\ \A i \in 1..Len(q) : Append(q, e)[i] = q[i]
      /\ Append(q, e)[Len(q) + 1] = e
      /\ Len(q) \in Nat
  OBVIOUS
<1>2. 1..(Len(q) + 1) = (1..Len(q)) \cup {Len(q) + 1}
  BY <1>1
<1>3. Elements(Append(q, e)) = Elements(q) \cup {e}
  BY <1>1, <1>2 DEF Elements
<1>4. Distinct(Append(q, e))
  BY <1>1, <1>2 DEF Distinct, Elements
<1> QED
  BY <1>3, <1>4

(* get() takes the message off the front, and it is not there any more. *)
LEMMA TailOfDistinct ==
  ASSUME NEW S, NEW q \in Seq(S), q # <<>>, Distinct(q)
  PROVE  /\ Head(q) \in Elements(q)
         /\ Elements(Tail(q)) = Elements(q) \ {Head(q)}
         /\ Distinct(Tail(q))
<1>1. /\ Len(q) \in Nat \ {0}
      /\ Head(q) = q[1]
      /\ Tail(q) \in Seq(S)
      /\ Len(Tail(q)) = Len(q) - 1
      /\ \A i \in 1..(Len(q) - 1) : Tail(q)[i] = q[i + 1]
  OBVIOUS
<1>2. Head(q) \in Elements(q)
  BY <1>1 DEF Elements
<1>3. ASSUME NEW e \in Elements(Tail(q)) PROVE e \in Elements(q) \ {Head(q)}
  <2>1. PICK i \in 1..(Len(q) - 1) : e = q[i + 1]
    BY <1>1, <1>3 DEF Elements
  <2>2. i + 1 \in 1..Len(q) /\ i + 1 # 1 /\ 1 \in 1..Len(q)
    BY <1>1
  <2> QED
    BY <1>1, <2>1, <2>2 DEF Elements, Distinct
<1>4. ASSUME NEW e \in Elements(q) \ {Head(q)} PROVE e \in Elements(Tail(q))
  <2>1. PICK i \in 1..Len(q) : e = q[i] /\ i # 1
    BY <1>1, <1>4 DEF Elements
  <2>2. i - 1 \in 1..(Len(q) - 1) /\ (i - 1) + 1 = i
    BY <1>1, <2>1
  <2> QED
    BY <1>1, <2>1, <2>2 DEF Elements
<1>5. Distinct(Tail(q))
  BY <1>1 DEF Distinct
<1> QED
  BY <1>2, <1>3, <1>4, <1>5

Places ==
  /\ Distinct(queue)
  /\ hand \notin Elements(queue) \cup running
  /\ Elements(queue) \cap running = {}
  /\ Elements(queue) \cup running \subseteq sent
  /\ hand = NoMessage \/ hand \in sent
  /\ \A m \in Messages :
       /\ phase[m] # "none" => m \in sent /\ m \notin Elements(queue) /\ m # hand
       /\ phase[m] \in Live => m \in running
       /\ m \in running => phase[m] # "none"

LEMMA InitPlaces == Init => Places
BY ConstantsOK DEF ConstantsOK, Init, Places, Distinct, Elements, Live

LEMMA NextPlaces == Typing /\ Places /\ [Next]_vars => Places'
<1> SUFFICES ASSUME Typing, Places, [Next]_vars PROVE Places'
  OBVIOUS
<1> USE ConstantsOK DEF ConstantsOK, queueVars, listenerVars, runnerVars
<1>1. CASE Take
  <2>1. /\ queue # <<>> /\ queue \in Seq(Messages) /\ Distinct(queue)
        /\ queue' = Tail(queue) /\ hand' = Head(queue)
        /\ UNCHANGED <<sent, running, phase>>
    BY <1>1 DEF Take, Typing, Places
  <2>2. /\ hand' \in Elements(queue)
        /\ Elements(queue') = Elements(queue) \ {hand'}
        /\ Distinct(queue')
    BY <2>1, TailOfDistinct
  <2>3. \A m \in Messages : phase[m] # "none" => m # hand'
    BY <2>2 DEF Places
  <2> HIDE DEF queueVars, listenerVars, runnerVars, ConstantsOK
  <2> QED
    BY <2>1, <2>2, <2>3 DEF Places
<1>2. CASE Reject
  BY <1>2 DEF Reject, Places, Elements, Distinct, Typing
<1>3. CASE Crash
  BY <1>3 DEF Crash, Places, Elements, Distinct, Typing
<1>4. CASE Launch
  BY <1>4 DEF Launch, HasSlot, Places, Elements, Distinct, Typing, Live
<1>5. ASSUME NEW m \in Messages, Submit(m) PROVE Places'
  <2>1. /\ m \notin sent /\ queue \in Seq(Messages) /\ Distinct(queue)
        /\ sent' = sent \cup {m} /\ queue' = Append(queue, m)
        /\ UNCHANGED <<hand, running, phase>>
    BY <1>5 DEF Submit, Typing, Places
  <2>2. Elements(queue') = Elements(queue) \cup {m} /\ Distinct(queue')
    BY <2>1, AppendNew DEF Places
  <2>3. m # hand /\ m \notin running /\ phase[m] = "none"
    BY <2>1 DEF Places
  <2>4. /\ Distinct(queue')
        /\ hand' \notin Elements(queue') \cup running'
        /\ Elements(queue') \cap running' = {}
        /\ Elements(queue') \cup running' \subseteq sent'
        /\ hand' = NoMessage \/ hand' \in sent'
    BY <2>1, <2>2, <2>3 DEF Places
  <2>5. ASSUME NEW n \in Messages
        PROVE  /\ phase'[n] # "none" =>
                    n \in sent' /\ n \notin Elements(queue') /\ n # hand'
               /\ phase'[n] \in Live => n \in running'
               /\ n \in running' => phase'[n] # "none"
    BY <2>1, <2>2, <2>3 DEF Places
  <2> QED
    BY <2>4, <2>5 DEF Places
<1>6. ASSUME NEW m \in Messages, Runner(m) PROVE Places'
  <2> USE DEF Places, Typing, Live, Ended
  <2>1. CASE Attempt(m)
    BY <2>1 DEF Attempt
  <2>2. CASE Ack(m)
    BY <2>2 DEF Ack
  <2>3. CASE Backoff(m)
    BY <2>3 DEF Backoff
  <2>4. CASE Nack(m)
    BY <2>4 DEF Nack
  <2>5. CASE TaskDone(m)
    BY <2>5 DEF TaskDone
  <2> QED
    BY <1>6, <2>1, <2>2, <2>3, <2>4, <2>5 DEF Runner
<1>7. ASSUME NEW m \in Messages, Cancelled(m) PROVE Places'
  BY <1>7 DEF Cancelled, Places, Elements, Distinct, Typing, Live, Ended
<1>8. CASE ListenerCancelled
  BY <1>8 DEF ListenerCancelled, Places, Elements, Distinct, Typing
<1>9. CASE \/ \E f \in Functions : RegisterTask(f)
           \/ CleanupOldTasks \/ BeginWait \/ Poll
           \/ Stop \/ UNCHANGED vars
  <2>1. UNCHANGED <<sent, queue, hand, running, phase>>
    BY <1>9 DEF RegisterTask, CleanupOldTasks, BeginWait, Poll, WaitFinishes,
                WaitTimesOut, Stop, vars
  <2> QED
    BY <2>1 DEF Places, Elements, Distinct
<1> QED
  BY <1>1, <1>2, <1>3, <1>4, <1>5, <1>6, <1>7, <1>8, <1>9 DEF Next

-----------------------------------------------------------------------------
(* Where each slot is. *)

Slots ==
  /\ IsFiniteSet(running)
  /\ SlotsConserved
  /\ NoLostWakeup

LEMMA InitSlots == Init => Slots
BY FS_EmptySet, ConstantsOK
   DEF ConstantsOK, Init, Slots, SlotsConserved, NoLostWakeup, ListenerSlots

LEMMA NextSlots == Typing /\ Places /\ Slots /\ [Next]_vars => Slots'
<1> SUFFICES ASSUME Typing, Places, Slots, [Next]_vars PROVE Slots'
  OBVIOUS
<1>c. Cardinality(running) \in Nat /\ free \in Nat /\ Concurrency \in Nat
  BY FS_CardinalityType, ConstantsOK DEF ConstantsOK, Slots, Typing
<1> USE DEF Slots, SlotsConserved, NoLostWakeup, ListenerSlots
<1>1. CASE Take
  BY <1>1, <1>c DEF Take, runnerVars
<1>2. CASE Reject
  BY <1>2, <1>c DEF Reject, HasSlot, Fetch, runnerVars
<1>3. CASE Crash
  BY <1>3, <1>c DEF Crash, HasSlot, runnerVars
<1>4. CASE Launch
  <2>1. hand \notin running
    BY DEF Places
  <2>2. IsFiniteSet(running') /\ Cardinality(running') = Cardinality(running) + 1
    BY <1>4, <2>1, FS_AddElement DEF Launch
  <2> QED
    BY <1>4, <1>c, <2>2 DEF Launch, HasSlot, Fetch
<1>5. ASSUME NEW m \in Messages, TaskDone(m) PROVE Slots'
  <2>1. IsFiniteSet(running') /\ Cardinality(running') = Cardinality(running) - 1
    BY <1>5, FS_RemoveElement DEF TaskDone
  <2> QED
    BY <1>5, <1>c, <2>1 DEF TaskDone, ReleaseSlot
<1>6. CASE ListenerCancelled
  BY <1>6, <1>c DEF ListenerCancelled, runnerVars
<1>7. CASE Stop
  BY <1>7 DEF Stop, listenerVars, runnerVars
<1>8. ASSUME NEW m \in Messages,
             Submit(m) \/ Attempt(m) \/ Ack(m) \/ Backoff(m) \/ Nack(m) \/ Cancelled(m)
      PROVE  Slots'
  <2>1. UNCHANGED <<running, free, listener, stopped>>
    BY <1>8 DEF Submit, Attempt, Ack, Backoff, Nack, Cancelled, listenerVars,
                runnerVars
  <2> QED
    BY <2>1
<1>9. CASE \/ \E f \in Functions : RegisterTask(f)
           \/ CleanupOldTasks \/ BeginWait \/ Poll
           \/ UNCHANGED vars
  <2>1. UNCHANGED <<running, free, listener, stopped>>
    BY <1>9 DEF RegisterTask, CleanupOldTasks, BeginWait, Poll, WaitFinishes,
                WaitTimesOut, vars, listenerVars, runnerVars
  <2> QED
    BY <2>1
<1> QED
  BY <1>1, <1>2, <1>3, <1>4, <1>5, <1>6, <1>7, <1>8, <1>9 DEF Next, Runner

-----------------------------------------------------------------------------
(* The task_done() calls still owed. *)

LEMMA InitOwed == Init => TaskDoneOwed
BY FS_EmptySet DEF Init, TaskDoneOwed

LEMMA NextOwed ==
  Typing /\ Places /\ Slots /\ TaskDoneOwed /\ [Next]_vars => TaskDoneOwed'
<1> SUFFICES ASSUME Typing, Places, Slots, TaskDoneOwed, [Next]_vars
             PROVE  TaskDoneOwed'
  OBVIOUS
<1>c. Cardinality(running) \in Nat /\ Len(queue) \in Nat /\ unfinished \in Int
  BY FS_CardinalityType DEF Slots, Typing
<1> USE DEF TaskDoneOwed
<1>1. CASE Take
  <2>1. queue # <<>> /\ queue' = Tail(queue) /\ queue \in Seq(Messages)
    BY <1>1 DEF Take, Typing
  <2>2. Len(queue') = Len(queue) - 1
    BY <2>1
  <2>3. hand = NoMessage /\ UNCHANGED <<running, unfinished>>
    BY <1>1 DEF Take, Typing, runnerVars
  <2> QED
    BY <2>2, <2>3, <1>c
<1>2. CASE Reject \/ Crash \/ ListenerCancelled
  <2>1. hand' = NoMessage /\ UNCHANGED <<queue, running, unfinished>>
    BY <1>2 DEF Reject, Crash, ListenerCancelled, queueVars, runnerVars
  <2> QED
    BY <2>1, <1>c
<1>3. CASE Launch
  <2>1. hand \notin running /\ hand # NoMessage /\ hand' = NoMessage
    BY <1>3 DEF Places, Launch, HasSlot, Typing
  <2>2. Cardinality(running') = Cardinality(running) + 1
    BY <1>3, <2>1, FS_AddElement DEF Launch, Slots
  <2>3. UNCHANGED <<queue, unfinished>>
    BY <1>3 DEF Launch, queueVars
  <2> QED
    BY <2>1, <2>2, <2>3, <1>c
<1>4. ASSUME NEW m \in Messages, TaskDone(m) PROVE TaskDoneOwed'
  <2>1. Cardinality(running') = Cardinality(running) - 1
    BY <1>4, FS_RemoveElement DEF TaskDone, Slots
  <2>2. UNCHANGED <<queue, hand>> /\ unfinished' = unfinished - 1
    BY <1>4 DEF TaskDone
  <2> QED
    BY <2>1, <2>2, <1>c
<1>5. ASSUME NEW m \in Messages, Submit(m) PROVE TaskDoneOwed'
  <2>1. queue' = Append(queue, m) /\ queue \in Seq(Messages)
    BY <1>5 DEF Submit, Typing
  <2>2. Len(queue') = Len(queue) + 1
    BY <2>1
  <2>3. UNCHANGED <<running, hand>> /\ unfinished' = unfinished + 1
    BY <1>5 DEF Submit, listenerVars, runnerVars
  <2> QED
    BY <2>2, <2>3, <1>c
<1>6. ASSUME NEW m \in Messages,
             Attempt(m) \/ Ack(m) \/ Backoff(m) \/ Nack(m) \/ Cancelled(m)
      PROVE  TaskDoneOwed'
  <2>1. UNCHANGED <<queue, running, hand, unfinished>>
    BY <1>6 DEF Attempt, Ack, Backoff, Nack, Cancelled, listenerVars, queueVars
  <2> QED
    BY <2>1
<1>7. CASE \/ \E f \in Functions : RegisterTask(f)
           \/ CleanupOldTasks \/ BeginWait \/ Poll
           \/ Stop \/ UNCHANGED vars
  <2>1. UNCHANGED <<queue, running, hand, unfinished>>
    BY <1>7 DEF RegisterTask, CleanupOldTasks, BeginWait, Poll, WaitFinishes, Stop,
                WaitTimesOut, vars, queueVars, listenerVars, runnerVars
  <2> QED
    BY <2>1
<1> QED
  BY <1>1, <1>2, <1>3, <1>4, <1>5, <1>6, <1>7 DEF Next, Runner

-----------------------------------------------------------------------------
(* The attempts of each task. *)

Attempts ==
  \A m \in Messages :
    /\ phase[m] \in {"none", "scheduled"} => attempts[m] = 0
    /\ phase[m] \in {"executing", "acked"} => attempts[m] \in 1..Allowance
    /\ phase[m] = "backoff" => attempts[m] \in 1..(MaxRetries - 1)
    /\ phase[m] = "nacked" => attempts[m] = Allowance
    /\ attempts[m] <= Allowance
    /\ metadata[m] = "ack" => phase[m] = "acked"
    /\ metadata[m] = "nack" => phase[m] = "nacked"

LEMMA InitAttempts == Init => Attempts
BY ConstantsOK DEF ConstantsOK, Init, Attempts, Allowance

LEMMA NextAttempts == Typing /\ Places /\ Attempts /\ [Next]_vars => Attempts'
<1> SUFFICES ASSUME Typing, Places, Attempts, [Next]_vars PROVE Attempts'
  OBVIOUS
<1>c. /\ MaxRetries \in Nat
      /\ Allowance = IF MaxRetries = 0 THEN 1 ELSE MaxRetries
  BY ConstantsOK DEF ConstantsOK, Allowance
<1>t. /\ phase \in [Messages -> Live \cup Ended \cup {"none"}]
      /\ attempts \in [Messages -> Nat]
      /\ metadata \in [Messages -> {"none", "ack", "nack"}]
  BY DEF Typing
<1>1. CASE Launch
  <2>1. /\ hand \in Messages
        /\ phase[hand] = "none"
        /\ phase' = [phase EXCEPT ![hand] = "scheduled"]
        /\ UNCHANGED <<attempts, metadata>>
    BY <1>1 DEF Launch, HasSlot, Typing, Places
  <2> QED
    BY <2>1, <1>t DEF Attempts
<1>2. ASSUME NEW m \in Messages, Runner(m) PROVE Attempts'
  <2> USE DEF Attempts
  <2>1. CASE Attempt(m)
    BY <2>1, <1>c, <1>t DEF Attempt, runnerVars
  <2>2. CASE Ack(m)
    BY <2>2, <1>c, <1>t DEF Ack
  <2>3. CASE Backoff(m)
    BY <2>3, <1>c, <1>t DEF Backoff, Exhausted
  <2>4. CASE Nack(m)
    BY <2>4, <1>c, <1>t DEF Nack, Exhausted
  <2>5. CASE TaskDone(m)
    BY <2>5 DEF TaskDone
  <2> QED
    BY <1>2, <2>1, <2>2, <2>3, <2>4, <2>5 DEF Runner
<1>3. ASSUME NEW m \in Messages, Cancelled(m) PROVE Attempts'
  BY <1>3, <1>t DEF Cancelled, Attempts, Live
<1>4. CASE CleanupOldTasks
  BY <1>4, <1>t DEF CleanupOldTasks, Attempts
<1>5. CASE \/ \E f \in Functions : RegisterTask(f)
           \/ \E m \in Messages : Submit(m)
           \/ Take \/ Reject \/ Crash \/ ListenerCancelled
           \/ BeginWait \/ Poll
           \/ Stop \/ UNCHANGED vars
  <2>1. UNCHANGED <<phase, attempts, metadata>>
    BY <1>5 DEF RegisterTask, Submit, Take, Reject, Crash, ListenerCancelled,
                BeginWait, Poll, WaitFinishes, Stop, WaitTimesOut, vars, runnerVars
  <2> QED
    BY <2>1 DEF Attempts
<1> QED
  BY <1>1, <1>2, <1>3, <1>4, <1>5 DEF Next

-----------------------------------------------------------------------------
IInv == Typing /\ Places /\ Slots /\ TaskDoneOwed /\ Attempts

LEMMA Invariance == Spec => []IInv
<1>1. Init => IInv
  BY InitTyping, InitPlaces, InitSlots, InitOwed, InitAttempts DEF IInv
<1>2. IInv /\ [Next]_vars => IInv'
  BY NextTyping, NextPlaces, NextSlots, NextOwed, NextAttempts DEF IInv
<1> QED
  BY <1>1, <1>2, PTL DEF Spec

(* Every variable keeps its type; that task_done() is never called once too*)
(* often is what keeps the counter of the queue in Nat.                    *)
THEOREM TypeCorrect == Spec => []TypeOK
<1>1. IInv => TypeOK
  <2> SUFFICES ASSUME IInv PROVE TypeOK
    OBVIOUS
  <2>1. unfinished \in Nat
    BY FS_CardinalityType DEF IInv, Typing, Slots, TaskDoneOwed
  <2> QED
    BY <2>1 DEF IInv, Typing, TypeOK
<1> QED
  BY <1>1, Invariance, PTL

(* The slots of the semaphore are conserved on every path through          *)
(* listen_tasks, the done callback and stop().                             *)
THEOREM SlotsAreConserved == Spec => []SlotsConserved
<1>1. IInv => SlotsConserved
  BY DEF IInv, Slots
<1> QED
  BY <1>1, Invariance, PTL

(* At most task_concurrency runners exist. *)
THEOREM ConcurrencyBound == Spec => [](Cardinality(running) <= Concurrency)
<1>1. IInv => Cardinality(running) <= Concurrency
  BY FS_CardinalityType
     DEF IInv, Typing, Slots, SlotsConserved, ListenerSlots
<1> QED
  BY <1>1, Invariance, PTL

(* A slot is never free beside a listener asleep in acquire(). *)
THEOREM NoWakeupIsLost == Spec => []NoLostWakeup
<1>1. IInv => NoLostWakeup
  BY DEF IInv, Slots
<1> QED
  BY <1>1, Invariance, PTL

(* No message is in two places, or twice on the queue. *)
THEOREM EveryMessageInOnePlace == Spec => []OnePlace
<1>1. IInv => OnePlace
  BY DEF IInv, Places, OnePlace, InQueue, Elements, Distinct
<1> QED
  BY <1>1, Invariance, PTL

(* custom_task_done never calls task_done() once too often. *)
THEOREM TaskDoneIsOwed == Spec => []TaskDoneOwed
<1>1. IInv => TaskDoneOwed
  BY DEF IInv
<1> QED
  BY <1>1, Invariance, PTL

(* max_retries is respected, and the verdict recorded is that of the run. *)
THEOREM RetriesAreDisciplined == Spec => []RetryDiscipline
<1>1. IInv => RetryDiscipline
  BY DEF IInv, Attempts, RetryDiscipline
<1> QED
  BY <1>1, Invariance, PTL

(* A call of wait(exit_on_finish=True) that returns has missed nothing but *)
(* a message the listener was just given a slot for; with no slot at all   *)
(* (Concurrency = 0) the listener would sleep on it for ever.              *)
THEOREM WaitMissesAtMostTheHand ==
  ASSUME Concurrency > 0
  PROVE  Spec => WaitMissesOnlyHand
<1> DEFINE Returns == waiter = "waiting" /\ waiter' = "finished"
<1>1. ASSUME IInv, [Next]_vars, Returns,  NEW m \in sent
      PROVE  Settled(m) \/ (m = hand /\ listener = "granted")
  <2>1. PICK topics \in BOOLEAN : WaitFinishes(topics)
    <3>1. ~ UNCHANGED waiter /\ waiter' # "waiting" /\ waiter' # "timed_out"
          /\ waiter' # "cancelled"
      BY <1>1
    <3>2. Next
      BY <1>1, <3>1 DEF vars
    <3>3. ~ (Take \/ Reject \/ Crash \/ Launch \/ CleanupOldTasks \/ ListenerCancelled)
      BY <3>1 DEF Take, Reject, Crash, Launch, CleanupOldTasks, ListenerCancelled
    <3>4. \A f \in Functions : ~ RegisterTask(f)
      BY <3>1 DEF RegisterTask
    <3>5. \A n \in Messages : ~ (Submit(n) \/ Runner(n) \/ Cancelled(n))
      BY <3>1 DEF Submit, Runner, Attempt, Ack, Backoff, Nack, TaskDone, Cancelled
    <3>6. ~ (BeginWait \/ Stop) /\ \A topics \in BOOLEAN : ~ WaitTimesOut(topics)
      BY <3>1, <1>1 DEF BeginWait, WaitTimesOut, Stop
    <3> QED
      BY <3>2, <3>3, <3>4, <3>5, <3>6 DEF Next, Poll
  <2>2. queue = <<>> /\ running = {} /\ LoopFree /\ ~stopped
    BY <2>1 DEF WaitFinishes, HasPendingTasks, Turn
  <2>3. InQueue = {}
    BY <2>2 DEF InQueue
  <2>4. CASE m # hand
    BY <2>2, <2>3, <2>4 DEF Settled
  <2>5. CASE m = hand
    <3>1. hand # NoMessage
      BY <1>1, <2>5, ConstantsOK DEF ConstantsOK, IInv, Typing
    <3>2. listener \in {"acquire", "granted"}
      BY <1>1, <2>2, <3>1 DEF IInv, Typing, LoopFree
    <3>3. listener # "acquire"
      BY <1>1, <2>2, FS_EmptySet, ConstantsOK
         DEF ConstantsOK, IInv, Slots, SlotsConserved, NoLostWakeup, ListenerSlots
    <3> QED
      BY <2>5, <3>2, <3>3
  <2> QED
    BY <2>4, <2>5
<1>2. IInv /\ [Next]_vars =>
        [Returns => \A m \in sent : Settled(m) \/ (m = hand /\ listener = "granted")]_vars
  BY <1>1
<1> QED
  BY <1>2, Invariance, PTL DEF Spec, WaitMissesOnlyHand

-----------------------------------------------------------------------------
(* TaskWorker implements TaskQueue: every step of the worker is a step of  *)
(* the line of tasks, or leaves it as it is.  The mapping is that of       *)
(* TaskWorker!Abstract: the message in hand stands before the queue, a     *)
(* task runs until its verdict, and what was sent and is nowhere was       *)
(* discarded.                                                              *)

LiveRunners == {m \in running : phase[m] \in Live}
Results     == [m \in Messages |-> Result(m)]

(* The outcome of a message in phase p, where gone says that it was sent   *)
(* and is in none of the places of the worker.                             *)
Verdict(p, gone) ==
  IF p = "acked" THEN "acked"
  ELSE IF p = "nacked" THEN "nacked"
  ELSE IF p = "cancelled" THEN "abandoned"
  ELSE IF gone THEN "discarded" ELSE "none"

Gone(m) == m \in sent /\ m \notin Elements(queue) /\ m \notin running /\ m # hand

LEMMA ResultOf ==
  ASSUME NEW m \in Messages
  PROVE  /\ Result(m) = Verdict(phase[m], Gone(m))
         /\ Result(m)' = Verdict(phase'[m], Gone(m)')
<1>1. /\ Settled(m) <=> phase[m] \in Ended \/ Gone(m)
      /\ Settled(m)' <=> phase'[m] \in Ended \/ Gone(m)'
  BY DEF Settled, InQueue, Gone, Elements
<1>2. Result(m) = Verdict(phase[m], Gone(m))
  BY <1>1 DEF Result, Verdict, Ended
<1>3. Result(m)' = Verdict(phase'[m], Gone(m)')
  BY <1>1 DEF Result, Verdict, Ended
<1> QED
  BY <1>2, <1>3

(* The line of TaskQueue holds the hand and the queue. *)
LEMMA QueuedElements ==
  ASSUME Typing
  PROVE  /\ Queued \in Seq(Messages)
         /\ Elements(Queued) = Elements(queue) \cup ({hand} \ {NoMessage})
         /\ hand # NoMessage =>
              Queued # <<>> /\ Head(Queued) = hand /\ Tail(Queued) = queue
         /\ hand = NoMessage => Queued = queue
<1>1. queue \in Seq(Messages) /\ hand \in Messages \cup {NoMessage}
  BY DEF Typing
<1>2. CASE hand = NoMessage
  BY <1>1, <1>2 DEF Queued
<1>3. CASE hand # NoMessage
  <2>1. Queued = <<hand>> \o queue
    BY <1>3 DEF Queued
  <2>2. /\ Queued \in Seq(Messages)
        /\ Len(Queued) = Len(queue) + 1
        /\ Queued[1] = hand
        /\ \A i \in 1..Len(queue) : Queued[i + 1] = queue[i]
        /\ Len(queue) \in Nat
    BY <1>1, <1>3, <2>1
  <2>3. Queued # <<>> /\ Head(Queued) = hand
    BY <2>2
  <2>4. Tail(Queued) = queue
    <3>1. /\ Tail(Queued) \in Seq(Messages)
          /\ Len(Tail(Queued)) = Len(queue)
          /\ \A i \in 1..Len(queue) : Tail(Queued)[i] = queue[i]
      BY <2>2, <2>3
    <3> QED
      BY <3>1, <1>1
  <2>5. ASSUME NEW e \in Elements(Queued) PROVE e \in Elements(queue) \cup {hand}
    <3>1. PICK i \in 1..(Len(queue) + 1) : e = Queued[i]
      BY <2>2, <2>5 DEF Elements
    <3>2. CASE i = 1
      BY <3>1, <3>2, <2>2
    <3>3. CASE i # 1
      <4>1. i - 1 \in 1..Len(queue) /\ (i - 1) + 1 = i
        BY <3>3, <2>2
      <4> QED
        BY <3>1, <4>1, <2>2 DEF Elements
    <3> QED
      BY <3>2, <3>3
  <2>6. ASSUME NEW e \in Elements(queue) \cup {hand} PROVE e \in Elements(Queued)
    <3>1. CASE e = hand
      BY <3>1, <2>2 DEF Elements
    <3>2. CASE e \in Elements(queue)
      <4>1. PICK i \in 1..Len(queue) : e = queue[i]
        BY <3>2 DEF Elements
      <4>2. i + 1 \in 1..Len(Queued) /\ e = Queued[i + 1]
        BY <4>1, <2>2
      <4> QED
        BY <4>2 DEF Elements
    <3> QED
      BY <2>6, <3>1, <3>2
  <2> QED
    BY <1>3, <2>2, <2>3, <2>4, <2>5, <2>6
<1> QED
  BY <1>2, <1>3

-----------------------------------------------------------------------------
LEMMA InitRefines == Init => Abstract!Init
<1> SUFFICES ASSUME Init PROVE Abstract!Init
  OBVIOUS
<1>1. Typing
  BY InitTyping
<1>2. Queued = <<>> /\ {m \in running : phase[m] \in Live} = {}
  BY DEF Init, Queued
<1>3. \A m \in Messages : Result(m) = "none"
  BY ResultOf DEF Init, Verdict, Gone
<1> QED
  BY <1>2, <1>3 DEF Abstract!Init

(* A step that moves a message between hand and queue, or none at all. *)
LEMMA StutterRefines ==
  ASSUME UNCHANGED <<Queued, LiveRunners, Results>>
  PROVE  [Abstract!Next]_(Abstract!vars)
BY DEF Abstract!vars, LiveRunners, Results

LEMMA SubmitRefines ==
  ASSUME IInv, IInv', NEW m \in Messages, Submit(m)
  PROVE  Abstract!Submit(m)
<1>1. /\ m \notin sent /\ sent' = sent \cup {m}
      /\ queue \in Seq(Messages) /\ queue' = Append(queue, m)
      /\ UNCHANGED <<hand, running, phase>>
      /\ hand \in Messages \cup {NoMessage}
  BY DEF Submit, IInv, Typing, listenerVars, runnerVars
<1>2. m \notin Elements(queue) /\ m \notin running /\ m # hand /\ phase[m] = "none"
  BY <1>1, ConstantsOK DEF ConstantsOK, IInv, Places
<1>3. Elements(queue') = Elements(queue) \cup {m}
  BY <1>1, <1>2, AppendNew DEF IInv, Places
<1>4. Queued' = Append(Queued, m)
  <2>1. CASE hand = NoMessage
    BY <1>1, <2>1 DEF Queued
  <2>2. CASE hand # NoMessage
    <3>1. Queued = <<hand>> \o queue /\ Queued' = <<hand>> \o Append(queue, m)
      BY <1>1, <2>2 DEF Queued
    <3> QED
      BY <1>1, <2>2, <3>1
  <2> QED
    BY <2>1, <2>2
<1>5. \A n \in Messages : Result(n)' = Result(n)
  <2> SUFFICES ASSUME NEW n \in Messages PROVE Result(n)' = Result(n)
    OBVIOUS
  <2>1. Gone(n)' <=> Gone(n)
    BY <1>1, <1>2, <1>3 DEF Gone
  <2> QED
    BY <2>1, <1>1, ResultOf DEF Verdict
<1>6. Result(m) = "none"
  BY <1>1, <1>2, ResultOf DEF Verdict, Gone
<1>7. m \notin Elements(Queued)
  BY <1>2, QueuedElements DEF IInv
<1> QED
  BY <1>1, <1>2, <1>4, <1>5, <1>6, <1>7
     DEF Abstract!Submit, Abstract!InLine, Elements

(* Reject, Crash and the cancellation of the listener drop the hand. *)
LEMMA DropRefines ==
  ASSUME IInv, IInv', hand # NoMessage, hand' = NoMessage,
         UNCHANGED <<sent, queue, running, phase>>
  PROVE  Abstract!Discard
<1>1. /\ hand \in Messages /\ hand \in sent /\ hand \notin Elements(queue)
      /\ hand \notin running /\ phase[hand] = "none"
  BY DEF IInv, Typing, Places
<1>2. Queued # <<>> /\ Head(Queued) = hand /\ Tail(Queued) = queue
  BY QueuedElements DEF IInv
<1>3. Queued' = queue
  BY DEF Queued, IInv, Typing
<1>4. ASSUME NEW n \in Messages
      PROVE  Result(n)' = IF n = hand THEN "discarded" ELSE Result(n)
  <2>1. hand' # n
    BY ConstantsOK DEF ConstantsOK
  <2>2. Gone(n)' <=> Gone(n) \/ n = hand
    BY <2>1, <1>1 DEF Gone
  <2>3. ~ Gone(hand)
    BY DEF Gone
  <2> QED
    BY <2>2, <2>3, <1>1, ResultOf DEF Verdict
<1>5. Results' = [Results EXCEPT ![hand] = "discarded"]
  BY <1>1, <1>4 DEF Results
<1> QED
  BY <1>2, <1>3, <1>5 DEF Abstract!Discard, Results

LEMMA LaunchRefines ==
  ASSUME IInv, IInv', Launch
  PROVE  Abstract!Start
<1>1. /\ HasSlot /\ hand # NoMessage /\ hand' = NoMessage
      /\ running' = running \cup {hand}
      /\ phase' = [phase EXCEPT ![hand] = "scheduled"]
      /\ phase \in [Messages -> Live \cup Ended \cup {"none"}]
      /\ UNCHANGED <<sent, queue, free>>
  BY DEF Launch, HasSlot, IInv, Typing, queueVars
<1>2. hand \in Messages /\ hand \in sent /\ hand \notin running /\ phase[hand] = "none"
  BY <1>1 DEF IInv, Typing, Places
<1>3. Queued # <<>> /\ Head(Queued) = hand /\ Tail(Queued) = queue
  BY <1>1, QueuedElements DEF IInv
<1>9. Queued' = queue
  BY <1>1 DEF Queued, IInv, Typing
<1>4. LiveRunners' = LiveRunners \cup {hand}
  BY <1>1, <1>2 DEF LiveRunners, Live, IInv, Typing
<1>5. Cardinality(LiveRunners) < Concurrency
  <2>1. IsFiniteSet(running) /\ LiveRunners \subseteq running
    BY DEF IInv, Slots, LiveRunners
  <2>2. /\ Cardinality(LiveRunners) <= Cardinality(running)
        /\ Cardinality(running) \in Nat /\ Cardinality(LiveRunners) \in Nat
    BY <2>1, FS_Subset, FS_CardinalityType
  <2>3. free + Cardinality(running) + 1 = Concurrency /\ free \in Nat
    BY <1>1 DEF IInv, Typing, Slots, SlotsConserved, ListenerSlots, HasSlot
  <2> QED
    BY <2>2, <2>3
<1>6. ASSUME NEW n \in Messages PROVE Result(n)' = Result(n)
  <2>1. hand' # n
    BY <1>1, ConstantsOK DEF ConstantsOK
  <2>2. Gone(n)' <=> Gone(n)
    BY <2>1, <1>1, <1>2 DEF Gone
  <2>3. phase'[n] = IF n = hand THEN "scheduled" ELSE phase[n]
    BY <1>1
  <2>4. ~ Gone(hand)
    BY DEF Gone
  <2> QED
    BY <2>2, <2>3, <2>4, <1>2, ResultOf DEF Verdict
<1>7. UNCHANGED Results
  BY <1>6 DEF Results
<1>8. /\ Queued # <<>> /\ Cardinality(LiveRunners) < Concurrency
      /\ LiveRunners' = LiveRunners \cup {Head(Queued)}
      /\ Queued' = Tail(Queued)
      /\ UNCHANGED Results
  BY <1>3, <1>9, <1>4, <1>5, <1>7
<1> QED
  BY <1>8 DEF Abstract!Cardinality, Cardinality, Abstract!Start, LiveRunners, Results

(* Ack, Nack and Cancelled give the runner its verdict. *)
LEMMA VerdictRefines ==
  ASSUME IInv, IInv', NEW m \in Messages, NEW verdict \in Ended,
         phase[m] \in Live, phase' = [phase EXCEPT ![m] = verdict],
         UNCHANGED <<sent, queue, hand, running>>
  PROVE  \E how \in {"acked", "nacked", "abandoned"} : Abstract!Finish(m, how)
<1> DEFINE how == IF verdict = "cancelled" THEN "abandoned" ELSE verdict
<1>1. /\ m \in LiveRunners
      /\ phase \in [Messages -> Live \cup Ended \cup {"none"}]
  BY DEF IInv, Typing, Places, LiveRunners
<1>2. LiveRunners' = LiveRunners \ {m}
  BY <1>1 DEF LiveRunners, Live, Ended, IInv, Typing
<1>3. UNCHANGED Queued
  BY DEF Queued
<1>4. ASSUME NEW n \in Messages
      PROVE  Result(n)' = IF n = m THEN how ELSE Result(n)
  <2>1. Gone(n)' <=> Gone(n)
    BY DEF Gone
  <2>2. phase'[n] = IF n = m THEN verdict ELSE phase[n]
    BY <1>1
  <2> QED
    BY <2>1, <2>2, ResultOf DEF Verdict, Ended
<1>5. Results' = [Results EXCEPT ![m] = how]
  BY <1>4 DEF Results
<1>6. how \in {"acked", "nacked", "abandoned"}
  BY DEF Ended
<1> QED
  BY <1>1, <1>2, <1>3, <1>5, <1>6 DEF Abstract!Finish, LiveRunners, Results

(* Take moves the front of the queue into the empty hand. *)
LEMMA TakeRefines ==
  ASSUME IInv, IInv', Take
  PROVE  UNCHANGED <<Queued, LiveRunners, Results>>
<1>1. /\ queue # <<>> /\ queue \in Seq(Messages)
      /\ hand = NoMessage /\ hand' = Head(queue) /\ queue' = Tail(queue)
      /\ UNCHANGED <<sent, running, phase>>
  BY DEF Take, IInv, Typing, runnerVars
<1>2. /\ hand' \in Elements(queue)
      /\ Elements(queue') = Elements(queue) \ {hand'}
  BY <1>1, TailOfDistinct DEF IInv, Places
<1>3. Queued' = <<Head(queue)>> \o Tail(queue)
  BY <1>1, ConstantsOK DEF ConstantsOK, Queued
<1>4. Queued' = Queued
  <2>1. <<Head(queue)>> \o Tail(queue) = queue
    BY <1>1
  <2> QED
    BY <1>1, <1>3, <2>1, QueuedElements DEF IInv
<1>5. ASSUME NEW n \in Messages PROVE Result(n)' = Result(n)
  <2>1. hand # n
    BY <1>1, ConstantsOK DEF ConstantsOK
  <2>2. Gone(n)' <=> Gone(n)
    BY <2>1, <1>1, <1>2 DEF Gone
  <2> QED
    BY <2>2, <1>1, ResultOf DEF Verdict
<1> QED
  BY <1>1, <1>4, <1>5 DEF LiveRunners, Results

(* Attempt, Backoff and TaskDone do not show in the abstract state. *)
LEMMA RunnerRefines ==
  ASSUME IInv, IInv', NEW m \in Messages, Attempt(m) \/ Backoff(m) \/ TaskDone(m)
  PROVE  UNCHANGED <<Queued, LiveRunners, Results>>
<1>1. UNCHANGED <<sent, queue, hand>>
  BY DEF Attempt, Backoff, TaskDone, queueVars, listenerVars
<1>2. UNCHANGED Queued
  BY <1>1 DEF Queued
<1>3. Typing /\ Typing' /\ Places
  BY DEF IInv
<1>4. CASE Attempt(m) \/ Backoff(m)
  <2>1. /\ running' = running /\ m \in Messages
        /\ phase[m] \in Live /\ phase'[m] \in Live
        /\ \A n \in Messages : n # m => phase'[n] = phase[n]
    BY <1>3, <1>4 DEF Attempt, Backoff, Live, Typing, runnerVars
  <2>2. LiveRunners' = LiveRunners
    BY <1>3, <2>1 DEF LiveRunners, Typing
  <2>3. ASSUME NEW n \in Messages PROVE Result(n)' = Result(n)
    <3>1. Gone(n)' <=> Gone(n)
      BY <1>1, <2>1 DEF Gone
    <3>2. CASE n = m
      <4>1. m \in running
        BY <1>3, <2>1 DEF Places
      <4> QED
        BY <3>1, <3>2, <4>1, <2>1, ResultOf DEF Verdict, Live, Gone
    <3>3. CASE n # m
      BY <3>1, <3>3, <2>1, ResultOf DEF Verdict
    <3> QED
      BY <3>2, <3>3
  <2> QED
    BY <1>2, <2>2, <2>3 DEF Results
<1>5. CASE TaskDone(m)
  <2>1. running' = running \ {m} /\ phase' = phase /\ phase[m] \in Ended
    BY <1>5 DEF TaskDone
  <2>2. LiveRunners' = LiveRunners
    BY <2>1 DEF LiveRunners, Live, Ended
  <2>3. ASSUME NEW n \in Messages PROVE Result(n)' = Result(n)
    <3>1. n # m => (Gone(n)' <=> Gone(n))
      BY <1>1, <2>1 DEF Gone
    <3> QED
      BY <3>1, <2>1, ResultOf DEF Verdict, Ended
  <2> QED
    BY <1>2, <2>2, <2>3 DEF Results
<1> QED
  BY <1>4, <1>5

LEMMA StepRefines == IInv /\ IInv' /\ [Next]_vars => [Abstract!Next]_(Abstract!vars)
<1> SUFFICES ASSUME IInv, IInv', [Next]_vars
             PROVE  [Abstract!Next]_(Abstract!vars)
  OBVIOUS
<1>1. CASE Take
  BY <1>1, TakeRefines, StutterRefines
<1>2. CASE Reject \/ Crash
  <2>1. /\ hand # NoMessage /\ hand' = NoMessage
        /\ UNCHANGED <<sent, queue, running, phase>>
    BY <1>2 DEF Reject, Crash, HasSlot, IInv, Typing, queueVars, runnerVars
  <2> QED
    BY <2>1, DropRefines DEF Abstract!Next
<1>3. CASE Launch
  BY <1>3, LaunchRefines DEF Abstract!Next
<1>4. ASSUME NEW m \in Messages, Submit(m) PROVE [Abstract!Next]_(Abstract!vars)
  BY <1>4, SubmitRefines DEF Abstract!Next
<1>5. ASSUME NEW m \in Messages, Ack(m) \/ Nack(m) \/ Cancelled(m)
      PROVE  [Abstract!Next]_(Abstract!vars)
  <2>1. PICK verdict \in Ended : phase' = [phase EXCEPT ![m] = verdict]
    BY <1>5 DEF Ack, Nack, Cancelled, Ended
  <2>2. phase[m] \in Live /\ UNCHANGED <<sent, queue, hand, running>>
    BY <1>5 DEF Ack, Nack, Cancelled, Live, queueVars, listenerVars
  <2> QED
    BY <2>1, <2>2, VerdictRefines DEF Abstract!Next
<1>6. ASSUME NEW m \in Messages, Attempt(m) \/ Backoff(m) \/ TaskDone(m)
      PROVE  [Abstract!Next]_(Abstract!vars)
  BY <1>6, RunnerRefines, StutterRefines
<1>7. CASE ListenerCancelled
  <2>1. hand' = NoMessage /\ UNCHANGED <<sent, queue, running, phase>>
    BY <1>7 DEF ListenerCancelled, queueVars, runnerVars
  <2>2. CASE hand # NoMessage
    BY <2>1, <2>2, DropRefines DEF Abstract!Next
  <2>3. CASE hand = NoMessage
    <3>1. UNCHANGED <<Queued, LiveRunners, Results>>
      BY <2>1, <2>3 DEF Queued, LiveRunners, Results, Result, Settled, InQueue
    <3> QED
      BY <3>1, StutterRefines
  <2> QED
    BY <2>2, <2>3
<1>8. CASE \/ \E f \in Functions : RegisterTask(f)
           \/ CleanupOldTasks \/ BeginWait \/ Poll
           \/ Stop \/ UNCHANGED vars
  <2>1. UNCHANGED <<sent, queue, hand, running, phase>>
    BY <1>8 DEF RegisterTask, CleanupOldTasks, BeginWait, Poll, WaitFinishes,
                WaitTimesOut, Stop, vars, queueVars, listenerVars, runnerVars
  <2>2. UNCHANGED <<Queued, LiveRunners, Results>>
    BY <2>1 DEF Queued, LiveRunners, Results, Result, Settled, InQueue
  <2> QED
    BY <2>2, StutterRefines
<1> QED
  BY <1>1, <1>2, <1>3, <1>4, <1>5, <1>6, <1>7, <1>8 DEF Next, Runner

(* The worker implements the line of tasks: first in, first started; never *)
(* more than Concurrency running; one outcome for each task, for ever.     *)
THEOREM WorkerImplementsTaskQueue == Spec => ImplementsTaskQueue
<1>1. Init => Abstract!Init
  BY InitRefines
<1>2. IInv /\ IInv' /\ [Next]_vars => [Abstract!Next]_(Abstract!vars)
  BY StepRefines
<1> QED
  BY <1>1, <1>2, Invariance, PTL DEF Spec, ImplementsTaskQueue, Abstract!Spec

(* A message in the line or in the hands of a live runner has no outcome. *)
LEMMA Undecided ==
  ASSUME IInv, NEW m \in Messages, m \in Elements(Queued) \cup LiveRunners
  PROVE  Result(m) = "none"
<1>1. CASE m \in LiveRunners
  <2>1. phase[m] \in Live /\ m \in running
    BY <1>1 DEF LiveRunners
  <2> QED
    BY <2>1, ResultOf DEF Verdict, Live, Gone
<1>2. CASE m \in Elements(queue) \cup ({hand} \ {NoMessage})
  <2>1. phase[m] = "none" /\ ~ Gone(m)
    BY <1>2 DEF IInv, Typing, Places, Gone
  <2> QED
    BY <2>1, ResultOf DEF Verdict
<1> QED
  BY <1>1, <1>2, QueuedElements DEF IInv

(* What became of a task does not change any more: no second verdict comes *)
(* of a runner that was cancelled, and nothing that was dropped is run     *)
(* after all (_function_runner, listen_tasks).                             *)
THEOREM OutcomesAreFinal ==
  Spec => [][\A m \in Messages : Result(m) # "none" => Result(m)' = Result(m)]_vars
<1>1. ASSUME IInv, IInv', [Next]_vars, NEW m \in Messages, Result(m) # "none"
      PROVE  Result(m)' = Result(m)
  <2>1. m \notin Elements(Queued) \cup LiveRunners
    BY <1>1, Undecided
  <2>2. [Abstract!Next]_(Abstract!vars)
    BY <1>1, StepRefines
  <2>3. CASE UNCHANGED Results
    BY <2>3 DEF Results
  <2>4. CASE Abstract!Discard
    <3>1. /\ Queued # <<>> /\ Queued \in Seq(Messages)
          /\ Results' = [Results EXCEPT ![Head(Queued)] = "discarded"]
      BY <1>1, <2>4, QueuedElements DEF Abstract!Discard, Results, IInv
    <3>2. Head(Queued) \in Elements(Queued)
      BY <3>1 DEF Elements
    <3> QED
      BY <2>1, <3>1, <3>2 DEF Results
  <2>5. ASSUME NEW n \in Messages, NEW how, Abstract!Finish(n, how)
        PROVE  Result(m)' = Result(m)
    <3>1. n \in LiveRunners /\ Results' = [Results EXCEPT ![n] = how]
      BY <2>5 DEF Abstract!Finish, LiveRunners, Results
    <3> QED
      BY <2>1, <3>1 DEF Results
  <2> QED
    BY <2>2, <2>3, <2>4, <2>5
       DEF Abstract!Next, Abstract!vars, Abstract!Start, Abstract!Submit, Results
<1>2. IInv /\ IInv' /\ [Next]_vars =>
        [\A m \in Messages : Result(m) # "none" => Result(m)' = Result(m)]_vars
  BY <1>1
<1> QED
  BY <1>2, Invariance, PTL DEF Spec
=============================================================================
