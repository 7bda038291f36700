----------------------------- MODULE TaskWorker -----------------------------
(***************************************************************************)
(* The delayed-task worker of aiotasks on the memory backend: the queue    *)
(* `.delay()` puts messages on, the listener that takes them off, the      *)
(* bounded semaphore that limits concurrency, the runner of each task with *)
(* its retries, the done callback that gives the slot back, the poller     *)
(* `wait()` and `stop()`.                                                  *)
(*                                                                         *)
(* Everything runs on one asyncio loop, so an action is one stretch of     *)
(* code between two points where the loop may run something else.          *)
(***************************************************************************)
EXTENDS Naturals, Sequences, FiniteSets

CONSTANTS
  Messages,        \* messages a producer may put on the queue, each once
  Functions,       \* names a program may register as tasks
  FnOf,            \* the function name a message carries
  Kind,            \* whether a message can be decoded and dispatched
  Concurrency,     \* AsyncTaskDelayBase.task_concurrency
  MaxRetries,      \* AsyncTaskDelayBase.max_retries
  ExitOnFinish,    \* wait(exit_on_finish=...)
  HasTimeout,      \* wait(timeout=...) is not 0
  NoMessage        \* the listener has no message in hand

(* "task" is a well formed message; "garbled" does not decode; the id of   *)
(* "bad_id" is a string or an integer that is no UUID; that of             *)
(* "untyped_id" is neither (absent, for one); the args or kwargs of        *)
(* "bad_args" cannot be unpacked into the call of the runner.              *)
Kinds == {"task", "garbled", "bad_id", "untyped_id", "bad_args"}

ASSUME ConstantsOK ==
  /\ Concurrency \in Nat
  /\ MaxRetries \in Nat
  /\ FnOf \in [Messages -> Functions]
  /\ Kind \in [Messages -> Kinds]
  /\ ExitOnFinish \in BOOLEAN
  /\ HasTimeout \in BOOLEAN
  /\ NoMessage \notin Messages

VARIABLES
  sent,        \* messages put on the queue so far
  queue,       \* asyncio.Queue: _task_queue
  unfinished,  \* asyncio.Queue: puts without a task_done() yet
  available,   \* task_available_tasks, the names registered
  free,        \* the value of task_concurrency_sem
  listener,    \* where the coroutine listen_tasks is
  hand,        \* the message listen_tasks holds in raw_data
  running,     \* task_running_tasks, by message
  phase,       \* where each _function_runner is
  attempts,    \* calls of the task function made by its runner
  metadata,    \* _task_metadata, by message
  waiter,      \* where a call of wait() is
  stopped      \* stop() has been called

queueVars    == <<sent, queue, unfinished>>
listenerVars == <<free, listener, hand>>
runnerVars   == <<running, phase, attempts, metadata>>
vars == <<sent, queue, unfinished, available, free, listener, hand,
          running, phase, attempts, metadata, waiter, stopped>>

(* "get" is suspended in queue.get(), "acquire" in semaphore.acquire();    *)
(* "granted" has been handed a slot and not run since; "holding" and       *)
(* "next" are inside one stretch of the loop; "dead" ended by an exception.*)
ListenerStates ==
  {"get", "acquire", "granted", "holding", "next", "dead", "cancelled"}

Live  == {"scheduled", "executing", "backoff"}
Ended == {"acked", "nacked", "cancelled"}

TypeOK ==
  /\ sent \subseteq Messages
  /\ queue \in Seq(Messages)
  /\ unfinished \in Nat
  /\ available \subseteq Functions
  /\ free \in Nat
  /\ listener \in ListenerStates
  /\ hand \in Messages \cup {NoMessage}
  /\ running \subseteq Messages
  /\ phase \in [Messages -> Live \cup Ended \cup {"none"}]
  /\ attempts \in [Messages -> Nat]
  /\ metadata \in [Messages -> {"none", "ack", "nack"}]
  /\ waiter \in {"idle", "waiting", "finished", "timed_out", "cancelled"}
  /\ stopped \in BOOLEAN

Init ==
  /\ sent = {}
  /\ queue = <<>>
  /\ unfinished = 0
  /\ available = {}
  /\ free = Concurrency
  /\ listener = "get"
  /\ hand = NoMessage
  /\ running = {}
  /\ phase = [m \in Messages |-> "none"]
  /\ attempts = [m \in Messages |-> 0]
  /\ metadata = [m \in Messages |-> "none"]
  /\ waiter = "idle"
  /\ stopped = FALSE

-----------------------------------------------------------------------------
(* The loop is free to run something other than the listener, which keeps  *)
(* it as long as queue.get() and acquire() find what they ask for.         *)
LoopFree == listener \notin {"holding", "next"}
Turn     == LoopFree /\ ~stopped

(* BoundedSemaphore.release: a waiter that was not cancelled gets the slot *)
(* directly, and the value does not show it.                               *)
ReleaseSlotWithoutWakeup ==   \* mutated: the waiting listener is not woken
  free' = free + 1 /\ UNCHANGED listener

ReleaseSlot ==
  IF listener = "acquire" /\ ~stopped
    THEN listener' = "granted" /\ UNCHANGED free
    ELSE free' = free + 1 /\ UNCHANGED listener

(* @task and add_task() *)
RegisterTask(f) ==
  /\ Turn
  /\ f \notin available
  /\ available' = available \cup {f}
  /\ UNCHANGED <<queueVars, listenerVars, runnerVars, waiter, stopped>>

(* `await f.delay(...)`, or another producer's put *)
Submit(m) ==
  /\ Turn
  /\ m \notin sent
  /\ sent' = sent \cup {m}
  /\ queue' = Append(queue, m)
  /\ unfinished' = unfinished + 1
  /\ UNCHANGED <<available, listenerVars, runnerVars, waiter, stopped>>

-----------------------------------------------------------------------------
(* listen_tasks *)

(* One message off the queue, then the slot: the message is in hand before *)
(* the slot is asked for.                                                  *)
TakeLast ==                   \* mutated: the newest message first
  /\ ~stopped
  /\ listener \in {"get", "next"}
  /\ queue # <<>>
  /\ hand' = queue[Len(queue)]
  /\ queue' = SubSeq(queue, 1, Len(queue) - 1)
  /\ IF free > 0
       THEN free' = free - 1 /\ listener' = "holding"
       ELSE listener' = "acquire" /\ UNCHANGED free
  /\ UNCHANGED <<sent, unfinished, available, runnerVars, waiter, stopped>>

TakePutsBack ==               \* mutated: no slot, so the message stays queued too
  /\ ~stopped
  /\ listener \in {"get", "next"}
  /\ queue # <<>>
  /\ hand' = Head(queue)
  /\ IF free > 0
       THEN free' = free - 1 /\ listener' = "holding" /\ queue' = Tail(queue)
       ELSE listener' = "acquire" /\ UNCHANGED <<free, queue>>
  /\ UNCHANGED <<sent, unfinished, available, runnerVars, waiter, stopped>>

TakeMarksDone ==              \* mutated: task_done() as soon as the message is taken
  /\ ~stopped
  /\ listener \in {"get", "next"}
  /\ queue # <<>>
  /\ hand' = Head(queue)
  /\ queue' = Tail(queue)
  /\ unfinished' = unfinished - 1
  /\ IF free > 0
       THEN free' = free - 1 /\ listener' = "holding"
       ELSE listener' = "acquire" /\ UNCHANGED free
  /\ UNCHANGED <<sent, available, runnerVars, waiter, stopped>>

Take ==
  /\ ~stopped
  /\ listener \in {"get", "next"}
  /\ queue # <<>>
  /\ hand' = Head(queue)
  /\ queue' = Tail(queue)
  /\ IF free > 0
       THEN free' = free - 1 /\ listener' = "holding"
       ELSE listener' = "acquire" /\ UNCHANGED free
  /\ UNCHANGED <<sent, unfinished, available, runnerVars, waiter, stopped>>

HasSlot == listener = "holding" \/ (listener = "granted" /\ ~stopped)

Fetch == IF queue = <<>> THEN "get" ELSE "next"

IdAccepted(m) == Kind[m] \in {"task", "bad_args"}
Rejected(m) == \/ Kind[m] \in {"garbled", "bad_id"}
               \/ IdAccepted(m) /\ FnOf[m] \notin available
Crashes(m)  == \/ Kind[m] = "untyped_id"
               \/ Kind[m] = "bad_args" /\ FnOf[m] \in available
Accepted(m) == Kind[m] = "task" /\ FnOf[m] \in available

RejectKeepsSlot ==            \* mutated: no release() before `continue`
  /\ HasSlot
  /\ Rejected(hand)
  /\ hand' = NoMessage
  /\ listener' = Fetch
  /\ UNCHANGED <<queueVars, available, free, runnerVars, waiter, stopped>>

(* Logged and skipped: the slot goes back, task_done() is not called. *)
Reject ==
  /\ HasSlot
  /\ Rejected(hand)
  /\ free' = free + 1
  /\ hand' = NoMessage
  /\ listener' = Fetch
  /\ UNCHANGED <<queueVars, available, runnerVars, waiter, stopped>>

(* An exception no handler of listen_tasks catches ends the coroutine. *)
Crash ==
  /\ HasSlot
  /\ Crashes(hand)
  /\ hand' = NoMessage
  /\ listener' = "dead"
  /\ UNCHANGED <<queueVars, available, free, runnerVars, waiter, stopped>>

Launch ==
  /\ HasSlot
  /\ Accepted(hand)
  /\ running' = running \cup {hand}
  /\ phase' = [phase EXCEPT ![hand] = "scheduled"]
  /\ hand' = NoMessage
  /\ listener' = Fetch
  /\ UNCHANGED <<queueVars, available, free, attempts, metadata, waiter, stopped>>

-----------------------------------------------------------------------------
(* _function_runner *)

(* The first call of the function, or the next one once the wait is over. *)
Attempt(m) ==
  /\ Turn
  /\ phase[m] \in {"scheduled", "backoff"}
  /\ phase' = [phase EXCEPT ![m] = "executing"]
  /\ attempts' = [attempts EXCEPT ![m] = @ + 1]
  /\ UNCHANGED <<queueVars, available, listenerVars, running, metadata,
                 waiter, stopped>>

ExhaustedLate(m) == attempts[m] > MaxRetries   \* mutated: one attempt too many

(* stop_after_attempt: the attempts made so far use up the allowance. *)
Exhausted(m) == attempts[m] >= MaxRetries

(* The function returns: _task_ack *)
Ack(m) ==
  /\ Turn
  /\ phase[m] = "executing"
  /\ phase' = [phase EXCEPT ![m] = "acked"]
  /\ metadata' = [metadata EXCEPT ![m] = "ack"]
  /\ UNCHANGED <<queueVars, available, listenerVars, running, attempts,
                 waiter, stopped>>

(* The function raises and will be called again; the slot is kept. *)
Backoff(m) ==
  /\ Turn
  /\ phase[m] = "executing"
  /\ ~Exhausted(m)
  /\ phase' = [phase EXCEPT ![m] = "backoff"]
  /\ UNCHANGED <<queueVars, available, listenerVars, running, attempts,
                 metadata, waiter, stopped>>

(* The function raises for the last time: _task_nack *)
Nack(m) ==
  /\ Turn
  /\ phase[m] = "executing"
  /\ Exhausted(m)
  /\ phase' = [phase EXCEPT ![m] = "nacked"]
  /\ metadata' = [metadata EXCEPT ![m] = "nack"]
  /\ UNCHANGED <<queueVars, available, listenerVars, running, attempts,
                 waiter, stopped>>

(* CancelledError, which is no Exception, passes by the retry and by both  *)
(* handlers: thrown by stop() at any await, or raised by the function.     *)
Cancelled(m) ==
  /\ LoopFree
  /\ phase[m] = "executing" \/ (stopped /\ phase[m] \in Live)
  /\ phase' = [phase EXCEPT ![m] = "cancelled"]
  /\ UNCHANGED <<queueVars, available, listenerVars, running, attempts,
                 metadata, waiter, stopped>>

TaskDoneTwice(m) ==           \* mutated: the queue hears of the end twice
  /\ LoopFree
  /\ m \in running
  /\ phase[m] \in Ended
  /\ running' = running \ {m}
  /\ ReleaseSlot
  /\ unfinished' = unfinished - 2
  /\ UNCHANGED <<sent, queue, available, hand, phase, attempts, metadata,
                 waiter, stopped>>

(* _make_tasks_done_delay and custom_task_done, some time after the end *)
TaskDone(m) ==
  /\ LoopFree
  /\ m \in running
  /\ phase[m] \in Ended
  /\ running' = running \ {m}
  /\ ReleaseSlot
  /\ unfinished' = unfinished - 1
  /\ UNCHANGED <<sent, queue, available, hand, phase, attempts, metadata,
                 waiter, stopped>>

(* cleanup_old_tasks: the records older than the TTL go. *)
CleanupOldTasks ==
  /\ Turn
  /\ \E old \in SUBSET {m \in Messages : metadata[m] # "none"} \ {{}} :
       metadata' = [m \in Messages |-> IF m \in old THEN "none" ELSE metadata[m]]
  /\ UNCHANGED <<queueVars, available, listenerVars, running, phase, attempts,
                 waiter, stopped>>

-----------------------------------------------------------------------------
(* wait() and stop() *)

PendingInQueue    == queue # <<>>          \* mutated: running tasks do not count
PendingUnfinished == unfinished # 0        \* mutated: counts what is not task_done()

HasPendingTasks == queue # <<>> \/ running # {}

BeginWait ==
  /\ Turn
  /\ waiter \in {"idle", "finished", "timed_out"}
  /\ waiter' = "waiting"
  /\ UNCHANGED <<queueVars, available, listenerVars, runnerVars, stopped>>

(* A poll of wait() that ends it; topics is what has_pending_topics() says. *)
WaitFinishes(topics) ==
  /\ Turn
  /\ waiter = "waiting"
  /\ ~HasPendingTasks /\ ~topics
  /\ ExitOnFinish
  /\ waiter' = "finished"
  /\ UNCHANGED <<queueVars, available, listenerVars, runnerVars, stopped>>

WaitTimesOut(topics) ==
  /\ Turn
  /\ waiter = "waiting"
  /\ HasPendingTasks \/ topics \/ ~ExitOnFinish
  /\ HasTimeout
  /\ waiter' = "timed_out"
  /\ UNCHANGED <<queueVars, available, listenerVars, runnerVars, stopped>>

Poll == \E topics \in BOOLEAN : WaitFinishes(topics) \/ WaitTimesOut(topics)

(* stop() asks every task of the loop to cancel; each hears of it later. *)
Stop ==
  /\ Turn
  /\ stopped' = TRUE
  /\ waiter' = IF waiter = "waiting" THEN "cancelled" ELSE waiter
  /\ UNCHANGED <<queueVars, available, listenerVars, runnerVars>>

ListenerCancelledKeepsSlot == \* mutated: a slot handed over is not returned
  /\ stopped
  /\ listener \in {"get", "acquire", "granted"}
  /\ listener' = "cancelled"
  /\ hand' = NoMessage
  /\ UNCHANGED <<queueVars, available, free, runnerVars, waiter, stopped>>

(* CancelledError inside get() or acquire(); acquire() returns a slot that *)
(* was handed over in between.                                             *)
ListenerCancelled ==
  /\ stopped
  /\ listener \in {"get", "acquire", "granted"}
  /\ free' = IF listener = "granted" THEN free + 1 ELSE free
  /\ listener' = "cancelled"
  /\ hand' = NoMessage
  /\ UNCHANGED <<queueVars, available, runnerVars, waiter, stopped>>

-----------------------------------------------------------------------------
Listen == Take \/ Reject \/ Crash \/ Launch

Runner(m) ==
  \/ Attempt(m)
  \/ Ack(m)
  \/ Backoff(m)
  \/ Nack(m)
  \/ TaskDone(m)

Next ==
  \/ Take
  \/ Reject
  \/ Crash
  \/ Launch
  \/ \E f \in Functions : RegisterTask(f)
  \/ \E m \in Messages : Submit(m) \/ Runner(m) \/ Cancelled(m)
  \/ CleanupOldTasks
  \/ BeginWait
  \/ Poll
  \/ Stop
  \/ ListenerCancelled

Spec == Init /\ [][Next]_vars

(* asyncio runs every ready callback in its turn, and a task function is   *)
(* assumed to return or raise; nothing makes a producer submit or stop().  *)
(* A wait() that finds no task pending time after time is assumed to find  *)
(* no topic pending at one of these polls: TopicBus says when that fails.  *)
Fairness ==
  /\ WF_vars(Listen)
  /\ \A m \in Messages : WF_vars(Runner(m))
  /\ \A m \in Messages : WF_vars(stopped /\ Cancelled(m))
  /\ WF_vars(WaitFinishes(FALSE))
  /\ WF_vars(ListenerCancelled)

FairSpec == Spec /\ Fairness

-----------------------------------------------------------------------------
(* Properties *)

InQueue == {queue[i] : i \in 1..Len(queue)}

(* Slots of the semaphore the listener has: a listener that died while     *)
(* dispatching took its slot with it.                                      *)
ListenerSlots == IF listener \in {"holding", "granted", "dead"} THEN 1 ELSE 0

(* Every slot of task_concurrency_sem is free, or with a runner that the   *)
(* done callback has not seen, or with the listener: none is lost on the   *)
(* early exits of listen_tasks and none is released twice, so release()    *)
(* never raises ValueError and at most Concurrency runners exist.          *)
SlotsConserved == free + Cardinality(running) + ListenerSlots = Concurrency

(* The listener is suspended in acquire() only while no slot is free: a    *)
(* slot released by a done callback is never left beside a sleeping        *)
(* listener.                                                               *)
NoLostWakeup == listener = "acquire" /\ ~stopped => free = 0

(* A message is on the queue once, or in the hand of the listener, or with *)
(* a runner, and never in two of these places: memory.py's "only ONE       *)
(* worker gets each task".                                                 *)
OnePlace ==
  /\ \A i, j \in 1..Len(queue) : queue[i] = queue[j] => i = j
  /\ hand \notin InQueue \cup running
  /\ InQueue \cap running = {}

(* task_done() is still owed for every message queued, in hand or running, *)
(* so custom_task_done never raises "task_done() called too many times"    *)
(* inside the done callback.                                               *)
TaskDoneOwed ==
  unfinished >= Len(queue) + Cardinality(running)
                  + (IF hand = NoMessage THEN 0 ELSE 1)

(* max_retries bounds the calls of the function, the first included, of    *)
(* which there is always one (bases.py:520; test_retry_ack_nack.py:56): a  *)
(* task is nacked after exactly that many and waits for a retry only with  *)
(* an attempt left, and the recorded verdict is that of the run.  The docs *)
(* count otherwise: with max_retries=5 configuration.md:92-101 has a 5th   *)
(* retry, which would be a 6th call.                                       *)
Allowance == IF MaxRetries = 0 THEN 1 ELSE MaxRetries
RetryDiscipline ==
  \A m \in Messages :
    /\ attempts[m] <= Allowance
    /\ phase[m] = "backoff" => attempts[m] \in 1..(MaxRetries - 1)
    /\ phase[m] = "nacked" => attempts[m] = Allowance
    /\ phase[m] = "acked" => attempts[m] >= 1
    /\ metadata[m] = "ack" => phase[m] = "acked"
    /\ metadata[m] = "nack" => phase[m] = "nacked"

(* The runner of the message is over, or the message was dropped. *)
Settled(m) ==
  \/ phase[m] \in Ended
  \/ m \in sent \ (InQueue \cup running \cup {hand})

(* wait(exit_on_finish=True) returns only when every submitted task is     *)
(* settled, but for one: a message in the hand of a listener that was      *)
(* handed its slot and has not run yet.                                    *)
WaitMissesOnlyHand ==
  [][waiter = "waiting" /\ waiter' = "finished" =>
       \A m \in sent : Settled(m) \/ (m = hand /\ listener = "granted")]_vars

(* As the docstring of wait() has it: it exits when all pending tasks are  *)
(* finished.                                                               *)
WaitExitsWhenFinished ==
  [][waiter = "waiting" /\ waiter' = "finished" => \A m \in sent : Settled(m)]_vars

(* The listener runs continuously: whatever is submitted is run to its end *)
(* or dropped, unless stop() comes first.                                  *)
EveryTaskSettles ==
  \A m \in Messages : m \in sent ~> Settled(m) \/ stopped

(* After stop() every runner ends and hands in its slot, and so does the   *)
(* listener, with the slot it may just have been given.                    *)
StopReturnsSlots ==
  stopped ~> [](running = {} /\ free + ListenerSlots = Concurrency
                 /\ listener \in {"cancelled", "dead"})

(* A call of wait() that asks to exit on finish does return, although the  *)
(* messages that were dropped never get their task_done().                 *)
WaitReturns == waiter = "waiting" ~> waiter # "waiting"

(* The worker implements the line of tasks its callers see. *)
Queued == (IF hand = NoMessage THEN <<>> ELSE <<hand>>) \o queue
Result(m) ==
  CASE phase[m] = "acked"     -> "acked"
    [] phase[m] = "nacked"    -> "nacked"
    [] phase[m] = "cancelled" -> "abandoned"
    [] OTHER -> IF Settled(m) THEN "discarded" ELSE "none"

Abstract == INSTANCE TaskQueue WITH
  waiting <- Queued,
  running <- {m \in running : phase[m] \in Live},
  outcome <- [m \in Messages |-> Result(m)]

(* First in, first started; at most Concurrency running; one outcome for   *)
(* each task, which never changes.                                         *)
ImplementsTaskQueue == Abstract!Spec
=============================================================================
