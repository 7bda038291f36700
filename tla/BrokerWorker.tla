---------------------------- MODULE BrokerWorker ----------------------------
(***************************************************************************)
(* Delayed tasks over Redis, RabbitMQ (AMQP) and ZeroMQ: how a message     *)
(* leaves the broker, how a task's verdict gets back to it, and what       *)
(* clean-up, stop() and the death of the worker's process do in between.   *)
(*                                                                         *)
(* pending_tasks is an async generator on these backends, so               *)
(* listen_tasks, which awaits it, dies at its first step (Listen).  What   *)
(* is modelled is a program that iterates pending_tasks itself, as the     *)
(* property's type says, and hands each task it can read to                *)
(* _function_runner.                                                       *)
(***************************************************************************)
EXTENDS MessageFormat, Naturals, FiniteSets

CONSTANTS
  Backends,   \* the backends to consider, out of AllBackends
  Tasks,      \* submissions, each with its own id
  Prefetch,   \* task_concurrency, AMQP's prefetch_count (0 is no limit)
  MaxFaults,  \* calls of the broker that fail
  MaxLives,   \* times the worker's process is started
  Fn,         \* the function of every task
  Requests    \* what may be asked: the argument list of each task

AllBackends == {"redis", "amqp", "zmq"}

ASSUME ConstantsOK ==
  /\ Backends \subseteq AllBackends
  /\ IsFiniteSet(Tasks)
  /\ Prefetch \in Nat
  /\ MaxFaults \in Nat
  /\ \A t \in Tasks : t # None /\ \A a \in Requests : a[t] # None

Origins == {"native", "compat", "msgpack_celery"}

VARIABLES
  backend,
  mixed,     \* AMQP: the manager is an AMQPBackend, see TaskHalfConnects
  args,      \* the arguments each task was asked with
  message,   \* the message of each task on the wire
  sent,      \* history: tasks whose message has reached the broker
  queue,     \* tasks at the broker, for ZeroMQ at the PUSH socket
  inbox,     \* delivered to the worker's socket, not yet taken by the generator
  reader,    \* where the generator is
  unacked,   \* AMQP: delivered and not settled, as the broker sees it
  held,      \* _current_messages: the handles the worker holds
  stage,     \* where the runner of each task is
  ran,       \* history: runners begun, as <<task, function, arguments>>
  starts,    \* history: how often each task got a runner
  ended,     \* history: tasks whose function returned, or failed for good
  acked,     \* AMQP: acknowledged; Redis: the ack key exists
  nacked,    \* AMQP: rejected; Redis: the nack key exists
  listener,  \* manager.run(): "off", "created", "dead"
  lives,     \* how often the process was started
  faults     \* how many calls of the broker have failed

vars == <<backend, mixed, args, message, sent, queue, inbox, reader, unacked, held, stage, ran,
          starts, ended, acked, nacked, listener, lives, faults>>

atBroker == <<queue, unacked>>
verdicts == <<acked, nacked>>
history  == <<ran, starts, ended>>
world    == <<backend, mixed, args, message, sent, listener, lives, faults>>

(* "dialing" awaits connect_robust and what follows, "reading" the next    *)
(* message, "rejecting" the rejection of one it cannot read; it may be     *)
(* "exhausted" by itself, and is "gone" when it was cancelled.             *)
ReaderStates == {"off", "dialing", "reading", "rejecting", "exhausted", "gone"}

(* "acking"/"nacking" awaits the verdict's first call, "tidying" the       *)
(* delete behind it, "tidying_nack" the same after a nack.                 *)
Stages == {"none", "running", "acking", "nacking", "tidying", "tidying_nack",
           "over"}

TypeOK ==
  /\ backend \in Backends
  /\ mixed \in BOOLEAN
  /\ args \in Requests
  /\ DOMAIN message = Tasks
  /\ sent \subseteq Tasks
  /\ queue \subseteq Tasks
  /\ inbox \subseteq Tasks
  /\ reader \in ReaderStates
  /\ unacked \subseteq Tasks
  /\ held \subseteq Tasks
  /\ stage \in [Tasks -> Stages]
  /\ starts \in [Tasks -> Nat]
  /\ ended \subseteq Tasks \X {"returned", "failed"}
  /\ acked \subseteq Tasks
  /\ nacked \subseteq Tasks
  /\ listener \in {"off", "created", "dead"}
  /\ lives \in 1..MaxLives
  /\ faults \in 0..MaxFaults

-----------------------------------------------------------------------------
Redis == backend = "redis"
AMQP  == backend = "amqp"

(* A task as its submitter meant it; what carries it depends on who sends  *)
(* it: a manager without or with celery_compat, or another program that    *)
(* calls encode_celery_task with the msgpack serializer.                   *)
MessageFrom(origin, t, list) ==
  IF origin = "msgpack_celery" THEN EncodeCelery(Fn, list, t, "msgpack")
  ELSE BuildDelayMessage(origin = "compat", t, Fn, list)

Init ==
  /\ backend \in Backends
  /\ mixed \in IF AMQP THEN BOOLEAN ELSE {TRUE}
  /\ args \in Requests
  /\ \E origin \in [Tasks -> Origins] :
       message = [t \in Tasks |-> MessageFrom(origin[t], t, args[t])]
  /\ sent = {}
  /\ queue = {}
  /\ inbox = {}
  /\ reader = "off"
  /\ unacked = {}
  /\ held = {}
  /\ stage = [t \in Tasks |-> "none"]
  /\ ran = {}
  /\ starts = [t \in Tasks |-> 0]
  /\ ended = {}
  /\ acked = {}
  /\ nacked = {}
  /\ listener = "off"
  /\ lives = 1
  /\ faults = 0

(* The await of .delay() is one LPUSH over Redis.  Over AMQP and ZeroMQ it *)
(* raises TypeError, as __await__ is a coroutine function there: the queue *)
(* is filled by other programs, or with the manager's own `poller`.  What  *)
(* cannot be encoded raises before anything is sent.                       *)
Send(t) ==
  /\ t \notin sent
  /\ message[t] # None
  /\ sent' = sent \cup {t}
  /\ queue' = queue \cup {t}
  /\ UNCHANGED <<backend, mixed, args, message, inbox, reader, unacked, held, stage, lives,
                 listener, faults, verdicts, history>>

(* manager.run() schedules listen_tasks, whose first step awaits an async  *)
(* generator: TypeError, before anything was taken.  A second run()        *)
(* schedules another, which ends no better.                                *)
Run ==
  /\ listener # "created"
  /\ listener' = "created"
  /\ UNCHANGED <<backend, mixed, args, message, sent, inbox, reader, held, stage, lives, faults,
                 atBroker, verdicts, history>>

Listen ==
  /\ listener = "created"
  /\ listener' = "dead"
  /\ UNCHANGED <<backend, mixed, args, message, sent, inbox, reader, held, stage, lives, faults,
                 atBroker, verdicts, history>>

-----------------------------------------------------------------------------
(* The first step of the generator.  Only AMQP connects here. *)
Iterate ==
  /\ reader = "off"
  /\ reader' = IF AMQP THEN "dialing" ELSE "reading"
  /\ UNCHANGED <<inbox, held, stage, world, atBroker, verdicts, history>>

(* AMQPBackend inherits _ensure_connection from both halves, of which the  *)
(* subscriber's comes first.                                               *)
TaskHalfConnects == ~mixed

(* _ensure_connection: connection, channel, prefetch and queue.  The       *)
(* subscriber's declares no task queue: the generator ends, or reads the   *)
(* subscriber's own queue, which carries no task.                          *)
EnsureConnection ==
  /\ reader = "dialing"
  /\ reader' = IF TaskHalfConnects THEN "reading" ELSE "exhausted"
  /\ UNCHANGED <<inbox, held, stage, world, atBroker, verdicts, history>>

PopLeaving(t) ==              \* mutated: the element is read and not removed
  /\ Redis
  /\ reader = "reading" /\ inbox = {} /\ t \in queue
  /\ inbox' = {t}
  /\ UNCHANGED <<reader, held, stage, world, atBroker, verdicts, history>>

(* BRPOP: the server removes the element, its reply is on the way. *)
Pop(t) ==
  /\ Redis
  /\ reader = "reading" /\ inbox = {} /\ t \in queue
  /\ queue' = queue \ {t}
  /\ inbox' = {t}
  /\ UNCHANGED <<reader, unacked, held, stage, world, verdicts, history>>

DeliverByHandles(t) ==        \* mutated: the handles kept are what is counted
  /\ AMQP
  /\ reader \in {"reading", "rejecting"}
  /\ t \in queue
  /\ Prefetch = 0 \/ Cardinality(held \cup inbox) < Prefetch
  /\ queue' = queue \ {t}
  /\ unacked' = unacked \cup {t}
  /\ inbox' = inbox \cup {t}
  /\ UNCHANGED <<reader, held, stage, world, verdicts, history>>

(* The broker delivers to a consumer up to its prefetch count; a count of  *)
(* 0 is no limit.                                                          *)
Deliver(t) ==
  /\ AMQP
  /\ reader \in {"reading", "rejecting"}
  /\ t \in queue
  /\ Prefetch = 0 \/ Cardinality(unacked) < Prefetch
  /\ queue' = queue \ {t}
  /\ unacked' = unacked \cup {t}
  /\ inbox' = inbox \cup {t}
  /\ UNCHANGED <<reader, held, stage, world, verdicts, history>>

(* PUSH hands a message to a connected PULL socket, whoever reads it when. *)
Push(t) ==
  /\ backend = "zmq"
  /\ reader # "gone"
  /\ t \in queue
  /\ queue' = queue \ {t}
  /\ inbox' = inbox \cup {t}
  /\ UNCHANGED <<reader, unacked, held, stage, world, verdicts, history>>

(* The program hands the function the message names, with its arguments,   *)
(* to a _function_runner of its own.                                       *)
Begin(t) ==
  LET call == DeserializeTask(message[t]) IN
    /\ stage' = [stage EXCEPT ![t] = "running"]
    /\ starts' = [starts EXCEPT ![t] = @ + 1]
    /\ ran' = ran \cup {<<t, call.function, call.args>>}

(* A message is readable if it names a function and an id. *)
Readable(t) ==
  LET call == DeserializeTask(message[t]) IN
    call # None /\ call.function = Fn /\ call.task_id = t

(* The generator yields what it received ... *)
Take(t) ==
  /\ ~AMQP
  /\ reader = "reading"
  /\ t \in inbox
  /\ inbox' = inbox \ {t}
  /\ IF Readable(t) THEN Begin(t) ELSE UNCHANGED <<stage, ran, starts>>
  /\ UNCHANGED <<reader, held, ended, world, atBroker, verdicts>>

(* ... over AMQP after it has kept the handle under the task's id ... *)
TakeHandle(t) ==
  /\ AMQP
  /\ reader = "reading"
  /\ t \in inbox
  /\ AMQPReads(message[t])
  /\ inbox' = inbox \ {t}
  /\ held' = IF AMQPTaskId(message[t]) = None THEN held ELSE held \cup {t}
  /\ IF Readable(t) THEN Begin(t) ELSE UNCHANGED <<stage, ran, starts>>
  /\ UNCHANGED <<reader, ended, world, atBroker, verdicts>>

(* ... or rejected what msgpack cannot read, Celery's JSON for one. *)
TakeRejecting(t) ==
  /\ AMQP
  /\ reader = "reading"
  /\ t \in inbox
  /\ ~AMQPReads(message[t])
  /\ inbox' = inbox \ {t}
  /\ reader' = "rejecting"
  /\ unacked' = unacked \ {t}
  /\ nacked' = nacked \cup {t}
  /\ UNCHANGED <<queue, held, stage, acked, world, history>>

RejectDone ==
  /\ reader = "rejecting"
  /\ reader' = "reading"
  /\ UNCHANGED <<inbox, held, stage, world, atBroker, verdicts, history>>

-----------------------------------------------------------------------------
(* The function returned, or failed as often as it may: the runner calls   *)
(* _task_ack or _task_nack.  Over AMQP the handle is looked up and dropped *)
(* first, and without one there is nothing to send; ZeroMQ has no verdict. *)
Conclude(t, how) ==
  /\ stage[t] = "running"
  /\ ended' = ended \cup {<<t, how>>}
  /\ stage' = [stage EXCEPT ![t] =
                 IF backend = "zmq" \/ (AMQP /\ t \notin held) THEN "over"
                 ELSE IF how = "returned" THEN "acking" ELSE "nacking"]
  /\ held' = held \ {t}
  /\ UNCHANGED <<inbox, reader, ran, starts, world, atBroker, verdicts>>

AckAMQP(t) ==
  /\ AMQP
  /\ stage[t] = "acking"
  /\ acked' = acked \cup {t}
  /\ unacked' = unacked \ {t}
  /\ stage' = [stage EXCEPT ![t] = "over"]
  /\ UNCHANGED <<queue, inbox, reader, held, nacked, world, history>>

NackAMQPRequeues(t) ==        \* mutated: reject(requeue=True)
  /\ AMQP
  /\ stage[t] = "nacking"
  /\ nacked' = nacked \cup {t}
  /\ unacked' = unacked \ {t}
  /\ queue' = queue \cup {t}
  /\ stage' = [stage EXCEPT ![t] = "over"]
  /\ UNCHANGED <<inbox, reader, held, acked, world, history>>

NackAMQP(t) ==
  /\ AMQP
  /\ stage[t] = "nacking"
  /\ nacked' = nacked \cup {t}
  /\ unacked' = unacked \ {t}
  /\ stage' = [stage EXCEPT ![t] = "over"]
  /\ UNCHANGED <<queue, inbox, reader, held, acked, world, history>>

(* SETEX of the verdict's key, then DELETE of the processing key. *)
AckRedis(t) ==
  /\ Redis
  /\ stage[t] = "acking"
  /\ acked' = acked \cup {t}
  /\ stage' = [stage EXCEPT ![t] = "tidying"]
  /\ UNCHANGED <<inbox, reader, held, nacked, world, atBroker, history>>

NackRedis(t) ==
  /\ Redis
  /\ stage[t] = "nacking"
  /\ nacked' = nacked \cup {t}
  /\ stage' = [stage EXCEPT ![t] = "tidying_nack"]
  /\ UNCHANGED <<inbox, reader, held, acked, world, atBroker, history>>

Tidied(t) ==
  /\ stage[t] \in {"tidying", "tidying_nack"}
  /\ stage' = [stage EXCEPT ![t] = "over"]
  /\ UNCHANGED <<inbox, reader, held, world, atBroker, verdicts, history>>

VerdictFailsAcking(t) ==      \* mutated: the failed nack is tried again as an ack
  /\ faults < MaxFaults
  /\ stage[t] \in {"acking", "nacking", "tidying", "tidying_nack"}
  /\ faults' = faults + 1
  /\ stage' = [stage EXCEPT ![t] =
                 IF stage[t] \in {"acking", "tidying"} THEN "over" ELSE "acking"]
  /\ UNCHANGED <<backend, mixed, args, message, sent, listener, lives, inbox, reader, held,
                 atBroker, verdicts, history>>

(* A call of the broker fails.  An ack is awaited inside the runner's try, *)
(* so its failure is taken for the task's and a nack follows, for which    *)
(* AMQP has no handle any more; the failure of a nack ends the runner.     *)
VerdictFails(t) ==
  /\ faults < MaxFaults
  /\ stage[t] \in {"acking", "nacking", "tidying", "tidying_nack"}
  /\ faults' = faults + 1
  /\ stage' = [stage EXCEPT ![t] =
                 IF Redis /\ stage[t] \in {"acking", "tidying"} THEN "nacking"
                                                                ELSE "over"]
  /\ UNCHANGED <<backend, mixed, args, message, sent, listener, lives, inbox, reader, held,
                 atBroker, verdicts, history>>

(* cleanup_old_tasks over AMQP forgets every handle, those of running      *)
(* tasks too.  Over Redis it deletes processing keys, which nothing        *)
(* writes; over ZeroMQ it does nothing.                                    *)
CleanupOldTasks ==
  /\ AMQP
  /\ held # {}
  /\ held' = {}
  /\ UNCHANGED <<inbox, reader, stage, world, atBroker, verdicts, history>>

-----------------------------------------------------------------------------
(* stop(): every task of the loop is cancelled.  Runners get no verdict.   *)
(* Over Redis and AMQP the tasks that would close the connections are      *)
(* cancelled with the others, so RabbitMQ keeps what was delivered, and a  *)
(* program that has not begun to iterate still can; the sockets of ZeroMQ  *)
(* are closed, with what is in them.                                       *)
StopDelayers ==
  /\ reader' = IF reader = "off" /\ backend # "zmq" THEN "off" ELSE "gone"
  /\ listener' = IF listener = "created" THEN "dead" ELSE listener
  /\ inbox' = {}
  /\ queue' = IF backend = "zmq" THEN {} ELSE queue
  /\ stage' = [t \in Tasks |-> IF stage[t] = "none" THEN "none" ELSE "over"]
  /\ UNCHANGED <<backend, mixed, args, message, sent, unacked, held, lives, faults,
                 verdicts, history>>

(* What is at the broker once the process is gone: RabbitMQ queues the     *)
(* unsettled messages again; the PUSH socket was the worker's.             *)
Requeued == IF backend = "zmq" THEN {} ELSE queue \cup unacked

(* The process has died, or ended, and is started again. *)
Restart ==
  /\ lives < MaxLives
  /\ lives' = lives + 1
  /\ reader' = "off"
  /\ listener' = "off"
  /\ inbox' = {}
  /\ held' = {}
  /\ queue' = Requeued
  /\ unacked' = {}
  /\ stage' = [t \in Tasks |-> "none"]
  /\ UNCHANGED <<backend, mixed, args, message, sent, faults, verdicts, history>>

(* What the broker or the sockets do by themselves, ... *)
Transport(t) == Pop(t) \/ Deliver(t) \/ Push(t)

(* ... and what the worker's loop does. *)
Work(t) ==
  \/ Take(t) \/ TakeHandle(t) \/ TakeRejecting(t)
  \/ \E how \in {"returned", "failed"} : Conclude(t, how)
  \/ AckAMQP(t) \/ NackAMQP(t) \/ AckRedis(t) \/ NackRedis(t)
  \/ Tidied(t) \/ VerdictFails(t)

LoopStep ==
  \/ \E t \in Tasks : Work(t)
  \/ Listen \/ Iterate \/ EnsureConnection \/ RejectDone \/ CleanupOldTasks

-----------------------------------------------------------------------------
Running == {t \in Tasks : stage[t] = "running"}

(* The call a sender meant: its arguments are what the codec of the        *)
(* message makes of them.                                                  *)
Call(t) == <<t, Fn, CarriedArgs(message[t].codec, args[t])>>

(* Over Redis and ZeroMQ a task is begun at most once, whatever dies when: *)
(* the message has left the broker before the task begins ("each task is   *)
(* received by exactly ONE worker", zmq.py:282).                           *)
BegunAtMostOnce == ~AMQP => \A t \in Tasks : starts[t] <= 1

(* A verdict is true: an acknowledged task has returned, with the function *)
(* and the arguments it was sent with; a rejected one has failed, could not *)
(* be read, or the broker refused an earlier call.  Over AMQP there is one *)
(* verdict, and a message is at the broker exactly until it is there: none *)
(* is lost, and none comes back (_task_ack, _task_nack of redis.py and     *)
(* amqp.py).                                                               *)
VerdictIsTrue ==
  /\ \A t \in acked : /\ <<t, "returned">> \in ended
                      /\ Call(t) \in ran
  /\ \A t \in nacked : \/ <<t, "failed">> \in ended
                       \/ AMQP /\ ~AMQPReads(message[t])
                       \/ Redis /\ faults > 0
  /\ AMQP => /\ acked \cap nacked = {}
             /\ queue \cup unacked = sent \ (acked \cup nacked)

(* Without the semaphore of listen_tasks, the prefetch count is what       *)
(* bounds the tasks that run at once over AMQP, also when clean-up has     *)
(* forgotten their messages (amqp.py:240, 378).                            *)
WithinPrefetch == AMQP /\ Prefetch # 0 => Cardinality(Running) <= Prefetch

(* Over AMQP a task with a verdict keeps it and is not begun again, by any *)
(* life of the process: RabbitMQ has let go of the message, so that it is  *)
(* neither delivered nor settled a second time (_task_ack, _task_nack).    *)
SettledIsOver ==
  [][AMQP => \A t \in acked \cup nacked :
               /\ starts'[t] = starts[t]
               /\ t \in acked' <=> t \in acked
               /\ t \in nacked' <=> t \in nacked]_vars
=============================================================================
