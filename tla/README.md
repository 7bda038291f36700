# Verification of aiotasks

TLA+ models of [aiotasks](https://github.com/cr0hn/aiotasks), an asyncio task
queue with publish/subscribe, checked with TLC and proved with TLAPS. Paths
below are relative to the repository.

## 1. The system

| component | state it keeps | operations | talks to |
|---|---|---|---|
| Worker for delayed tasks (`tasks/bases.py` `AsyncTaskDelayBase`, `tasks/memory.py`) | `_task_queue`, `task_available_tasks`, `task_concurrency_sem`, `task_running_tasks`, `_task_metadata` | `task`/`add_task`, `.delay()`, `listen_tasks`, `_function_runner`, `_make_tasks_done_delay`, `_task_ack`/`_task_nack`, `cleanup_old_tasks`, `wait`, `stop` | producers through the queue, task functions as asyncio tasks, done callbacks |
| Publish/subscribe (`AsyncTaskSubscribeBase` and one subclass per transport) | `topics_subscribers`, `running_tasks`, `subscriber_ready`, the channel at the transport | `subscribe`, `run`, `listen_topics`, `register_topics`, `publish`, `stop_subscriptions` | other managers through the broker, handlers as asyncio tasks |
| Delayed tasks over a broker (`tasks/redis.py`, `tasks/amqp.py`, `tasks/zmq.py`) | ack/nack/processing keys, `_current_messages`, connections | ack, nack, clean-up, connect | Redis, RabbitMQ |
| Dead letter queue (`dlq.py`) | entries by task id | add, remove, list, clear, retry, retry all | the worker, through `.delay()` |
| Rate limiters (`rate_limit.py`) | token bucket and lock per key; sorted set in Redis | acquire, wait_for_slot, reset | callers of a limited task, Redis |
| Periodic scheduler (`periodic.py`) | table of tasks, `_running`, its loop | add, remove, start, stop, `_run_scheduler` | the worker, through `.delay()` |
| Result backends (`result_backend.py`) | results by id, the cleanup task | store, get, delete, wait_for_result, expiry | pollers |
| Message formats (`tasks/context.py`, `celery_compat.py`) | none | build, encode, detect, decode | producers and workers, of this program or Celery's |
| Process (`tasks/backends.py`, `app.py`, `integrations/fastapi.py`, `actions/worker`) | the manager, its executor and connections | build, run, wait, stop | the components above |
| Metrics, dashboard | next to none | | the components above |

Everything in one process runs on one asyncio loop.  There is no preemption: the
hard behaviours come from what the loop runs between two awaits of a coroutine
(the listener that has taken a message and waits for a slot; the poller `wait()`;
done callbacks; `stop()` that cancels everything), from transports with their
own notion of who is listening, and from check-then-act sequences over a remote
store.

What makes each component correct:

* worker: every task submitted is run in order, with at most `concurrency` at a
  time and at most `max_retries` calls, or visibly dropped; no slot is lost on
  any path; `wait()` and `stop()` tell the truth;
* publish/subscribe: a subscriber sees everything published after it joined,
  once, in order, and so does every function subscribed, as long as nothing
  breaks the listener;
* broker worker: a verdict that is recorded is true; over AMQP a crash loses no
  task, over Redis and ZeroMQ none is run twice;
* dead letter queue: a failure is kept until it was queued again, and queued
  again once; the bound holds;
* rate limiters: the bucket never gives more than its rate; the window on Redis
  exceeds its limit by a bounded number only; nobody is refused without cause;
* scheduler: one run per due time, across edits, stop and restart;
* results: a stored result is found until it expires, and then goes.

The hazards that follow from this, each at its line, are the `hazards` of
`PROJECT.json`, with the properties that cover them.

## 2. Modules

| module | what it is |
|---|---|
| `TaskQueue` | abstract: tasks wait in a line, start from its front, at most `Concurrency` at a time, and get one final outcome |
| `TaskWorker` | the memory worker, one action per stretch of code between two suspension points |
| `TaskWorkerProofs` | its inductive invariant and theorems; the proof that it implements `TaskQueue` |
| `TopicLog` | abstract: the messages of a bus form a log that each subscriber reads from where it joined |
| `TopicBus` | publish, subscribe and `listen_topics` over memory, Redis, AMQP or ZeroMQ |
| `TopicBusProofs` | its inductive invariant, and the proof that it implements `TopicLog` |
| `MessageFormat` | the native and the Celery format of a task, and what each reader makes of each; no state |
| `BrokerWorker` | delayed tasks over Redis, AMQP or ZeroMQ: delivery, generator, runner, verdict, clean-up, restart |
| `WorkerProcess` | extends `BrokerWorker` by the process: who builds the manager, runs it and stops it |
| `WorkerProcessProofs` | the formats, the inductive invariant of both, and theorems |
| `DeadLetterQueue` | both dead letter queues, with retries over any broker |
| `DeadLetterQueueProofs` | its inductive invariant and theorems |
| `TokenBucket` | the memory rate limiter: one key, its bucket, callers that ask or wait |
| `SlidingWindow`, `SlidingWindowProofs` | the limiter on Redis: one sorted set, callers in any number of processes |
| `RateLimiter`, `RateLimiterProofs` | composes the two behind a rate-limited task; the bucket's inductive invariant, and what holds of either holds of the composition |
| `PeriodicScheduler`, `PeriodicSchedulerProofs` | the table, the loop, start, stop and edits; its inductive invariant and theorems |
| `ResultStore`, `ResultStoreProofs` | results in memory or Redis, the cleaner, and calls that poll; its inductive invariant and theorems |
| `MC...` | instances for TLC |

### TaskWorker

`queue` and `unfinished` are the `asyncio.Queue` with its count for
`task_done()`; `free` is the value of the `BoundedSemaphore`; `listener` and
`hand` say where `listen_tasks` is suspended and what it holds in `raw_data`;
`running`, `phase` and `attempts` follow each `_function_runner`; `metadata` is
the record of ack or nack; `waiter` is a call of `wait()`.  The topics that
`wait()` also asks for are of the other half of the manager: each poll finds some
pending or none.

`listen_tasks` keeps the loop as long as `get()` and `acquire()` do not suspend
(`listener` is then "holding" or "next", and `LoopFree` bars everybody else), so
a burst of messages is taken in one go, as in asyncio.  It suspends in "get" and
in "acquire".  `release()` with a listener asleep in `acquire()` hands the slot
over without raising the value, and the listener is "granted" until the loop
gets to it (Python 3.12, the minimum of `pyproject.toml`).

A message has a *kind*: what matters of its bytes is whether it decodes, whether
its id is a UUID, no UUID, or of a type `uuid.UUID` raises `TypeError` for, and
whether its arguments can be unpacked.  The first and second of the bad kinds
are logged and skipped (`Reject`); the others end the listener (`Crash`).

A task function may return, raise any number of times, or be cancelled.  The
retry waits of tenacity are one step of unknown length, in which the slot is
kept.  `cleanup_old_tasks` removes any set of records: the model has no clock.
After `stop()` a task function is assumed not to swallow its cancellation.

### TopicBus

`channel[g]` is what has been delivered to manager `g` and not yet read;
`carried[g]` is a history of what its bus carried.  In memory the bus of a
manager is its own list of queues; Redis and AMQP connect all managers; over
ZeroMQ each manager publishes at a socket of its own, and hears itself
(`OwnBus`).  `sending` is where a call of `publish()` is: with a broker it waits
for `subscriber_ready` and then for the broker, and in between anything may
happen.  `Registered` is the moment from which the broker delivers.  A message is
"ok", "empty" (logged and skipped) or "malformed"; the last ends the listener
(`Break`), and so does a function of the set `Unfit`, whose call with a topic
and data raises `TypeError`: the functions that the loop over the set has not
reached are not started, and nobody reads the channel any more, so that it is
taken for empty.  `run()` is called once per manager.  Messages
are lost neither by the broker nor by a connection: what the model loses, the
code loses.  AMQP differs in `ChannelSplits` only.

### MessageFormat, BrokerWorker, WorkerProcess

A message is its codec, whether the codec can read it back, and the dictionary,
as far as a reader looks at it. Arguments are what the codecs make of them
(`Carried`, `Writes`, `ReadsBack`): tuples come out as lists; JSON turns integer
keys into strings and cannot write bytes; msgpack writes integer keys and
refuses to read them. (`umsgpack`, which the code prefers where somebody has
installed it, is not modelled.) `VerdictIsTrue` says that a task ran with what
its codec makes of its arguments. Three programs write one: a manager without
and with `celery_compat`, and any other that calls `encode_celery_task` with the
msgpack serializer. `AMQPReads` and `AMQPTaskId` are the reader of the AMQP
generator, which differs from `DeserializeTask`, the reader of the worker.

`listen_tasks` awaits `pending_tasks`, which over a broker is an async
generator; it dies at its first step (`Listen`), and with it all consumption by
`run()`.  `BrokerWorker` models the worker that the rest of the code is written
for: a program that iterates `pending_tasks` itself and hands each task to
`_function_runner`.  `reader` is where the generator is, `stage` where each
runner is; `unacked` is RabbitMQ's view of what it has delivered, `held` the
worker's (`_current_messages`).  A call that settles a task may fail at the
broker, at most `MaxFaults` times: that is where an ack and a nack of one task
can both be written.  `Restart` loses what the process held; RabbitMQ puts
its unsettled messages back.

`mixed` says that the manager is an `AMQPBackend`, whose `_ensure_connection` is
the one of its subscriber half, so that its task queue is never declared; a
class made of `AsyncTaskDelayAMQP` alone has the other one.

`WorkerProcess` adds the host: the console command, FastAPI in either of its two
ways, or a program of its own. Its actions are the calls the host makes
(`BuildManager` ... `StopReturns`), and any step of the event loop while it
serves. The process may end at any time (`Exit`) and be started again. A program
may also go on after `stop()` (`AfterStop`): `run()` starts new listeners, and
what is taken then is refused by the executor that is down, and nacked
(`Refuses`); the program's own generator was cancelled and is not made again.
The manager is assumed to be built on the loop that serves it.

### DeadLetterQueue

`failedAt` is the dictionary of the queue in memory; `keys`, `index` and
`indexing` are what `RedisDLQ` has written.  A retry goes through `plan`, the
ids it was given or had listed; it keeps the loop ("stepping") except where
`get_task()` of `RedisDLQ` or `delay()` over Redis suspends.  A `get_task()` that
raises ends the call (`ReadFails`).  `delay()` of AMQP
and ZeroMQ raises.  `FunctionOf` distinguishes a function that `add_task()`
registered, which has a `delay()`, from one of the decorator, whose `delay()` is
on the wrapper that nobody looks up.  `fails`, `queued` and `dropped` are
histories.

### TokenBucket, SlidingWindow, RateLimiter

`tokens` and `updated` are the fields of the bucket, `made` says whether the key
has one, `asleep`, `started` and `wake` describe the calls of `wait_for_slot()`
that are in `asyncio.sleep`.  The bodies under the key's lock never suspend, so
the lock is never contended and an attempt, the check of the timeout and the
computation of the nap are one step.  A sleeper may be woken any time after it
is due.

Time is a number of ticks.  Tokens are counted in units of 1/`Period`, which
makes `refill_rate` the integer `Limit` per tick and every formula exact: the
rounding of floats is not modelled.  Naps are rounded up to whole ticks, as a
sleep never ends early.  A caller with no timeout has `Timeout = Never`.
`Limit = 0`, which `parse("0/s")` accepts, divides by zero at
`rate_limit.py:200` and is excluded by `ConstantsOK`.  `reset()` starts a new
bucket and with it a new history of grants.

`SlidingWindow` has the three round trips of `acquire()` on Redis as three
steps (`Count` or a refusal, `Add`, `Renew`) with anything in between.  The
sorted set is a set of times, since each member is its own score.  `dies` is the
key's life; Redis drops a dead key before it answers anybody (`Expire`).  All
callers read one clock, before the round trips, and what goes into the set is
that time (`admitted`); `passed` holds the calls `acquire()` let through in the
last period, each with the tick it returned at and the time it had read.  A trim
that empties the set drops the key and its life with it (`KeyStays`).

`RateLimiter` picks one of the two at the start, as `build_rate_limiter()` does,
and gives both the same calls.

### PeriodicScheduler

The loop makes a round of the table ("round" keeps the event loop), sleeps a
second, and after an error five.  It suspends inside a round where `delay()`
over Redis does: then the table may be edited, and the iteration ends with
`RuntimeError` if its size has changed (`Broken`).  A task that was replaced
meanwhile is a new one (`edit`), and a mark on the old is of no use.  `stop()`
cancels the loop and waits for it; `start()` may come in between.  The time
since `last_run` is kept only as far as the schedule can tell it.  A minute has
`MinuteTicks` seconds and an hour `LastMinute + 1` minutes; the other crontab
fields are parsed and matched like the minute.

### ResultStore

`age` is the time since `completed_at`, in Redis since the result was stored.
The cleaner of the memory backend sleeps, sweeps and ends when nothing is left;
a `completed_at` with a time zone cannot be subtracted from `utcnow()` and ends
it with `TypeError`.  A call of `wait_for_result()` looks, then sleeps
`PollEvery`, which the timeout does not cut; over Redis each look is a round
trip.  Time is kept as ages and remainders, so there is no bound on it.

## 3. Runs

| run | specification | result |
|---|---|---|
| `worker` | `Spec`, 4 messages, 2 functions, 2 slots, 2 attempts | passes: type invariant, slots, wake-ups, one place, `task_done`, retries, `wait`, refinement of `TaskQueue` |
| `worker_live` | `FairSpec`, 3 messages, 1 slot | passes: every task settles; `stop()` brings all slots home; `wait()` returns |
| `worker_wait` | `Spec`, 1 slot | **violation**: `wait(exit_on_finish=True)` returns with a task in the listener's hand |
| `worker_poison` | `FairSpec`, a message without an id | **violation**: the listener dies, the task behind it never runs |
| `topics` | `FairSpec`, 2 managers, 4 functions, 2 topics, 3 messages, memory, Redis or ZeroMQ | passes: refinement of `TopicLog`, fan-out, delivery but for what breaks a listener, publishers proceed |
| `topics_ready` | `Spec`, memory or Redis | **violation**: published before the own subscription exists |
| `topics_handled` | `FairSpec`, also AMQP | **violation**: a message never reaches the functions subscribed |
| `brokers` | `ProcessSpec`, 2 tasks, 3 brokers, 4 hosts, prefetch 1, 1 failing call, 2 lives | passes: begun at most once, verdicts true and one of them over AMQP, prefetch, what is settled is over |
| `dlq` | `FairSpec`, 3 tasks, 2 names, 2 retriers, bound 2, 4 failures | passes: bound, nothing lost, retried once, index backed, retries end |
| `limiter` | `LimiterSpec`, a waiter without and one with a timeout, a limit of 1 | passes: rate bound, justified refusals, naps; window bound, cause of refusals, expiry |
| `scheduler` | `FairSpec`, an interval and a cron task, 2 loops, 2 edits, 1 failing call | passes: one loop, `_running` true, quiet when stopped, once per due time, keeps running |
| `results` | `FairSpec`, 2 ids, 4 kinds of result, 2 pollers of one id, 3 stores | passes: cleaner alive, only expired go, no timeout beside a result, waits end, results forgotten |

The invariants on types of the other modules are proved (section 4).

Bounds.  *Worker*: two slots and four messages are enough for a listener asleep
in `acquire()` with both runners busy and a message still queued behind the one
in hand; two attempts give a task that retries and one that is out of attempts;
two functions that register at any time give a message that comes too early.
One slot in the liveness runs makes every task wait for its predecessor.
*Topics*: two managers give a listener that joins late or leaves early beside one
that stays, two functions of one manager on one topic give fan-out, and three
messages give order: two to handle, one of which breaks a manager with a function
that cannot be called, and one that is skipped (`topics`) or malformed
(`topics_handled`).  *Brokers*: with one message allowed out and two tasks, one
waits at the broker while the other runs; two lives give a delivery after a
death; one failing call is what it takes for an ack and a nack of one task; the
two argument lists of `RequestsOf` have values that a codec changes and values that
one refuses.  No limit of the prefetch (`task_concurrency` 0) is only
covered by the proofs.  *Dead letters*: three tasks overflow two places; four
failures let one fail again while it is retried; two callers are the overlap.
*Limiter*: with 1 call in 3 ticks a token fills up
tick by tick, a burst of 3 lets a full bucket differ from one period's tokens, a
timeout of 2 ends some naps early and others not; in 6 ticks two callers reach
the bound of four times read in a period, and a key that lives 4 dies.  A nap is
a whole number of ticks with this limit; rounding up is covered by the proof
of `NapFits`.  *Scheduler*: a second loop is a `start()`
during a `stop()`; the second edit is a removal or replacement under a round.
*Results*: a TTL of 1, a sweep every 2 ticks and an age of 0 or 1 at the store
give results that expire before, at and after a sweep; timeouts 0 and 3 lie on
both sides of a poll every 2.  Deadlock is not checked where inputs, clock or
lives are bounded, so that a run comes to rest; `results` and `scheduler` go on
for ever and check it.

Fairness. Nobody has to submit, register, publish, store, retry, start, wait or
stop: fairness is asked of the loop and of brokers only. *Worker*: the loop runs
what is ready (the listener, each runner, cancellations, the poll of `wait()`
whose condition holds), and task functions end. `EveryTaskSettles` needs only
weak fairness, because a runner that has ended gives its slot to the listener.
`WaitReturns` asks that some poll of `wait()` finds no topics pending. *Topics*:
a listener that has something to do does it and the broker answers; nobody has
to call `run()`, so `BlockedPublisherProceeds` says "once `run()` was called":
without it a publisher on Redis waits for ever, which is what
`examples/launch_manager_subscribe_and_launch_in_console.py` runs into when its
generator is started alone. *Dead letters*: each retry goes on. *Results* and
*scheduler*: the clock, too, goes on, so that whoever sleeps wakes; the sweep
and each poller get their turn. `KeepsRunning` is about an enabled task with a
`delay()` that stays in the table of a scheduler that is not stopped; for a cron
task only with a broker in memory, see observation 8.

### Findings

1. `wait(exit_on_finish=True)` may return early (`bases.py:793`): a task that the
   listener has taken off the queue is neither queued nor running between the
   release that hands over the slot and the listener's next step.
   `WaitMissesOnlyHand` (proved) says that this is the only task it can miss.
2. A message without a `task_id` ends the listener (`bases.py:655`,
   `TypeError` is not caught); so do arguments that cannot be unpacked
   (`bases.py:672`), and the slot is lost with it.
3. `subscriber_ready` is set before the subscription is registered
   (`bases.py:178`), so the wait in `publish()` on Redis does not do what it is for.
4. In memory, `publish()` right after `run()` is lost, which
   `tests/unittesting/tasks/memory/test_subscribers.py` does.  (`topics_ready`
   covers both; with one transport alone it gives the trace of that one.)
5. No handler runs over AMQP: `publish()` joins prefix and topic with ".",
   `listen_topics` splits at ":".
6. A message of a topic that does not decode, or a function that does not take
   two arguments, ends `listen_topics` for good (`bases.py:208`, `224`).
   `EveryMessageHandled`, which excuses what comes behind such a message, passes.
   (`topics_handled` covers this and 5; with AMQP alone it gives the trace of 5.)

### Observations

What the models take from the code, and a reader of the docs may not expect:

1. Over Redis, AMQP and ZeroMQ `run()` consumes nothing: `listen_tasks` awaits a
   generator (`bases.py:631`).
   `tests/unittesting/tasks/redis/test_delay.py:112-145` expects otherwise.
2. `AMQPBackend` never declares its task queue, see `TaskHalfConnects`.
3. A Celery message in JSON is rejected by the AMQP generator; one in msgpack
   has no id the generator finds, so that its message is never settled and keeps
   its place of the prefetch.
4. If the delete behind the ack fails over Redis, the task is nacked as well
   (`redis.py:290`): `VerdictIsTrue` says "failed, or a call failed".
5. `stop()` over Redis always raises, as `create_task()` wants a running loop
   and `run_until_complete()` one that is not; connections are never closed.
   Inside a loop it cancels all tasks of the loop, the caller's too; outside it
   has done nothing. A `run()` after it nacks what it takes: the executor stays
   down. The console's worker reports a failed start.
6. A manager of ZeroMQ whose DSN names a port cannot be built: its two halves
   bind the same address. The console's worker does not accept an `AioTasks`
   application.
7. The worker puts no failed task into the dead letter queue and stores no
   result: `_dlq` and `_result_backend`, set at `app.py:119-130`, are not used
   in `bases.py`. A failure that is recorded while a retry is on its way over
   Redis is removed unseen (`NothingLost` excuses it, as the id has been
   queued). `RedisDLQ` keeps a retried entry, and its list is empty.
8. After the manager's `stop()` the scheduler's `_running` stays set, and
   `start_scheduler()` does nothing. A cron minute goes by unseen if the loop is
   on its way to Redis for it. `day_of_week` counts from Monday, where the
   documentation says Sunday.
9. The Redis limiter reads the clock before its round trips and judges by that.
   In one period it may let through calls that read up to `limit - 1 + 2 n`
   different times with `n` concurrent callers, one above the limit with a
   single one: a call may return when its own time stamp has left the window.
   Calls of one time stamp count as one; and a key that dies between `zadd` and
   `expire` takes the window along.
10. Arguments do not travel unchanged, see `MessageFormat`; `delay()` raises for
   bytes with `celery_compat`. A `task_id` that is an integer becomes a string
   that is no UUID, and the task is skipped.
11. Off AMQP a task that a dead worker had taken is lost (`redis.py:267`).
12. In memory `wait(exit_on_finish=True)` does not return once a broken topic
   listener has left messages on its queue: `has_pending_topics()` counts them.
13. `max_retries` counts calls, the first included (`bases.py:520`, as
   `tests/test_retry_ack_nack.py:56` expects), and so does `RetryDiscipline`.
   `docs/getting-started/configuration.md:86-101` and `README.md:515` count
   retries after it: with `max_retries=5` a 5th retry, which would be a 6th
   call.
14. `retry_task()` refuses every task registered with `@app.task()`
   (`dlq.py:268`), for ever; `tests/unittesting/test_dlq.py:300-330` expects
   such a task to be retried. The scheduler skips those tasks for the same
   reason.

## 4. Proofs

All for any values of the constants, from the `ConstantsOK` of the module alone
(and of `SlidingWindow`, which `RateLimiter` assumes as `WindowConstantsOK`), but
for three: `WaitMissesAtMostTheHand` also assumes `Concurrency > 0` (with 0 the
listener keeps a message in hand for ever), `ConsumedIsStarted` that AMQP is not
among the transports (see finding 5), and `MemoryRetriesOnce` is about a broker
in memory.

*Worker.* The inductive invariant `IInv` of `TaskWorkerProofs` is the type
invariant with three groups of conjuncts, each preserved given those before it:

* *places*: a message is sent before it is anywhere; queue, hand and `running`
  are disjoint; the listener's state says whether its hand is empty; a runner
  has a phase exactly when it was launched.  This gives `OnePlace`, and that
  `Launch` adds a new element to `running`, which the counting needs;
* *slots and debts*: `SlotsConserved` and `TaskDoneOwed` count what the places
  hold.  `NoLostWakeup` follows from the way a slot is handed over;
* *attempts*: `RetryDiscipline`, layered so that the bound on a task in "backoff"
  gives the bound on its next attempt.

The proof of `WorkerImplementsTaskQueue` then maps each action: `Submit`,
`Launch`, the drops and the verdicts to the actions of `TaskQueue`, and the
rest, among them `Take` (the hand is the front of the line) and `TaskDone`, to
stuttering. `OutcomesAreFinal` follows: `TaskQueue` gives an outcome only to a
task in the line or running, and such a task has none yet.

*Topics.*  The invariant of `TopicBusProofs` says that the channel of a live
listener is a suffix of what its bus carried (`ChannelIsRest`), that a message
is carried once and only by a publisher that is done with it (`CarriedOnce`),
and that handlers were started only for messages carried and no longer waiting
(`HandledLater`).  The first gives the place of a listener in the log, whose
step is `Tail`; the other two say that a dispatch is the first of its message.
A listener that breaks reads its message and leaves in one step, which `Read` of
`TopicLog` allows.
A few lemmas on sequences take the place of arguments about indices.

*Bucket.*  `RateBound` is about pairs of grants and is not inductive: nothing in
it speaks of the tokens left.  `Budget` does: the grants from the i-th on plus
what is left are at most a full bucket and the refill since the i-th; a token
taken at once turns one into the other.  `NothingLost` is its converse, an
equality for some i unless the bucket is full, and gives `RefusalJustified`.
`NapFits` needs no strengthening: a refusal to somebody else moves `tokens` and
`updated` along the same line (`FindNoneFacts`), so that the level at any later
time is the same.  The arithmetic is in lemmas about products and about a
quotient rounded up.

*Window.*  A caller that has counted adds itself later, when the count is old.
`Room` says so for all of them at once: whenever anybody is about to add, the
calls of the window and those about to add are at most `Limit - 1` and one for
each caller; a caller that adds moves from one set to the other.  `Faithful`
says that the sorted set and the calls let through are the same as far as the
window goes, which turns a count of one into a count of the other and gives
`RefusedForCause`.  `WindowBound` is about calls let through, which may
have left the sorted set by then: a call asks after its caller's last one has
returned, and while that is recent the set keeps what the call adds (`Turns`,
`Apart`), so that each caller has at most one that is gone; the set itself is
counted by `Room`.  `Outlives` says that whoever has renewed the key has renewed
it for longer than its own stay in the window, and gives `ExpiryIsSafe`.

*Limiter.*  `RateLimiterProofs` carries both over to the limiter of a task: its
steps are steps of the window, which leave the bucket unmade, or of the bucket,
which leave the window empty.

*Dead letters.* That `Evict` takes something away when the queue is full is a
fact about finite sets of numbers, which would need induction; the invariant
carries it instead: every set of kept failures that is not empty has an oldest
(`Ordered`), which the newest failure, being later than all, preserves.
`LandedIsQueued` says that a retry whose task has arrived has counted it, so
that the removal behind it loses nothing. `OnceInMemory` is the induction
hypothesis of `MemoryRetriesOnce`: queued, plus one while it is kept, at most
the failures. With Redis a call that is on its way queues the entry even if
another has removed it, so `RetriedOnce` needs to know who still may: a failure
is worth one ticket for each call (`Tickets`), which is spent when the call
queues it. While the entry is kept a call holds a ticket unless it has queued it
and is about to remove it (`MayQueue`); once it is gone only those that are
sending it do (`OnItsWay`), so that a removal only takes tickets away and a new
failure pays for all that it hands out. `IndexingHasKeys` is what a `zadd` on
its way needs.

*Broker worker and process.* A lemma on the formats says what `Begin` needs:
that whatever `delay()` wrote and the worker reads is the task that was sent,
with its arguments as the codec carries them. The invariant `IInv` says where a
message may be (`Kept`, `Sent`), that what is delivered and running is unsettled
and at most the prefetch (`Unsettled`), that off AMQP a task in any place has
not been begun (`Once`), and that a runner that writes a verdict has the end it
writes (`Founded`). `VerdictIsTrue` is inductive beside these: over AMQP a
message is at the broker exactly until it has its one verdict. `SettledForGood`
follows, through any number of lives: what is begun or settled over AMQP is
unsettled, so it is a task without a verdict, and a task with one is left alone.

*Scheduler.*  Five facts about who is running make `Control`: a loop that nobody
has cancelled is the current one and `_running` is set (`LiveIsCurrent`, which
gives `OneLoop`); while it is set the current loop has begun, and goes on unless
the manager was stopped (`CurrentLives`, for `RunningIsTrue`); whoever is
cancelled or awaited has begun (`Begun`); a loop that is over was cancelled
(`OverIsCancelled`, a theorem of its own: the loop's test of `_running` never
ends it); and who was cancelled and has not ended is awaited
(`CancelledIsAwaited`, for `StoppedIsQuiet`).  `QueuedOncePerDue` counts loops
that were cancelled, and a cancelled loop may not have queued anything; the
invariant counts those that may have (`Spent`): the loops that are over, and
those that have landed the task the table holds and not marked it yet.  Each
adds one when it lands, and stays among them until the mark sets the count to 0
or the task is replaced.  At most one of them is not cancelled, the current.

*Results.*  `CleanerAlive` is inductive given that only the backend in memory
has a cleaner.  For `NoTimeoutBesideResult` the invariant says of a call whose
result was there all the time that it is final now, and that an answer of Redis
on its way to the call was final too (`AlwaysServed`); what becomes of the
results in one step is in `KeepFacts` and `PutFacts`.  `OnlyExpiredGo` needs the
types, and again that a sweep is one of the backend in memory.

Liveness is checked by TLC only: `EveryTaskSettles`, `StopReturnsSlots`,
`WaitReturns`, `EveryMessageHandled`, `BlockedPublisherProceeds`, `RetryEnds`,
`KeepsRunning`, `WaitEnds`, `EventuallyForgotten`.  Every other property of a
passing run is proved.

## 5. What is left

1. Two callers of AMQP's `_ensure_connection`: the second sees the connection
   before its channel and exchange exist.
2. Reconnection: what `connect_robust` and the Redis client do behind the code's
   back, once the code handles it.
3. `track_task_execution` under cancellation, once something calls it.

## 6. Not modelled

* The dashboard's pages, the metrics and the inspect and control commands only
  read, or are stubs; logging, configuration and DSN parsing keep no state.
* What the thread and process executors do inside one attempt.
* The `async with` form of `.delay()`, which runs the function at the caller, and
  `send_task`, whose first positional argument is taken for `celery_compat`.
* Celery's ETA, retries and routing headers, which no reader here looks at.
* Network partitions, and the internals of Redis, RabbitMQ and ZeroMQ: a call
  arrives or fails, so a reply that is lost behind a command that was executed
  (an `LPUSH` that `delay()` reports as failed) is not among the failures.
* RabbitMQ's message TTL (`amqp.py:33-40`): a task that waits longer than
  `task_ttl` is dropped there, and no verdict is written.
* A program that starts a second iteration of `pending_tasks`, or calls `run()`
  twice on its topics.
* `RetryEnds` counts a refusal as an end: what is refused for
  ever is observation 14.
