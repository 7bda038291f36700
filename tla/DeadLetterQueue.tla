-------------------------- MODULE DeadLetterQueue --------------------------
(***************************************************************************)
(* The dead letter queue of aiotasks, in memory (DeadLetterQueue) or in    *)
(* Redis (RedisDLQ), behind the AioTasks facade and the dashboard: tasks   *)
(* that failed are kept, listed, removed and queued again.                 *)
(*                                                                         *)
(* A call keeps the loop until it awaits something that suspends. Queueing *)
(* a task does not with a broker in memory, suspends with Redis, and       *)
(* raises with AMQP and ZeroMQ, whose delay() cannot be awaited.           *)
(***************************************************************************)
EXTENDS Naturals, Sequences, FiniteSets, SequencesExt, Functions

CONSTANTS
  Ids,         \* task ids
  Names,       \* task names
  NameOf,      \* the name of each task
  FunctionOf,  \* what is registered for a name, out of Functions
  Retriers,    \* calls of retry_task() and retry_all()
  MaxSize,     \* DeadLetterQueue.max_size
  MaxFails     \* bound on the failures recorded

(* add_task() puts delay() on the function it registers; the decorator     *)
(* puts it on its wrapper and registers the function as it was.            *)
Functions == {"added", "decorated", "missing"}

(* With max_size 0 add_task() raises. *)
ASSUME ConstantsOK ==
  /\ IsFiniteSet(Retriers)
  /\ NameOf \in [Ids -> Names]
  /\ FunctionOf \in [Names -> Functions]
  /\ MaxSize \in Nat \ {0}
  /\ MaxFails \in Nat

VARIABLES
  kind,        \* where the queue is: "local" or "redis"
  broker,      \* of the manager the tasks are queued to
  failedAt,    \* _tasks: the time of each entry; always empty for RedisDLQ
  clock,       \* the time of the last failure
  keys,        \* the entries RedisDLQ has written
  index,       \* and those in its sorted set
  indexing,    \* written, but not yet added to the sorted set
  doing,       \* where each call is: "stepping" keeps the loop
  plan,        \* the ids it has still to retry
  fails,       \* history: failures recorded of each task
  queued,      \* history: how often it was queued again
  dropped      \* history: tasks evicted, removed or cleared

vars == <<kind, broker, failedAt, clock, keys, index, indexing, doing, plan,
          fails, queued, dropped>>

Entries == DOMAIN failedAt

TypeOK ==
  /\ kind \in {"local", "redis"}
  /\ broker \in {"memory", "redis", "amqp"}
  /\ Entries \subseteq Ids
  /\ failedAt \in [Entries -> 1..clock]
  /\ clock \in Nat
  /\ keys \subseteq Ids
  /\ index \subseteq Ids
  /\ indexing \subseteq Ids
  /\ doing \in [Retriers ->
                 {"out", "stepping", "reading", "sending", "landed", "over"}]
  /\ plan \in [Retriers -> Seq(Ids)]
  /\ fails \in [Ids -> Nat]
  /\ queued \in [Ids -> Nat]
  /\ dropped \subseteq Ids

Init ==
  /\ kind \in {"local", "redis"}
  /\ broker \in {"memory", "redis", "amqp"}
  /\ failedAt = [i \in {} |-> 0]
  /\ clock = 0
  /\ keys = {}
  /\ index = {}
  /\ indexing = {}
  /\ doing = [r \in Retriers |-> "out"]
  /\ plan = [r \in Retriers |-> <<>>]
  /\ fails = [i \in Ids |-> 0]
  /\ queued = [i \in Ids |-> 0]
  /\ dropped = {}

-----------------------------------------------------------------------------
setting == <<kind, broker>>
redisVars == <<keys, index, indexing>>
history == <<fails, queued, dropped>>

LoopFree == \A r \in Retriers : doing[r] # "stepping"

(* No two failures have the same time. *)
Fail(i) ==
  /\ clock < MaxFails
  /\ clock' = clock + 1
  /\ fails' = [fails EXCEPT ![i] = @ + 1]

Oldest == {i \in Entries : \A j \in Entries : failedAt[i] <= failedAt[j]}

EvictLate ==                  \* mutated: > for >=
  IF Cardinality(Entries) > MaxSize THEN Oldest ELSE {}

(* The oldest entry makes room, even for one that is there already. *)
Evict == IF Cardinality(Entries) >= MaxSize THEN Oldest ELSE {}

(* DeadLetterQueue.add_task() *)
Add(i) ==
  /\ kind = "local"
  /\ LoopFree
  /\ Fail(i)
  /\ failedAt' = [j \in (Entries \ Evict) \cup {i} |->
                    IF j = i THEN clock + 1 ELSE failedAt[j]]
  /\ dropped' = (dropped \cup Evict) \ {i}
  /\ UNCHANGED <<setting, redisVars, doing, plan, queued>>

WriteIndexFirst(i) ==         \* mutated: zadd before set
  /\ kind = "redis"
  /\ LoopFree
  /\ Fail(i)
  /\ index' = index \cup {i}
  /\ indexing' = indexing \cup {i}
  /\ UNCHANGED <<setting, failedAt, keys, doing, plan, queued, dropped>>

(* RedisDLQ.add_task(): set, and in a second round trip zadd; no bound. *)
Write(i) ==
  /\ kind = "redis"
  /\ LoopFree
  /\ Fail(i)
  /\ keys' = keys \cup {i}
  /\ indexing' = indexing \cup {i}
  /\ UNCHANGED <<setting, failedAt, index, doing, plan, queued, dropped>>

Index(i) ==
  /\ i \in indexing
  /\ LoopFree
  /\ index' = index \cup {i}
  /\ indexing' = indexing \ {i}
  /\ UNCHANGED <<setting, failedAt, keys, doing, plan, clock, history>>

(* remove_task(), which knows the entries in memory only. *)
RemoveTask(i) ==
  /\ LoopFree
  /\ i \in Entries
  /\ failedAt' = Restrict(failedAt, Entries \ {i})
  /\ dropped' = dropped \cup {i}
  /\ UNCHANGED <<setting, redisVars, doing, plan, clock, fails, queued>>

Named(n, i) == n = "any" \/ NameOf[i] = n

(* clear(), of one name or of all. *)
Clear(n) ==
  /\ LoopFree
  /\ Entries # {}
  /\ failedAt' = Restrict(failedAt, {i \in Entries : ~Named(n, i)})
  /\ dropped' = dropped \cup {i \in Entries : Named(n, i)}
  /\ UNCHANGED <<setting, redisVars, doing, plan, clock, fails, queued>>

-----------------------------------------------------------------------------
(* list_tasks(): newest first, of one name or of all, at most limit, where *)
(* 0 is no limit.                                                          *)
ListTasks(n, limit) ==
  LET s == SetToSortSeq({i \in Entries : Named(n, i)},
                        LAMBDA i, j : failedAt[i] > failedAt[j])
  IN  IF limit = 0 \/ limit > Len(s) THEN s ELSE SubSeq(s, 1, limit)

Begin(r, ids) ==
  /\ LoopFree
  /\ doing[r] = "out"
  /\ doing' = [doing EXCEPT ![r] = "stepping"]
  /\ plan' = [plan EXCEPT ![r] = ids]
  /\ UNCHANGED <<setting, failedAt, redisVars, clock, history>>

RetryTask(r, i) == Begin(r, <<i>>)

(* retry_all() goes through the list as it was at the beginning. *)
RetryAll(r, n, limit) == Begin(r, ListTasks(n, limit))

Stepping(r) == doing[r] = "stepping" /\ plan[r] # <<>>

NextOf(r) == plan' = [plan EXCEPT ![r] = Tail(@)]

(* RedisDLQ.get_task() is a round trip. *)
Read(r) ==
  /\ kind = "redis"
  /\ Stepping(r)
  /\ doing' = [doing EXCEPT ![r] = "reading"]
  /\ UNCHANGED <<setting, failedAt, redisVars, plan, clock, history>>

(* What the round trip raises, or the entry when it does not decode, ends  *)
(* the whole call: get_task() is outside the try of retry_task().          *)
ReadFails(r) ==
  /\ doing[r] = "reading"
  /\ LoopFree
  /\ doing' = [doing EXCEPT ![r] = "over"]
  /\ UNCHANGED <<setting, failedAt, redisVars, plan, clock, history>>

(* The call has the answer of get_task(). *)
Has(r) == \/ kind = "local" /\ Stepping(r)
          \/ doing[r] = "reading" /\ LoopFree

Entry(i) == i \in IF kind = "local" THEN Entries ELSE keys

CanDelay(i) == FunctionOf[NameOf[i]] = "added"

RefuseAndStay(r) ==           \* mutated: a refused task is tried again
  /\ Has(r)
  /\ \/ ~Entry(Head(plan[r]))
     \/ ~CanDelay(Head(plan[r]))
     \/ broker = "amqp"
  /\ doing' = [doing EXCEPT ![r] = "stepping"]
  /\ UNCHANGED <<setting, failedAt, redisVars, plan, clock, history>>

(* retry_task() is False, and the entry stays, if there is any: it is not  *)
(* found, has no function with a delay(), or delay() raises.               *)
Refuse(r) ==
  /\ Has(r)
  /\ \/ ~Entry(Head(plan[r]))
     \/ ~CanDelay(Head(plan[r]))
     \/ broker = "amqp"
  /\ doing' = [doing EXCEPT ![r] = "stepping"]
  /\ NextOf(r)
  /\ UNCHANGED <<setting, failedAt, redisVars, clock, history>>

Accepts(r) == Has(r) /\ Entry(Head(plan[r])) /\ CanDelay(Head(plan[r]))

KeepQueued(i) ==              \* mutated: the entry stays after its retry
  UNCHANGED failedAt

(* What remove_task() at the end of a retry does. *)
TakeOut(i) == failedAt' = Restrict(failedAt, Entries \ {i})

(* With a broker in memory delay() and remove_task() are one step. *)
QueueAtOnce(r) ==
  /\ broker = "memory"
  /\ Accepts(r)
  /\ queued' = [queued EXCEPT ![Head(plan[r])] = @ + 1]
  /\ TakeOut(Head(plan[r]))
  /\ doing' = [doing EXCEPT ![r] = "stepping"]
  /\ NextOf(r)
  /\ UNCHANGED <<setting, redisVars, clock, fails, dropped>>

SendRemovingFirst(r) ==       \* mutated: the entry goes before the task is queued
  /\ broker = "redis"
  /\ Accepts(r)
  /\ doing' = [doing EXCEPT ![r] = "sending"]
  /\ TakeOut(Head(plan[r]))
  /\ UNCHANGED <<setting, redisVars, plan, clock, history>>

(* With Redis delay() suspends ... *)
Send(r) ==
  /\ broker = "redis"
  /\ Accepts(r)
  /\ doing' = [doing EXCEPT ![r] = "sending"]
  /\ UNCHANGED <<setting, failedAt, redisVars, plan, clock, history>>

(* ... the task gets to the broker ... *)
Land(r) ==
  /\ doing[r] = "sending"
  /\ LoopFree
  /\ queued' = [queued EXCEPT ![Head(plan[r])] = @ + 1]
  /\ doing' = [doing EXCEPT ![r] = "landed"]
  /\ UNCHANGED <<setting, failedAt, redisVars, plan, clock, fails, dropped>>

(* ... or the connection fails, and retry_task() is False ... *)
SendFails(r) ==
  /\ doing[r] = "sending"
  /\ LoopFree
  /\ doing' = [doing EXCEPT ![r] = "stepping"]
  /\ NextOf(r)
  /\ UNCHANGED <<setting, failedAt, redisVars, clock, history>>

(* ... and the entry is removed when the call goes on: whatever it is by   *)
(* then.                                                                   *)
Resume(r) ==
  /\ doing[r] = "landed"
  /\ LoopFree
  /\ TakeOut(Head(plan[r]))
  /\ doing' = [doing EXCEPT ![r] = "stepping"]
  /\ NextOf(r)
  /\ UNCHANGED <<setting, redisVars, clock, history>>

Finish(r) ==
  /\ doing[r] = "stepping"
  /\ plan[r] = <<>>
  /\ doing' = [doing EXCEPT ![r] = "over"]
  /\ UNCHANGED <<setting, failedAt, redisVars, plan, clock, history>>

(* stop() of the manager cancels the calls that are suspended. *)
StopLoop ==
  /\ LoopFree
  /\ indexing' = {}
  /\ doing' = [r \in Retriers |->
                 IF doing[r] \in {"reading", "sending", "landed"} THEN "over" ELSE doing[r]]
  /\ UNCHANGED <<setting, failedAt, keys, index, plan, clock, history>>

Step(r) ==
  \/ Read(r) \/ ReadFails(r) \/ Refuse(r) \/ QueueAtOnce(r) \/ Send(r) \/ Land(r)
  \/ SendFails(r) \/ Resume(r) \/ Finish(r)

Next ==
  \/ \E i \in Ids : Add(i) \/ Write(i) \/ Index(i) \/ RemoveTask(i)
  \/ \E n \in Names \cup {"any"} : Clear(n)
  \/ \E r \in Retriers, i \in Ids : RetryTask(r, i)
  \/ \E r \in Retriers, n \in Names \cup {"any"}, limit \in 0..1 : RetryAll(r, n, limit)
  \/ \E r \in Retriers : Step(r)
  \/ StopLoop

Spec == Init /\ [][Next]_vars

(* The loop runs what is ready, and the broker answers. *)
FairSpec == Spec /\ \A r \in Retriers : WF_vars(Step(r))

-----------------------------------------------------------------------------
(* No more than max_size entries in memory (add_task). *)
Bounded == Cardinality(Entries) <= MaxSize

(* A failure kept in memory leaves only when the task was queued again, or *)
(* was evicted, removed or cleared: a retry that fails or is cancelled     *)
(* half-way loses nothing (retry_task).                                    *)
NothingLost ==
  kind = "local" =>
    \A i \in Ids : fails[i] > 0 => \/ i \in Entries
                                   \/ queued[i] > 0
                                   \/ i \in dropped

(* With a broker in memory a failure is queued again at most once, however *)
(* retry_task() and retry_all() overlap; with Redis at most once for each  *)
(* call that was on its way (retry_task).                                  *)
RetriedOnce ==
  kind = "local" =>
    \A i \in Ids :
      queued[i] <= fails[i] * (IF broker = "memory" THEN 1 ELSE Cardinality(Retriers))

(* Every id in the sorted set of RedisDLQ has its entry (add_task). *)
IndexHasKeys == index \subseteq keys

(* Every retry comes to an end, also over a list that changes meanwhile    *)
(* (retry_task, retry_all); a refusal is an end.                           *)
RetryEnds == \A r \in Retriers : doing[r] # "out" ~> doing[r] = "over"
=============================================================================
