---------------------------- MODULE ResultStore ----------------------------
(***************************************************************************)
(* The result backends of aiotasks behind the AioTasks facade: results     *)
(* that are stored, replaced, deleted and expire, the calls of             *)
(* wait_for_result() that poll for them, and the cleaning task of the      *)
(* memory backend.  A backend in Redis answers after a round trip.         *)
(*                                                                         *)
(* Time is kept as ages and as time left, so the model runs for ever.      *)
(***************************************************************************)
EXTENDS Integers, FiniteSets, Functions

CONSTANTS
  Ids,         \* task ids
  Results,     \* the results that may be stored, out of ResultKinds
  Pollers,     \* calls of wait_for_result()
  WaitsFor,    \* the id of each
  Timeout,     \* and its timeout, in ticks
  PollEvery,   \* poll_interval
  TTL,
  SweepEvery,  \* the 60 seconds of _cleanup_expired
  MaxStores    \* bound on the results stored

(* What of a TaskResult matters: its status ("open" is pending, started or *)
(* retry), its completed_at (none, a naive time or one with a time zone),  *)
(* and whether JSON can write it.                                          *)
ResultKinds ==
  [status : {"open", "success", "failure"},
   completed : {"none", "naive", "aware"},
   json : BOOLEAN]

ASSUME ConstantsOK ==
  /\ Results \subseteq ResultKinds
  /\ WaitsFor \in [Pollers -> Ids]
  /\ Timeout \in [Pollers -> Nat]
  /\ PollEvery \in Nat
  /\ TTL \in Nat \ {0}
  /\ SweepEvery \in Nat \ {0}
  /\ MaxStores \in Nat

VARIABLES
  backend,     \* "none" when no result backend is configured
  results,     \* the result of each id that has one
  age,         \* its time since completed_at; in Redis, since it was stored
  puts,        \* number of results stored so far
  cleaner,     \* _cleanup_task: "dead" is cancelled or failed
  due,         \* time until its next round
  doing,       \* where each call of wait_for_result() is
  seen,        \* what Redis has answered to it: a status
  elapsed,     \* time since it began
  nap,         \* time left of its sleep
  answer,      \* how it ended
  always       \* history: the calls that had a final result all the time

vars == <<backend, results, age, puts, cleaner, due, doing, seen,
          elapsed, nap, answer, always>>

Stored == DOMAIN results

TypeOK ==
  /\ backend \in {"none", "memory", "redis"}
  /\ Stored \subseteq Ids
  /\ results \in [Stored -> ResultKinds]
  /\ age \in [Stored -> 0..(TTL + 1)]
  /\ puts \in 0..MaxStores
  /\ cleaner \in {"none", "asleep", "done", "dead"}
  /\ due \in 0..SweepEvery
  /\ doing \in [Pollers -> {"out", "looking", "asking", "asleep", "over"}]
  /\ seen \in [Pollers -> {"none", "open", "success", "failure"}]
  /\ elapsed \in [Pollers -> Nat]
  /\ \A p \in Pollers : elapsed[p] <= Timeout[p]
  /\ nap \in [Pollers -> 0..PollEvery]
  /\ answer \in [Pollers -> {"none", "value", "failed", "timeout", "cancelled", "error"}]
  /\ always \subseteq Pollers

(* build_result_backend() *)
Init ==
  /\ backend \in {"none", "memory", "redis"}
  /\ results = [i \in {} |-> 0]
  /\ age = [i \in {} |-> 0]
  /\ puts = 0
  /\ cleaner = "none"
  /\ due = 0
  /\ doing = [p \in Pollers |-> "out"]
  /\ seen = [p \in Pollers |-> "none"]
  /\ elapsed = [p \in Pollers |-> 0]
  /\ nap = [p \in Pollers |-> 0]
  /\ answer = [p \in Pollers |-> "none"]
  /\ always = {}

-----------------------------------------------------------------------------
storeVars == <<results, age, puts, always>>
cleanerVars == <<cleaner, due>>
pollVars == <<doing, seen, elapsed, nap, answer>>

Smaller(a, b) == IF a <= b THEN a ELSE b

Calling == {p \in Pollers : doing[p] \in {"looking", "asking", "asleep"}}

Final(R, i) == i \in DOMAIN R /\ R[i].status # "open"

(* The calls whose result was final all the time and is so in R. *)
Served(R) == {p \in always : Final(R, WaitsFor[p])}

StartCleanerOnce ==           \* mutated: a cleaner that has ended counts as there
  IF cleaner = "none"
    THEN cleaner' = "asleep" /\ due' = SweepEvery
    ELSE UNCHANGED cleanerVars

(* The cleaner is started by the first store after it has ended. *)
StartCleaner ==
  IF cleaner # "asleep"
    THEN cleaner' = "asleep" /\ due' = SweepEvery
    ELSE UNCHANGED cleanerVars

(* The result and age of i are from now on r and a. *)
Put(i, r, a) ==
  /\ puts < MaxStores
  /\ puts' = puts + 1
  /\ results' = [j \in Stored \cup {i} |-> IF j = i THEN r ELSE results[j]]
  /\ age' = [j \in Stored \cup {i} |-> IF j = i THEN a ELSE age[j]]
  /\ always' = Served(results')

(* Only the results of the ids in S stay, with these ages. *)
Keep(S, ages) ==
  /\ results' = Restrict(results, S)
  /\ age' = Restrict(ages, S)
  /\ always' = Served(results')

(* MemoryResultBackend.store_result(); completed_at may lie a tick back. *)
StoreInMemory(i, r) ==
  /\ backend = "memory"
  /\ \E a \in 0..1 : Put(i, r, a)
  /\ StartCleaner
  /\ UNCHANGED <<backend, pollVars>>

(* RedisResultBackend.store_result(): setex; what JSON cannot write raises *)
(* before.                                                                 *)
StoreInRedis(i, r) ==
  /\ backend = "redis"
  /\ r.json
  /\ Put(i, r, 0)
  /\ UNCHANGED <<backend, cleanerVars, pollVars>>

(* delete_result(); without a backend it is False. *)
Delete(i) ==
  /\ backend # "none"
  /\ i \in Stored
  /\ Keep(Stored \ {i}, age)
  /\ UNCHANGED <<backend, puts, cleanerVars, pollVars>>

-----------------------------------------------------------------------------
(* AioTasks.wait_for_result(): an error without a backend. *)
Wait(p) ==
  /\ doing[p] = "out"
  /\ IF backend = "none"
       THEN /\ doing' = [doing EXCEPT ![p] = "over"]
            /\ answer' = [answer EXCEPT ![p] = "error"]
            /\ UNCHANGED always
       ELSE /\ doing' = [doing EXCEPT ![p] = "looking"]
            /\ always' = IF Final(results, WaitsFor[p]) THEN always \cup {p} ELSE always
            /\ UNCHANGED answer
  /\ UNCHANGED <<backend, results, age, puts, cleanerVars, seen, elapsed, nap>>

End(p, a) ==
  /\ doing' = [doing EXCEPT ![p] = "over"]
  /\ answer' = [answer EXCEPT ![p] = a]
  /\ elapsed' = [elapsed EXCEPT ![p] = 0]
  /\ UNCHANGED nap

LookAgain(p) ==
  /\ doing' = [doing EXCEPT ![p] = "asleep"]
  /\ nap' = [nap EXCEPT ![p] = PollEvery]
  /\ UNCHANGED <<answer, elapsed>>

DecideTimeFirst(p, status) == \* mutated: the time is checked before the result
  IF elapsed[p] >= Timeout[p] THEN End(p, "timeout")
  ELSE IF status = "success" THEN End(p, "value")
  ELSE IF status = "failure" THEN End(p, "failed")
  ELSE LookAgain(p)

DecideNoTimeout(p, status) == \* mutated: the time is never checked
  IF status = "success" THEN End(p, "value")
  ELSE IF status = "failure" THEN End(p, "failed")
  ELSE LookAgain(p)

(* What one round of the loop makes of the status it has found: a result,  *)
(* a RuntimeError, a TimeoutError, or a sleep, which the timeout does not  *)
(* cut.                                                                    *)
Decide(p, status) ==
  IF status = "success" THEN End(p, "value")
  ELSE IF status = "failure" THEN End(p, "failed")
  ELSE IF elapsed[p] >= Timeout[p] THEN End(p, "timeout")
  ELSE LookAgain(p)

(* get_result() *)
Found(i) == IF i \in Stored THEN results[i].status ELSE "none"

Awake(p) == doing[p] = "looking" \/ (doing[p] = "asleep" /\ nap[p] = 0)

(* A round over memory does not suspend. *)
Look(p) ==
  /\ backend = "memory"
  /\ Awake(p)
  /\ Decide(p, Found(WaitsFor[p]))
  /\ UNCHANGED <<backend, storeVars, cleanerVars, seen>>

(* Redis answers ... *)
Ask(p) ==
  /\ backend = "redis"
  /\ Awake(p)
  /\ doing' = [doing EXCEPT ![p] = "asking"]
  /\ seen' = [seen EXCEPT ![p] = Found(WaitsFor[p])]
  /\ UNCHANGED <<backend, storeVars, cleanerVars, elapsed, nap, answer>>

(* ... and the caller gets the answer some time later. *)
Hear(p) ==
  /\ doing[p] = "asking"
  /\ Decide(p, seen[p])
  /\ seen' = [seen EXCEPT ![p] = "none"]
  /\ UNCHANGED <<backend, storeVars, cleanerVars>>

-----------------------------------------------------------------------------
(* A time with a zone cannot be subtracted from utcnow(): TypeError. *)
Unreadable == {i \in Stored : results[i].completed = "aware"}

ExpiredWithOpen ==            \* mutated: a result without completed_at expires too
  {i \in Stored : age[i] > TTL}

Expired == {i \in Stored : results[i].completed = "naive" /\ age[i] > TTL}

NothingToExpire ==            \* mutated: the cleaner ends after a round without work
  Expired = {}

NothingLeft == Stored = Expired

Sweep ==
  /\ cleaner = "asleep"
  /\ due = 0
  /\ Unreadable = {}
  /\ Keep(Stored \ Expired, age)
  /\ IF NothingLeft THEN cleaner' = "done" /\ UNCHANGED due
                    ELSE due' = SweepEvery /\ UNCHANGED cleaner
  /\ UNCHANGED <<backend, puts, pollVars>>

SweepFails ==
  /\ cleaner = "asleep"
  /\ due = 0
  /\ Unreadable # {}
  /\ cleaner' = "dead"
  /\ UNCHANGED <<backend, storeVars, due, pollVars>>

(* The manager's stop() cancels every task of the loop. *)
StopLoop ==
  /\ cleaner = "asleep" \/ Calling # {}
  /\ cleaner' = IF cleaner = "asleep" THEN "dead" ELSE cleaner
  /\ doing' = [p \in Pollers |-> IF p \in Calling THEN "over" ELSE doing[p]]
  /\ answer' = [p \in Pollers |-> IF p \in Calling THEN "cancelled" ELSE answer[p]]
  /\ elapsed' = [p \in Pollers |-> 0]
  /\ seen' = [p \in Pollers |-> "none"]
  /\ UNCHANGED <<backend, storeVars, due, nap>>

(* In Redis a result lives TTL ticks, whatever its status. *)
Kept == IF backend = "redis" THEN {i \in Stored : age[i] + 1 < TTL} ELSE Stored

Tick ==
  /\ Keep(Kept, [i \in Stored |-> Smaller(age[i] + 1, TTL + 1)])
  /\ due' = IF due > 0 THEN due - 1 ELSE 0
  /\ elapsed' = [p \in Pollers |->
                   IF p \in Calling THEN Smaller(elapsed[p] + 1, Timeout[p]) ELSE elapsed[p]]
  /\ nap' = [p \in Pollers |-> IF nap[p] > 0 THEN nap[p] - 1 ELSE 0]
  /\ UNCHANGED <<backend, puts, cleaner, doing, seen, answer>>

Round(p) == Look(p) \/ Ask(p) \/ Hear(p)

Next ==
  \/ \E i \in Ids, r \in Results : StoreInMemory(i, r) \/ StoreInRedis(i, r)
  \/ \E i \in Ids : Delete(i)
  \/ \E p \in Pollers : Wait(p) \/ Round(p)
  \/ Sweep \/ SweepFails \/ StopLoop \/ Tick

Spec == Init /\ [][Next]_vars

(* Time goes on, the loop wakes who has slept and Redis answers.  Nobody   *)
(* has to store or delete a result, or to call stop().                     *)
Fairness ==
  /\ WF_vars(Tick)
  /\ WF_vars(Sweep \/ SweepFails)
  /\ \A p \in Pollers : WF_vars(Round(p))

FairSpec == Spec /\ Fairness

-----------------------------------------------------------------------------
(* While there are results in memory somebody cleans up: the cleaner ends  *)
(* by itself only when none is left, and the next store starts another;    *)
(* only a stop() or a time it cannot read takes it away, until the next    *)
(* store (store_result, _cleanup_expired).                                 *)
CleanerAlive ==
  backend = "memory" /\ Stored # {} => cleaner \in {"asleep", "dead"}

(* A result goes unasked only at its end: in memory when it is completed   *)
(* and older than its TTL, in Redis after TTL (_cleanup_expired, setex).   *)
OnlyExpiredGo ==
  [][\A i \in Ids :
       i \in Stored /\ i \notin Stored' =>
         \/ Delete(i)
         \/ backend = "redis" /\ age[i] + 1 >= TTL
         \/ backend = "memory" /\ age[i] > TTL /\ results[i].completed # "none"]_vars

(* Who waits for a result that is there from the beginning to the end of   *)
(* the call gets it, however short its timeout (wait_for_result).          *)
NoTimeoutBesideResult ==
  [][\A p \in always :
       answer[p] = "none" => answer'[p] # "timeout"]_vars

(* wait_for_result() comes to an end. *)
WaitEnds == \A p \in Pollers : p \in Calling ~> answer[p] # "none"

(* A completed result in memory does not stay for ever, as long as the     *)
(* cleaner lives.                                                          *)
EventuallyForgotten ==
  \A i \in Ids :
    (backend = "memory" /\ i \in Stored /\ results[i].completed = "naive")
      ~> (cleaner = "dead" \/ i \notin Stored \/ results[i].completed # "naive")
=============================================================================
