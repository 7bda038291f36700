------------------------- MODULE PeriodicScheduler -------------------------
(***************************************************************************)
(* The periodic scheduler of aiotasks behind the AioTasks facade: its      *)
(* table, the loop that goes over it once a second, start() and stop(),    *)
(* and the manager's stop(), which cancels the loop behind its back.       *)
(*                                                                         *)
(* A round keeps the event loop until it queues a task over Redis; with a  *)
(* broker in memory delay() does not suspend, with AMQP and ZeroMQ it      *)
(* raises.  A tick is the second that the loop sleeps.  Whoever is due is  *)
(* run before the next tick: the event loop is never blocked that long.    *)
(***************************************************************************)
EXTENDS Naturals, FiniteSets, Functions

CONSTANTS
  Names,       \* names of periodic tasks
  ScheduleOf,  \* the schedule each is added with
  MaxLoops,    \* bound on the calls of start() that start a loop
  RestTicks,   \* the 5 seconds after an error
  MinuteTicks, \* ticks of a minute, which is cut short
  LastMinute,  \* the last minute of an hour, which is cut short too
  None,
  MaxEdits,    \* bound on the tasks added
  MaxFaults    \* bound on the connections that fail

(* A cron field is *, */n, a-b, a,b,c or a. *)
Fields ==
  [form : {"every"}] \cup [form : {"step"}, n : Nat \ {0}]
    \cup [form : {"range"}, a : Nat, b : Nat] \cup [form : {"list"}, s : SUBSET Nat]

(* The calls of _run_scheduler(), in their order. *)
Loops == 1..MaxLoops

Schedules ==
  [kind : {"interval"}, every : Nat \ {0}] \cup [kind : {"cron"}, minute : Fields]

ASSUME ConstantsOK ==
  /\ \A n \in Names :
       /\ ScheduleOf[n].kind = "interval" => ScheduleOf[n].every \in Nat \ {0}
       /\ ScheduleOf[n].kind = "cron" => ScheduleOf[n].minute.form \in {"every", "step", "range", "list"}
  /\ RestTicks \in Nat
  /\ MinuteTicks \in Nat \ {0}
  /\ LastMinute \in Nat
  /\ MaxLoops \in Nat
  /\ None \notin Nat
  /\ MaxEdits \in Nat
  /\ MaxFaults \in Nat

VARIABLES
  broker,
  time,        \* ticks of this hour
  table,       \* _tasks: the PeriodicTask of each name
  edits,       \* number of tasks added; every PeriodicTask is a new one
  running,     \* _running
  current,     \* _scheduler_task
  doing,       \* where each loop is: "round" keeps the event loop
  nap,         \* ticks left of its sleep
  visited,     \* the names it has seen in this round
  size,        \* of the table, when the round began
  holding,     \* the name and the edit of the task it is queueing
  cancelled,   \* loops to be cancelled
  awaited,     \* loops a stop() is waiting for
  faults,
  managerStopped, \* history: stop() of the manager was called
  unmarked     \* history: how often each task was queued since mark_run()

vars == <<broker, time, table, edits, running, current, doing, nap, visited,
          size, holding, cancelled, awaited, faults, managerStopped, unmarked>>

tableVars == <<table, edits, unmarked>>
controlVars == <<running, current, cancelled, awaited, managerStopped>>
roundVars == <<doing, nap, visited, size, holding>>

States == {"none", "created", "round", "sending", "landed", "asleep", "resting", "over"}

(* since is the time after last_run, thisMinute whether that is within the *)
(* minute; able says whether the function found has a delay().             *)
Tasks == [enabled : BOOLEAN, able : BOOLEAN, edit : Nat, since : Nat \cup {None},
          thisMinute : BOOLEAN]

TypeOK ==
  /\ broker \in {"memory", "redis", "amqp"}
  /\ time \in 0..(MinuteTicks * (LastMinute + 1) - 1)
  /\ DOMAIN table \subseteq Names
  /\ table \in [DOMAIN table -> Tasks]
  /\ edits \in 0..MaxEdits
  /\ running \in BOOLEAN
  /\ current \in Loops \cup {None}
  /\ doing \in [Loops -> States]
  /\ nap \in [Loops -> 0..(RestTicks + 1)]
  /\ visited \in [Loops -> SUBSET Names]
  /\ size \in [Loops -> Nat]
  /\ holding \in [Loops -> (Names \X Nat) \cup {None}]
  /\ cancelled \subseteq Loops
  /\ awaited \subseteq Loops
  /\ faults \in 0..MaxFaults
  /\ managerStopped \in BOOLEAN
  /\ unmarked \in [Names -> Nat]

Init ==
  /\ broker \in {"memory", "redis", "amqp"}
  /\ time = 0
  /\ table = [n \in {} |-> None]
  /\ edits = 0
  /\ running = FALSE
  /\ current = None
  /\ doing = [l \in Loops |-> "none"]
  /\ nap = [l \in Loops |-> 0]
  /\ visited = [l \in Loops |-> {}]
  /\ size = [l \in Loops |-> 0]
  /\ holding = [l \in Loops |-> None]
  /\ cancelled = {}
  /\ awaited = {}
  /\ faults = 0
  /\ managerStopped = FALSE
  /\ unmarked = [n \in Names |-> 0]

-----------------------------------------------------------------------------
(* CrontabSchedule._parse_field() *)
ParseField(f, low, high) ==
  CASE f.form = "every" -> low..high
    [] f.form = "step"  -> {x \in low..high : (x - low) % f.n = 0}
    [] f.form = "range" -> f.a..f.b
    [] f.form = "list"  -> f.s

Minute == time \div MinuteTicks

IntervalDueLate(t, every) ==  \* mutated: only a task that has run becomes due
  t.since # None /\ t.since >= every

(* IntervalSchedule.is_due() *)
IntervalDue(t, every) == t.since # None => t.since >= every

(* CrontabSchedule.is_due(): _matches() and no run in this minute. *)
CronDue(t, field) ==
  Minute \in ParseField(field, 0, LastMinute) /\ ~t.thisMinute

(* PeriodicTask.is_due() *)
IsDue(n) ==
  LET t == table[n]
      s == ScheduleOf[n]
  IN  /\ t.enabled
      /\ IF s.kind = "interval" THEN IntervalDue(t, s.every) ELSE CronDue(t, s.minute)

LoopFree == \A l \in Loops : doing[l] # "round"

(* PeriodicTask(), which has not run yet. *)
NewTask(enabled, able) ==
  [enabled |-> enabled, able |-> able, edit |-> edits + 1, since |-> None,
   thisMinute |-> FALSE]

(* add_task(): a task of the same name is replaced, and its last run       *)
(* forgotten; the loops have not seen a name that was not there.           *)
AddTask(n, enabled, able) ==
  /\ LoopFree
  /\ edits < MaxEdits
  /\ edits' = edits + 1
  /\ table' = [m \in DOMAIN table \cup {n} |->
                 IF m = n THEN NewTask(enabled, able) ELSE table[m]]
  /\ visited' = IF n \in DOMAIN table THEN visited
                ELSE [l \in Loops |-> visited[l] \ {n}]
  /\ unmarked' = [unmarked EXCEPT ![n] = 0]
  /\ UNCHANGED <<broker, time, controlVars, doing, nap, size, holding, faults>>

(* remove_task() *)
RemoveTask(n) ==
  /\ LoopFree
  /\ n \in DOMAIN table
  /\ table' = Restrict(table, DOMAIN table \ {n})
  /\ unmarked' = [unmarked EXCEPT ![n] = 0]
  /\ UNCHANGED <<broker, time, edits, controlVars, roundVars, faults>>

-----------------------------------------------------------------------------
Alive(l) == doing[l] \notin {"none", "over"}

NextLoop(l) == doing[l] = "none" /\ \A k \in 1..(l - 1) : doing[k] # "none"

StartUnchecked(l) ==          \* mutated: _running is not looked at
  /\ LoopFree
  /\ NextLoop(l)
  /\ running' = TRUE
  /\ current' = l
  /\ doing' = [doing EXCEPT ![l] = "created"]
  /\ UNCHANGED <<broker, time, tableVars, cancelled, awaited, managerStopped,
                 nap, visited, size, holding, faults>>

(* start(), which does nothing while _running. *)
Start(l) ==
  /\ LoopFree
  /\ NextLoop(l)
  /\ ~running
  /\ running' = TRUE
  /\ current' = l
  /\ doing' = [doing EXCEPT ![l] = "created"]
  /\ UNCHANGED <<broker, time, tableVars, cancelled, awaited, managerStopped,
                 nap, visited, size, holding, faults>>

StopWithoutCancel ==          \* mutated: the loop is left to see _running itself
  /\ LoopFree
  /\ running
  /\ running' = FALSE
  /\ UNCHANGED <<broker, time, tableVars, current, cancelled, awaited,
                 managerStopped, roundVars, faults>>

(* stop() cancels the loop and waits for its end; meanwhile start() may    *)
(* come and put another loop in its place.                                 *)
Stop ==
  /\ LoopFree
  /\ running
  /\ running' = FALSE
  /\ cancelled' = cancelled \cup ({current} \cap {l \in Loops : Alive(l)})
  /\ awaited' = awaited \cup {current}
  /\ UNCHANGED <<broker, time, tableVars, current, managerStopped, roundVars, faults>>

StopReturns(l) ==
  /\ LoopFree
  /\ l \in awaited
  /\ doing[l] = "over"
  /\ awaited' = awaited \ {l}
  /\ UNCHANGED <<broker, time, tableVars, running, current, cancelled,
                 managerStopped, roundVars, faults>>

(* The manager's stop() cancels every task of the loop, the scheduler's    *)
(* and the calls of stop() among them.  _running stays as it is.           *)
StopManager ==
  /\ LoopFree
  /\ ~managerStopped
  /\ managerStopped' = TRUE
  /\ cancelled' = cancelled \cup {l \in Loops : Alive(l)}
  /\ awaited' = {}
  /\ UNCHANGED <<broker, time, tableVars, running, current, roundVars, faults>>

-----------------------------------------------------------------------------
Ready(l) ==
  \/ doing[l] = "created"
  \/ doing[l] \in {"asleep", "resting"} /\ nap[l] = 0

(* The loop begins a round ... *)
Round(l) ==
  /\ LoopFree
  /\ Ready(l)
  /\ l \notin cancelled
  /\ running
  /\ doing' = [doing EXCEPT ![l] = "round"]
  /\ visited' = [visited EXCEPT ![l] = {}]
  /\ size' = [size EXCEPT ![l] = Cardinality(DOMAIN table)]
  /\ UNCHANGED <<broker, time, tableVars, controlVars, nap, holding, faults>>

(* ... or ends: it is cancelled, or finds _running reset. *)
End(l) ==
  /\ LoopFree
  /\ Alive(l)
  /\ l \in cancelled \/ (Ready(l) /\ ~running)
  /\ doing' = [doing EXCEPT ![l] = "over"]
  /\ holding' = [holding EXCEPT ![l] = None]
  /\ visited' = [visited EXCEPT ![l] = {}]
  /\ nap' = [nap EXCEPT ![l] = 0]
  /\ size' = [size EXCEPT ![l] = 0]
  /\ UNCHANGED <<broker, time, tableVars, controlVars, faults>>

Intact(l) == Cardinality(DOMAIN table) = size[l]

(* The next task of the table, in whatever order they were added. *)
Visits(l, n) ==
  /\ doing[l] = "round"
  /\ Intact(l)
  /\ n \in DOMAIN table \ visited[l]

Seen(l, n) == visited' = [visited EXCEPT ![l] = @ \cup {n}]

(* A task that is not due, has no delay(), or whose delay() raises: it is  *)
(* logged, and tried again in the next round.                              *)
PassOver(l, n) ==
  /\ Visits(l, n)
  /\ ~IsDue(n) \/ ~table[n].able \/ broker = "amqp"
  /\ Seen(l, n)
  /\ UNCHANGED <<broker, time, tableVars, controlVars, doing, nap, size, holding, faults>>

NoMark(n) ==                  \* mutated: the run is not marked
  UNCHANGED table

(* mark_run() *)
Mark(n) == table' = [table EXCEPT ![n].since = 0, ![n].thisMinute = TRUE]

(* With a broker in memory the task is queued and marked at once. *)
Execute(l, n) ==
  /\ broker = "memory"
  /\ Visits(l, n)
  /\ IsDue(n)
  /\ table[n].able
  /\ Mark(n)
  /\ unmarked' = [unmarked EXCEPT ![n] = IF table'[n].since = 0 THEN 0 ELSE @ + 1]
  /\ Seen(l, n)
  /\ UNCHANGED <<broker, time, edits, controlVars, doing, nap, size, holding, faults>>

Send(l, n) ==
  /\ broker = "redis"
  /\ Visits(l, n)
  /\ IsDue(n)
  /\ table[n].able
  /\ doing' = [doing EXCEPT ![l] = "sending"]
  /\ holding' = [holding EXCEPT ![l] = <<n, table[n].edit>>]
  /\ Seen(l, n)
  /\ UNCHANGED <<broker, time, tableVars, controlVars, nap, size, faults>>

(* The task the loop holds is still the one of the table. *)
Holds(l) ==
  /\ holding[l] # None
  /\ holding[l][1] \in DOMAIN table
  /\ table[holding[l][1]].edit = holding[l][2]

Land(l) ==
  /\ LoopFree
  /\ doing[l] = "sending"
  /\ doing' = [doing EXCEPT ![l] = "landed"]
  /\ unmarked' = IF Holds(l) THEN [unmarked EXCEPT ![holding[l][1]] = @ + 1] ELSE unmarked
  /\ UNCHANGED <<broker, time, table, edits, controlVars, nap, visited, size, holding, faults>>

(* The connection fails: logged, and tried again in the next round. *)
SendFails(l) ==
  /\ LoopFree
  /\ doing[l] = "sending"
  /\ l \notin cancelled
  /\ faults < MaxFaults
  /\ faults' = faults + 1
  /\ doing' = [doing EXCEPT ![l] = "round"]
  /\ holding' = [holding EXCEPT ![l] = None]
  /\ UNCHANGED <<broker, time, tableVars, controlVars, nap, visited, size>>

(* The loop goes on after delay(): the PeriodicTask it holds is marked,    *)
(* which is of no use when the table has another one by now.               *)
Resume(l) ==
  /\ LoopFree
  /\ doing[l] = "landed"
  /\ l \notin cancelled
  /\ IF Holds(l)
       THEN /\ Mark(holding[l][1])
            /\ unmarked' = IF table'[holding[l][1]].since = 0
                             THEN [unmarked EXCEPT ![holding[l][1]] = 0] ELSE unmarked
       ELSE UNCHANGED <<table, unmarked>>
  /\ doing' = [doing EXCEPT ![l] = "round"]
  /\ holding' = [holding EXCEPT ![l] = None]
  /\ UNCHANGED <<broker, time, edits, controlVars, nap, visited, size, faults>>

(* The round is over: sleep(1). *)
Sleep(l) ==
  /\ doing[l] = "round"
  /\ Intact(l)
  /\ DOMAIN table \subseteq visited[l]
  /\ doing' = [doing EXCEPT ![l] = "asleep"]
  /\ nap' = [nap EXCEPT ![l] = 1]
  /\ visited' = [visited EXCEPT ![l] = {}]
  /\ size' = [size EXCEPT ![l] = 0]
  /\ UNCHANGED <<broker, time, tableVars, controlVars, holding, faults>>

BrokenEnds(l) ==              \* mutated: the error ends the loop
  /\ doing[l] = "round"
  /\ ~Intact(l)
  /\ doing' = [doing EXCEPT ![l] = "over"]
  /\ visited' = [visited EXCEPT ![l] = {}]
  /\ UNCHANGED <<broker, time, tableVars, controlVars, nap, size, holding, faults>>

(* The table has changed size under the iteration: RuntimeError, sleep(5). *)
Broken(l) ==
  /\ doing[l] = "round"
  /\ ~Intact(l)
  /\ doing' = [doing EXCEPT ![l] = "resting"]
  /\ nap' = [nap EXCEPT ![l] = RestTicks]
  /\ visited' = [visited EXCEPT ![l] = {}]
  /\ size' = [size EXCEPT ![l] = 0]
  /\ UNCHANGED <<broker, time, tableVars, controlVars, holding, faults>>

(* Ages beyond the interval are all the same to it. *)
Older(n) ==
  LET t == table[n]
      most == IF ScheduleOf[n].kind = "interval" THEN ScheduleOf[n].every ELSE 0
  IN  [t EXCEPT !.since = IF @ = None \/ @ >= most THEN @ ELSE @ + 1,
                !.thisMinute = @ /\ (time + 1) % MinuteTicks # 0]

Tick ==
  /\ LoopFree
  /\ \A l \in Loops : ~Ready(l) /\ ~(Alive(l) /\ l \in cancelled)
  /\ time' = (time + 1) % (MinuteTicks * (LastMinute + 1))
  /\ table' = [n \in DOMAIN table |-> Older(n)]
  /\ nap' = [l \in Loops |-> IF nap[l] > 0 THEN nap[l] - 1 ELSE 0]
  /\ UNCHANGED <<broker, edits, unmarked, controlVars, doing, visited, size, holding, faults>>

LoopStep(l) ==
  \/ Round(l) \/ End(l) \/ Land(l) \/ SendFails(l) \/ Resume(l) \/ Sleep(l) \/ Broken(l)
  \/ \E n \in Names : PassOver(l, n) \/ Execute(l, n) \/ Send(l, n)

Next ==
  \/ \E n \in Names :
       AddTask(n, TRUE, TRUE) \/ AddTask(n, TRUE, FALSE) \/ AddTask(n, FALSE, TRUE)
  \/ \E n \in Names : RemoveTask(n)
  \/ \E l \in Loops : Start(l) \/ StopReturns(l) \/ LoopStep(l)
  \/ Stop \/ StopManager \/ Tick

Spec == Init /\ [][Next]_vars

(* Time goes on, the event loop runs what is ready and Redis answers.      *)
Fairness ==
  /\ WF_vars(Tick)
  /\ \A l \in Loops : WF_vars(LoopStep(l)) /\ WF_vars(StopReturns(l))

FairSpec == Spec /\ Fairness

-----------------------------------------------------------------------------
(* There is one loop at most that has not been cancelled, also when it is  *)
(* started again while a stop() waits for the old one (start, stop).       *)
OneLoop == \A l, k \in Loops : Alive(l) /\ Alive(k) => l = k \/ {l, k} \cap cancelled # {}

(* Unless the manager has been stopped, _running tells the truth: there is *)
(* a loop that goes on exactly while it is set (start, stop).              *)
RunningIsTrue ==
  ~managerStopped => (running <=> \E l \in Loops : Alive(l) /\ l \notin cancelled)

(* When every stop() has returned and nobody has started again, no loop is *)
(* left that could queue a task (stop).                                    *)
StoppedIsQuiet ==
  ~managerStopped /\ ~running /\ awaited = {} => \A l \in Loops : ~Alive(l)

(* A task is queued once each time it is due: between two mark_run() only  *)
(* a loop that was cancelled on its way to Redis can queue it once more    *)
(* (_execute_task, is_due).                                                *)
QueuedOncePerDue == \A n \in Names : unmarked[n] <= 1 + Cardinality(cancelled)

Scheduled(n) ==
  /\ running
  /\ ~managerStopped
  /\ broker # "amqp"
  /\ n \in DOMAIN table
  /\ table[n].enabled
  /\ table[n].able
  /\ ScheduleOf[n].kind = "cron" => broker = "memory"

HasRun(n) ==
  /\ n \in DOMAIN table
  /\ IF ScheduleOf[n].kind = "interval" THEN table[n].since = 0 ELSE table[n].thisMinute

(* While the scheduler runs, a task of the table is queued again and again *)
(* whatever was added, removed, or failed around it (_run_scheduler).  The *)
(* minute of a cron task may go by while another is on its way to Redis.   *)
KeepsRunning == \A n \in Names : <>[]Scheduled(n) => []<>HasRun(n)
=============================================================================
