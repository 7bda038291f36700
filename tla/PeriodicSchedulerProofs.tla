---------------------- MODULE PeriodicSchedulerProofs ----------------------
(***************************************************************************)
(* Theorems about PeriodicScheduler, for any tasks, schedules and calls of *)
(* start() and stop(): type correctness, that one loop at most goes on,    *)
(* that _running tells whether one does, that a stop() leaves none behind, *)
(* and how often a task can be queued for one due time.                    *)
(***************************************************************************)
EXTENDS PeriodicScheduler, FiniteSetTheorems, TLAPS

(* A loop that nobody has cancelled is the current one, and _running. *)
LiveIsCurrent ==
  \A l \in Loops : Alive(l) /\ l \notin cancelled => running /\ l = current

(* While _running there is a current loop, which has been started, and     *)
(* goes on unless the manager has been stopped.                            *)
CurrentLives ==
  running => /\ current \in Loops /\ doing[current] # "none"
             /\ ~managerStopped => Alive(current) /\ current \notin cancelled

(* No loop is cancelled or awaited before it is there. *)
Begun == \A l \in cancelled \cup awaited : l \in Loops /\ doing[l] # "none"

(* A loop ends only by being cancelled: the other way out, on finding      *)
(* _running reset, is never taken.                                         *)
OverIsCancelled == \A l \in Loops : doing[l] = "over" => l \in cancelled

(* Who cancels a loop waits for it. *)
CancelledIsAwaited ==
  ~managerStopped => \A l \in Loops : Alive(l) /\ l \in cancelled => l \in awaited

Control ==
  /\ LiveIsCurrent /\ CurrentLives /\ Begun
  /\ OverIsCancelled /\ CancelledIsAwaited

(* The loops that may have queued n since its last mark_run() and will not *)
(* queue it again before the next one.                                     *)
Spent(n) ==
  {l \in Loops :
     \/ doing[l] = "over"
     \/ doing[l] = "landed" /\ Holds(l) /\ holding[l][1] = n}

QueuedBySpent == \A n \in Names : unmarked[n] <= Cardinality(Spent(n))

IInv == TypeOK /\ IsFiniteSet(DOMAIN table) /\ Control /\ QueuedBySpent

-----------------------------------------------------------------------------
(* A step that starts, ends, cancels and awaits nobody. *)
LEMMA ControlKept ==
  ASSUME Control, UNCHANGED controlVars,
         \A l \in Loops : doing'[l] = doing[l] \/ (Alive(l) /\ Alive(l)')
  PROVE  Control'
<1> USE DEF Control, controlVars
<1>1. \A l \in Loops : /\ Alive(l)' <=> Alive(l)
                       /\ doing'[l] = "over" <=> doing[l] = "over"
                       /\ doing'[l] = "none" <=> doing[l] = "none"
  BY DEF Alive
<1>2. LiveIsCurrent' /\ CurrentLives'
  BY <1>1 DEF LiveIsCurrent, CurrentLives
<1>3. Begun' /\ OverIsCancelled' /\ CancelledIsAwaited'
  BY <1>1 DEF Begun, OverIsCancelled, CancelledIsAwaited
<1> QED BY <1>2, <1>3

(* There are finitely many loops. *)
LEMMA LoopsCount ==
  ASSUME NEW n
  PROVE  /\ IsFiniteSet(Spent(n)) /\ IsFiniteSet(Spent(n)')
         /\ Cardinality(Spent(n)) \in Nat /\ Cardinality(Spent(n)') \in Nat
<1>1. IsFiniteSet(Loops)
  BY ConstantsOK, FS_Interval DEF Loops, ConstantsOK
<1>2. Spent(n) \in SUBSET Loops /\ Spent(n)' \in SUBSET Loops
  BY DEF Spent
<1> QED BY <1>1, <1>2, FS_Subset, FS_CardinalityType

(* A task that is not queued stays accounted for. *)
LEMMA StaysSpent ==
  ASSUME NEW n \in Names, unmarked \in [Names -> Nat],
         unmarked[n] <= Cardinality(Spent(n)),
         unmarked'[n] = 0 \/ (unmarked'[n] = unmarked[n] /\ Spent(n) \subseteq Spent(n)')
  PROVE  unmarked'[n] <= Cardinality(Spent(n)')
<1>1. CASE unmarked'[n] = 0
  BY <1>1, LoopsCount
<1>2. CASE unmarked'[n] = unmarked[n] /\ Spent(n) \subseteq Spent(n)'
  <2>1. Cardinality(Spent(n)) <= Cardinality(Spent(n)')
    BY <1>2, LoopsCount, FS_Subset
  <2> QED BY <1>2, <2>1, LoopsCount
<1> QED BY <1>1, <1>2

(* Whatever a step does to the table, a task in it keeps its edit unless   *)
(* it is another one.                                                      *)
LEMMA SpentKept ==
  ASSUME IInv, unmarked' = unmarked, holding' = holding,
         \A n \in DOMAIN table : n \in DOMAIN table' /\ table'[n].edit = table[n].edit,
         \A l \in Loops :
           doing[l] \in {"over", "landed"} => doing'[l] = doing[l]
  PROVE  QueuedBySpent'
<1> SUFFICES ASSUME NEW n \in Names
             PROVE  unmarked'[n] <= Cardinality(Spent(n)')
  BY DEF QueuedBySpent
<1>1. Spent(n) \subseteq Spent(n)'
  BY DEF Spent, Holds
<1> QED BY <1>1, StaysSpent DEF IInv, TypeOK, QueuedBySpent
-----------------------------------------------------------------------------
(* Types. *)

(* A clock hand stays on the dial. *)
LEMMA Dial ==
  ASSUME NEW a \in Nat \ {0}, NEW b \in Nat, NEW t \in Nat
  PROVE  (t + 1) % (a * (b + 1)) \in 0..(a * (b + 1) - 1)
<1>1. a * (b + 1) = a * b + a /\ a * b \in Nat
  OBVIOUS
<1> DEFINE k == a * (b + 1)
<1>2. k \in Nat \ {0}
  BY <1>1
<1> HIDE DEF k
<1>3. (t + 1) % k \in 0..(k - 1)
  BY <1>2
<1> QED BY <1>3 DEF k

LEMMA InitTypeOK == ASSUME Init PROVE TypeOK
<1> USE ConstantsOK DEF ConstantsOK
<1>1. time \in 0..(MinuteTicks * (LastMinute + 1) - 1)
  <2>1. MinuteTicks * (LastMinute + 1) = MinuteTicks * LastMinute + MinuteTicks
        /\ MinuteTicks * LastMinute \in Nat
    OBVIOUS
  <2> QED BY <2>1 DEF Init
<1>2. table \in [DOMAIN table -> Tasks] /\ DOMAIN table = {}
  BY DEF Init
<1>3. running \in BOOLEAN /\ managerStopped \in BOOLEAN
  BY Zenon DEF Init
<1> QED BY <1>1, <1>2, <1>3 DEF Init, TypeOK, States

(* A task that is marked, or older, is still a task. *)
LEMMA MarkFacts ==
  ASSUME TypeOK, NEW n \in DOMAIN table, Mark(n)
  PROVE  /\ DOMAIN table' = DOMAIN table
         /\ table' \in [DOMAIN table' -> Tasks]
         /\ \A m \in DOMAIN table : table'[m].edit = table[m].edit
         /\ table'[n].since = 0
<1>1. /\ table' = [m \in DOMAIN table |->
                     IF m = n THEN [table[n] EXCEPT !.since = 0, !.thisMinute = TRUE]
                     ELSE table[m]]
      /\ \A m \in DOMAIN table : table[m] \in Tasks
  BY DEF Mark, TypeOK
<1>2. /\ [table[n] EXCEPT !.since = 0, !.thisMinute = TRUE] \in Tasks
      /\ [table[n] EXCEPT !.since = 0, !.thisMinute = TRUE].edit = table[n].edit
      /\ [table[n] EXCEPT !.since = 0, !.thisMinute = TRUE].since = 0
  BY <1>1 DEF Tasks
<1> QED BY <1>1, <1>2

LEMMA OlderFacts ==
  ASSUME TypeOK, NEW n \in DOMAIN table
  PROVE  Older(n) \in Tasks /\ Older(n).edit = table[n].edit
<1>1. table[n] \in Tasks
  BY DEF TypeOK
<1> DEFINE most == IF ScheduleOf[n].kind = "interval" THEN ScheduleOf[n].every ELSE 0
           since == IF table[n].since = None \/ table[n].since >= most
                      THEN table[n].since ELSE table[n].since + 1
           minute == table[n].thisMinute /\ (time + 1) % MinuteTicks # 0
<1>2. since \in Nat \cup {None} /\ minute \in BOOLEAN
  BY <1>1 DEF Tasks
<1>3. Older(n) = [table[n] EXCEPT !.since = since, !.thisMinute = minute]
  BY DEF Older
<1> HIDE DEF since, minute
<1> QED BY <1>1, <1>2, <1>3 DEF Tasks

(* Every action keeps the types. *)
LEMMA TypeStep ==
  ASSUME TypeOK, IsFiniteSet(DOMAIN table), CurrentLives, [Next]_vars
  PROVE  TypeOK' /\ IsFiniteSet(DOMAIN table')
<1> USE ConstantsOK DEF ConstantsOK, TypeOK, States, tableVars, controlVars, roundVars
<1>1. ASSUME NEW n \in Names, NEW e \in BOOLEAN, NEW a \in BOOLEAN, AddTask(n, e, a)
      PROVE  TypeOK' /\ IsFiniteSet(DOMAIN table')
  <2>1. NewTask(e, a) \in Tasks
    BY DEF NewTask, Tasks
  <2>2. DOMAIN table' = DOMAIN table \cup {n} /\ table' \in [DOMAIN table' -> Tasks]
    BY <1>1, <2>1 DEF AddTask
  <2>3. IsFiniteSet(DOMAIN table')
    BY <2>2, FS_AddElement
  <2>4. visited' \in [Loops -> SUBSET Names] /\ edits' \in 0..MaxEdits
    BY <1>1 DEF AddTask
  <2> QED BY <1>1, <2>2, <2>3, <2>4 DEF AddTask
<1>2. ASSUME NEW n \in Names, RemoveTask(n)
      PROVE  TypeOK' /\ IsFiniteSet(DOMAIN table')
  <2>1. table' = [m \in DOMAIN table \ {n} |-> table[m]]
    BY <1>2 DEF RemoveTask, Restrict
  <2>2. DOMAIN table' = DOMAIN table \ {n} /\ table' \in [DOMAIN table' -> Tasks]
    BY <2>1
  <2>3. IsFiniteSet(DOMAIN table')
    BY <2>2, FS_Subset
  <2> QED BY <1>2, <2>2, <2>3 DEF RemoveTask
<1>3. ASSUME NEW l \in Loops, Start(l)
      PROVE  TypeOK' /\ IsFiniteSet(DOMAIN table')
  <2>1. running' \in BOOLEAN
    BY <1>3, Zenon DEF Start
  <2> QED BY <1>3, <2>1 DEF Start
<1>4. ASSUME NEW l \in Loops, StopReturns(l)
      PROVE  TypeOK' /\ IsFiniteSet(DOMAIN table')
  BY <1>4 DEF StopReturns
<1>5. ASSUME NEW l \in Loops, Round(l)
      PROVE  TypeOK' /\ IsFiniteSet(DOMAIN table')
  BY <1>5, FS_CardinalityType DEF Round
<1>6. ASSUME NEW l \in Loops, End(l)
      PROVE  TypeOK' /\ IsFiniteSet(DOMAIN table')
  BY <1>6 DEF End
<1>7. ASSUME NEW l \in Loops, Land(l)
      PROVE  TypeOK' /\ IsFiniteSet(DOMAIN table')
  <2>1. CASE Holds(l)
    <3>1. holding[l][1] \in Names
      BY <2>1 DEF Holds
    <3>2. unmarked' \in [Names -> Nat]
      BY <1>7, <2>1, <3>1 DEF Land
    <3> QED BY <1>7, <3>2 DEF Land
  <2>2. CASE ~Holds(l)
    BY <1>7, <2>2 DEF Land
  <2> QED BY <2>1, <2>2
<1>8. ASSUME NEW l \in Loops, SendFails(l)
      PROVE  TypeOK' /\ IsFiniteSet(DOMAIN table')
  BY <1>8 DEF SendFails
<1>9. ASSUME NEW l \in Loops, Resume(l)
      PROVE  TypeOK' /\ IsFiniteSet(DOMAIN table')
  <2>1. CASE Holds(l)
    BY <1>9, <2>1, MarkFacts DEF Resume, Holds
  <2>2. CASE ~Holds(l)
    BY <1>9, <2>2 DEF Resume
  <2> QED BY <2>1, <2>2
<1>10. ASSUME NEW l \in Loops, Sleep(l) \/ Broken(l)
       PROVE  TypeOK' /\ IsFiniteSet(DOMAIN table')
  BY <1>10 DEF Sleep, Broken
<1>11. ASSUME NEW l \in Loops, NEW n \in Names, PassOver(l, n)
       PROVE  TypeOK' /\ IsFiniteSet(DOMAIN table')
  BY <1>11 DEF PassOver, Seen
<1>12. ASSUME NEW l \in Loops, NEW n \in Names, Execute(l, n)
       PROVE  TypeOK' /\ IsFiniteSet(DOMAIN table')
  <2>1. n \in DOMAIN table
    BY <1>12 DEF Execute, Visits
  <2> QED BY <1>12, <2>1, MarkFacts DEF Execute, Seen
<1>13. ASSUME NEW l \in Loops, NEW n \in Names, Send(l, n)
       PROVE  TypeOK' /\ IsFiniteSet(DOMAIN table')
  <2>1. table[n] \in Tasks
    BY <1>13 DEF Send, Visits
  <2>2. <<n, table[n].edit>> \in (Names \X Nat) \cup {None}
    BY <2>1 DEF Tasks
  <2> QED BY <1>13, <2>2 DEF Send, Seen
<1>14. CASE Stop
  <2>1. running' \in BOOLEAN
    BY <1>14, Zenon DEF Stop
  <2>2. current \in Loops
    BY <1>14 DEF Stop, CurrentLives
  <2> QED BY <1>14, <2>1, <2>2 DEF Stop
<1>15. CASE StopManager
  <2>1. managerStopped' \in BOOLEAN
    BY <1>15, Zenon DEF StopManager
  <2> QED BY <1>15, <2>1 DEF StopManager
<1>16. CASE Tick
  <2>1. time' \in 0..(MinuteTicks * (LastMinute + 1) - 1)
    BY <1>16, Dial DEF Tick
  <2>2. DOMAIN table' = DOMAIN table /\ table' \in [DOMAIN table' -> Tasks]
    BY <1>16, OlderFacts DEF Tick
  <2>3. nap' \in [Loops -> 0..(RestTicks + 1)]
    BY <1>16 DEF Tick
  <2> QED BY <1>16, <2>1, <2>2, <2>3 DEF Tick
<1>17. CASE UNCHANGED vars
  BY <1>17 DEF vars
<1> QED
  BY <1>1, <1>2, <1>3, <1>4, <1>5, <1>6, <1>7, <1>8, <1>9, <1>10, <1>11, <1>12,
     <1>13, <1>14, <1>15, <1>16, <1>17 DEF Next, LoopStep
-----------------------------------------------------------------------------
(* The actions that start, end, cancel or await a loop. *)

LEMMA StartKeeps ==
  ASSUME IInv, NEW l \in Loops, Start(l)
  PROVE  Control' /\ QueuedBySpent'
<1> USE DEF IInv
<1>1. /\ ~running /\ doing[l] = "none" /\ current' = l /\ running'
      /\ doing' = [doing EXCEPT ![l] = "created"]
      /\ UNCHANGED <<table, unmarked, holding, cancelled, awaited, managerStopped>>
  BY DEF Start, NextLoop, tableVars
<1>2. /\ \A k \in Loops \ {l} : doing'[k] = doing[k]
      /\ doing'[l] = "created"
      /\ l \notin cancelled \cup awaited
  BY <1>1 DEF TypeOK, Control, Begun
<1>3. LiveIsCurrent' /\ CurrentLives'
  BY <1>1, <1>2 DEF Control, LiveIsCurrent, CurrentLives, Alive
<1>4. Begun' /\ OverIsCancelled' /\ CancelledIsAwaited'
  BY <1>1, <1>2 DEF Control, Begun, OverIsCancelled, CancelledIsAwaited, Alive
<1>5. QueuedBySpent'
  BY <1>1, <1>2, SpentKept
<1> QED BY <1>3, <1>4, <1>5 DEF Control

LEMMA StopKeeps ==
  ASSUME IInv, Stop
  PROVE  Control' /\ QueuedBySpent'
<1> USE DEF IInv
<1>1. /\ running /\ ~running' /\ current' = current /\ current \in Loops
      /\ cancelled' = cancelled \cup ({current} \cap {l \in Loops : Alive(l)})
      /\ awaited' = awaited \cup {current}
      /\ UNCHANGED <<table, unmarked, doing, holding, managerStopped>>
  BY DEF Stop, tableVars, roundVars, Control, CurrentLives
<1>2. doing[current] # "none"
  BY <1>1 DEF Control, CurrentLives, Begun, LiveIsCurrent, Alive
<1>3. Control'
  BY <1>1, <1>2 DEF Control, LiveIsCurrent, CurrentLives, Begun, OverIsCancelled,
     CancelledIsAwaited, Alive
<1> QED BY <1>1, <1>3, SpentKept

LEMMA StopReturnsKeeps ==
  ASSUME IInv, NEW l \in Loops, StopReturns(l)
  PROVE  Control' /\ QueuedBySpent'
<1> USE DEF IInv
<1>1. /\ doing[l] = "over" /\ awaited' = awaited \ {l}
      /\ UNCHANGED <<table, unmarked, doing, holding, running, current, cancelled,
                     managerStopped>>
  BY DEF StopReturns, tableVars, roundVars
<1>2. Control'
  BY <1>1 DEF Control, LiveIsCurrent, CurrentLives, Begun, OverIsCancelled,
     CancelledIsAwaited, Alive
<1> QED BY <1>1, <1>2, SpentKept

LEMMA StopManagerKeeps ==
  ASSUME IInv, StopManager
  PROVE  Control' /\ QueuedBySpent'
<1> USE DEF IInv
<1>1. /\ managerStopped' /\ awaited' = {}
      /\ cancelled' = cancelled \cup {l \in Loops : Alive(l)}
      /\ UNCHANGED <<table, unmarked, doing, holding, running, current>>
  BY DEF StopManager, tableVars, roundVars
<1>2. Control'
  BY <1>1 DEF Control, LiveIsCurrent, CurrentLives, Begun, OverIsCancelled,
     CancelledIsAwaited, Alive
<1> QED BY <1>1, <1>2, SpentKept

(* Only a loop that was cancelled ends. *)
LEMMA EndKeeps ==
  ASSUME IInv, NEW l \in Loops, End(l)
  PROVE  Control' /\ QueuedBySpent'
<1> USE DEF IInv
<1>1. /\ Alive(l) /\ l \in cancelled
      /\ doing' = [doing EXCEPT ![l] = "over"]
      /\ holding' = [holding EXCEPT ![l] = None]
      /\ UNCHANGED <<table, unmarked, controlVars>>
  BY DEF End, Control, LiveIsCurrent, tableVars
<1>2. /\ \A k \in Loops \ {l} : doing'[k] = doing[k] /\ holding'[k] = holding[k]
      /\ doing'[l] = "over"
  BY <1>1 DEF TypeOK
<1>3. Control'
  BY <1>1, <1>2 DEF Control, LiveIsCurrent, CurrentLives, Begun, OverIsCancelled,
     CancelledIsAwaited, Alive, controlVars
<1>4. \A n \in Names : Spent(n) \subseteq Spent(n)'
  BY <1>1, <1>2 DEF Spent, Holds
<1>5. QueuedBySpent'
  BY <1>1, <1>4, StaysSpent DEF TypeOK, QueuedBySpent
<1> QED BY <1>3, <1>5

-----------------------------------------------------------------------------
(* The actions that edit the table, queue a task or mark it. *)

LEMMA AddKeeps ==
  ASSUME IInv, NEW n \in Names, NEW e, NEW a, AddTask(n, e, a)
  PROVE  Control' /\ QueuedBySpent'
<1> USE DEF IInv
<1>1. /\ UNCHANGED <<controlVars, doing, holding>>
      /\ unmarked' = [unmarked EXCEPT ![n] = 0]
      /\ \A m \in DOMAIN table \ {n} : m \in DOMAIN table' /\ table'[m] = table[m]
  BY DEF AddTask
<1>2. Control'
  BY <1>1, ControlKept
<1>3. \A m \in Names \ {n} : Spent(m) \subseteq Spent(m)' /\ unmarked'[m] = unmarked[m]
  BY <1>1 DEF Spent, Holds, TypeOK
<1>4. unmarked'[n] = 0
  BY <1>1 DEF TypeOK
<1>5. QueuedBySpent'
  BY <1>3, <1>4, StaysSpent DEF TypeOK, QueuedBySpent
<1> QED BY <1>2, <1>5

LEMMA RemoveKeeps ==
  ASSUME IInv, NEW n \in Names, RemoveTask(n)
  PROVE  Control' /\ QueuedBySpent'
<1> USE DEF IInv
<1>1. /\ UNCHANGED <<controlVars, doing, holding>>
      /\ unmarked' = [unmarked EXCEPT ![n] = 0]
      /\ \A m \in DOMAIN table \ {n} : m \in DOMAIN table' /\ table'[m] = table[m]
  BY DEF RemoveTask, Restrict, roundVars
<1>2. Control'
  BY <1>1, ControlKept
<1>3. \A m \in Names \ {n} : Spent(m) \subseteq Spent(m)' /\ unmarked'[m] = unmarked[m]
  BY <1>1 DEF Spent, Holds, TypeOK
<1>4. unmarked'[n] = 0
  BY <1>1 DEF TypeOK
<1>5. QueuedBySpent'
  BY <1>3, <1>4, StaysSpent DEF TypeOK, QueuedBySpent
<1> QED BY <1>2, <1>5

(* With a broker in memory a task is queued and marked at once. *)
LEMMA ExecuteKeeps ==
  ASSUME IInv, NEW l \in Loops, NEW n \in Names, Execute(l, n)
  PROVE  Control' /\ QueuedBySpent'
<1> USE DEF IInv
<1>1. n \in DOMAIN table /\ Mark(n) /\ UNCHANGED <<controlVars, doing, holding>>
  BY DEF Execute, Visits
<1>2. /\ DOMAIN table' = DOMAIN table
      /\ \A m \in DOMAIN table : table'[m].edit = table[m].edit
      /\ table'[n].since = 0
  BY <1>1, MarkFacts
<1>3. /\ unmarked'[n] = 0
      /\ \A m \in Names \ {n} : unmarked'[m] = unmarked[m]
  BY <1>2 DEF Execute, TypeOK
<1>4. \A m \in Names : Spent(m) \subseteq Spent(m)'
  BY <1>1, <1>2 DEF Spent, Holds
<1>5. QueuedBySpent'
  BY <1>3, <1>4, StaysSpent DEF TypeOK, QueuedBySpent
<1>6. Control'
  BY <1>1, ControlKept
<1> QED BY <1>5, <1>6

(* A task that gets to Redis is queued by a loop that joins the spent.     *)
LEMMA LandKeeps ==
  ASSUME IInv, NEW l \in Loops, Land(l)
  PROVE  Control' /\ QueuedBySpent'
<1> USE DEF IInv
<1>1. /\ doing[l] = "sending" /\ doing' = [doing EXCEPT ![l] = "landed"]
      /\ unmarked' = IF Holds(l) THEN [unmarked EXCEPT ![holding[l][1]] = @ + 1]
                     ELSE unmarked
      /\ UNCHANGED <<table, controlVars, holding>>
  BY DEF Land
<1>2. /\ \A k \in Loops \ {l} : doing'[k] = doing[k]
      /\ doing'[l] = "landed"
  BY <1>1 DEF TypeOK
<1>3. Control'
  BY <1>1, <1>2, ControlKept DEF Alive
<1>4. \A n \in Names : Spent(n) \subseteq Spent(n)'
  BY <1>1, <1>2 DEF Spent, Holds
<1>5. ASSUME NEW n \in Names, Holds(l), holding[l][1] = n
      PROVE  unmarked'[n] <= Cardinality(Spent(n)')
  <2>1. unmarked'[n] = unmarked[n] + 1 /\ unmarked[n] \in Nat
    BY <1>1, <1>5 DEF TypeOK
  <2>2. l \notin Spent(n)
    BY <1>1 DEF Spent
  <2>3. Cardinality(Spent(n) \cup {l}) = Cardinality(Spent(n)) + 1
    BY <2>2, LoopsCount, FS_AddElement
  <2>4. Spent(n) \cup {l} \subseteq Spent(n)'
    BY <1>1, <1>2, <1>4, <1>5 DEF Spent, Holds
  <2>5. Cardinality(Spent(n) \cup {l}) <= Cardinality(Spent(n)')
    BY <2>4, LoopsCount, FS_Subset
  <2> QED BY <2>1, <2>3, <2>5, LoopsCount DEF QueuedBySpent
<1>6. ASSUME NEW n \in Names, ~(Holds(l) /\ holding[l][1] = n)
      PROVE  unmarked'[n] = unmarked[n]
  BY <1>1, <1>6 DEF TypeOK
<1>7. QueuedBySpent'
  BY <1>4, <1>5, <1>6, StaysSpent DEF TypeOK, QueuedBySpent
<1> QED BY <1>3, <1>7

(* A loop that marks its task has nothing left to answer for. *)
LEMMA ResumeKeeps ==
  ASSUME IInv, NEW l \in Loops, Resume(l)
  PROVE  Control' /\ QueuedBySpent'
<1> USE DEF IInv
<1>1. /\ doing[l] = "landed" /\ doing' = [doing EXCEPT ![l] = "round"]
      /\ holding' = [holding EXCEPT ![l] = None]
      /\ UNCHANGED controlVars
  BY DEF Resume
<1>2. /\ \A k \in Loops \ {l} : doing'[k] = doing[k] /\ holding'[k] = holding[k]
      /\ doing'[l] = "round"
  BY <1>1 DEF TypeOK
<1>3. Control'
  BY <1>1, <1>2, ControlKept DEF Alive
<1>4. CASE Holds(l)
  <2> DEFINE n == holding[l][1]
  <2>1. n \in DOMAIN table /\ n \in Names /\ Mark(n)
    BY <1>4 DEF Holds, Resume, TypeOK
  <2>2. /\ DOMAIN table' = DOMAIN table
        /\ \A m \in DOMAIN table : table'[m].edit = table[m].edit
        /\ table'[n].since = 0
    BY <2>1, MarkFacts
  <2>3. unmarked' = [unmarked EXCEPT ![n] = 0]
    BY <1>4, <2>2 DEF Resume
  <2>4. \A m \in Names \ {n} : Spent(m) \subseteq Spent(m)' /\ unmarked'[m] = unmarked[m]
    BY <1>1, <1>2, <2>2, <2>3 DEF Spent, Holds, TypeOK
  <2>5. unmarked'[n] = 0
    BY <2>1, <2>3 DEF TypeOK
  <2>6. QueuedBySpent'
    BY <2>1, <2>4, <2>5, StaysSpent DEF TypeOK, QueuedBySpent
  <2> QED BY <1>3, <2>6
<1>5. CASE ~Holds(l)
  <2>1. UNCHANGED <<table, unmarked>>
    BY <1>5 DEF Resume
  <2>2. \A m \in Names : Spent(m) \subseteq Spent(m)'
    BY <1>1, <1>2, <1>5, <2>1 DEF Spent, Holds
  <2>3. QueuedBySpent'
    BY <2>1, <2>2, StaysSpent DEF TypeOK, QueuedBySpent
  <2> QED BY <1>3, <2>3
<1> QED BY <1>4, <1>5

LEMMA SendFailsKeeps ==
  ASSUME IInv, NEW l \in Loops, SendFails(l)
  PROVE  Control' /\ QueuedBySpent'
<1> USE DEF IInv
<1>1. /\ doing[l] = "sending" /\ doing' = [doing EXCEPT ![l] = "round"]
      /\ holding' = [holding EXCEPT ![l] = None]
      /\ UNCHANGED <<table, unmarked, controlVars>>
  BY DEF SendFails, tableVars
<1>2. /\ \A k \in Loops \ {l} : doing'[k] = doing[k] /\ holding'[k] = holding[k]
      /\ doing'[l] = "round"
  BY <1>1 DEF TypeOK
<1>3. Control'
  BY <1>1, <1>2, ControlKept DEF Alive
<1>4. \A m \in Names : Spent(m) \subseteq Spent(m)'
  BY <1>1, <1>2 DEF Spent, Holds
<1>5. QueuedBySpent'
  BY <1>1, <1>4, StaysSpent DEF TypeOK, QueuedBySpent
<1> QED BY <1>3, <1>5

LEMMA SendKeeps ==
  ASSUME IInv, NEW l \in Loops, NEW n \in Names, Send(l, n)
  PROVE  Control' /\ QueuedBySpent'
<1> USE DEF IInv
<1>1. /\ doing[l] = "round" /\ doing' = [doing EXCEPT ![l] = "sending"]
      /\ holding' = [holding EXCEPT ![l] = <<n, table[n].edit>>]
      /\ UNCHANGED <<table, unmarked, controlVars>>
  BY DEF Send, Visits, tableVars
<1>2. /\ \A k \in Loops \ {l} : doing'[k] = doing[k] /\ holding'[k] = holding[k]
      /\ doing'[l] = "sending"
  BY <1>1 DEF TypeOK
<1>3. Control'
  BY <1>1, <1>2, ControlKept DEF Alive
<1>4. \A m \in Names : Spent(m) \subseteq Spent(m)'
  BY <1>1, <1>2 DEF Spent, Holds
<1>5. QueuedBySpent'
  BY <1>1, <1>4, StaysSpent DEF TypeOK, QueuedBySpent
<1> QED BY <1>3, <1>5

(* The rest only moves a loop that has queued nothing, or lets time pass.  *)
LEMMA OthersKeep ==
  ASSUME IInv,
         \/ \E l \in Loops : Round(l) \/ Sleep(l) \/ Broken(l)
         \/ \E l \in Loops, n \in Names : PassOver(l, n)
         \/ Tick
         \/ UNCHANGED vars
  PROVE  Control' /\ QueuedBySpent'
<1> USE DEF IInv, tableVars, controlVars
<1>1. ASSUME NEW l \in Loops, Round(l) \/ Sleep(l) \/ Broken(l)
      PROVE  Control' /\ QueuedBySpent'
  <2>1. /\ Alive(l) /\ doing[l] \notin {"over", "landed"}
        /\ \E s \in {"round", "asleep", "resting"} : doing' = [doing EXCEPT ![l] = s]
        /\ UNCHANGED <<table, unmarked, controlVars, holding>>
    BY <1>1 DEF Round, Sleep, Broken, Ready, Alive
  <2>2. \A k \in Loops : k # l => doing'[k] = doing[k]
    BY <2>1 DEF TypeOK
  <2>3. Alive(l)'
    BY <2>1 DEF TypeOK, Alive
  <2>4. Control'
    BY <2>1, <2>2, <2>3, ControlKept
  <2> QED BY <2>1, <2>2, <2>4, SpentKept
<1>2. ASSUME UNCHANGED <<table, unmarked, controlVars, doing, holding>>
      PROVE  Control' /\ QueuedBySpent'
  BY <1>2, ControlKept, SpentKept
<1>3. ASSUME Tick
      PROVE  Control' /\ QueuedBySpent'
  <2>1. UNCHANGED <<unmarked, controlVars, doing, holding>>
    BY <1>3 DEF Tick
  <2>2. \A n \in DOMAIN table : n \in DOMAIN table' /\ table'[n].edit = table[n].edit
    BY <1>3, OlderFacts DEF Tick
  <2> QED BY <2>1, <2>2, ControlKept, SpentKept
<1>4. ASSUME NEW l \in Loops, NEW n \in Names, PassOver(l, n)
      PROVE  UNCHANGED <<table, unmarked, controlVars, doing, holding>>
  BY <1>4 DEF PassOver
<1>5. UNCHANGED vars => UNCHANGED <<table, unmarked, controlVars, doing, holding>>
  BY DEF vars
<1> QED BY <1>1, <1>2, <1>3, <1>4, <1>5

-----------------------------------------------------------------------------
(* IInv is an inductive invariant. *)
THEOREM Invariance == Spec => []IInv
<1>1. Init => IInv
  <2> SUFFICES ASSUME Init PROVE IInv
    OBVIOUS
  <2>1. TypeOK
    BY InitTypeOK
  <2>2. IsFiniteSet(DOMAIN table)
    <3>1. DOMAIN table = {}
      BY DEF Init
    <3> QED BY <3>1, FS_EmptySet
  <2>3. Control
    BY DEF Init, Control, LiveIsCurrent, CurrentLives, Begun, OverIsCancelled,
       CancelledIsAwaited, Alive
  <2>4. QueuedBySpent
    BY LoopsCount DEF Init, QueuedBySpent
  <2> QED BY <2>1, <2>2, <2>3, <2>4 DEF IInv
<1>2. IInv /\ [Next]_vars => IInv'
  <2> SUFFICES ASSUME IInv, [Next]_vars PROVE IInv'
    OBVIOUS
  <2>1. TypeOK' /\ IsFiniteSet(DOMAIN table')
    BY TypeStep DEF IInv, Control
  <2>2. ASSUME NEW l \in Loops, LoopStep(l)
        PROVE  Control' /\ QueuedBySpent'
    BY <2>2, EndKeeps, LandKeeps, SendFailsKeeps, ResumeKeeps, ExecuteKeeps, SendKeeps,
       OthersKeep DEF LoopStep
  <2>3. Control' /\ QueuedBySpent'
    BY <2>2, AddKeeps, RemoveKeeps, StartKeeps, StopReturnsKeeps, StopKeeps,
       StopManagerKeeps, OthersKeep DEF Next
  <2> QED BY <2>1, <2>3 DEF IInv
<1> QED BY <1>1, <1>2, PTL DEF Spec

(* Every variable keeps its type. *)
THEOREM TypeCorrect == Spec => []TypeOK
<1>1. IInv => TypeOK
  BY DEF IInv
<1> QED BY <1>1, Invariance, PTL

(* However start(), stop() and the manager's stop() come together, one     *)
(* loop at most is not on its way to its end (start, stop).                *)
THEOREM OneLoopGoesOn == Spec => []OneLoop
<1>1. IInv => OneLoop
  BY DEF IInv, Control, LiveIsCurrent, OneLoop
<1> QED BY <1>1, Invariance, PTL

(* Until the manager is stopped, _running is set exactly while a loop goes *)
(* on (start, stop).                                                       *)
THEOREM RunningTellsTheTruth == Spec => []RunningIsTrue
<1>1. IInv => RunningIsTrue
  BY DEF IInv, Control, LiveIsCurrent, CurrentLives, RunningIsTrue
<1> QED BY <1>1, Invariance, PTL

(* When every stop() has returned and nobody has started again, there is   *)
(* no loop (stop).                                                         *)
THEOREM StopLeavesNone == Spec => []StoppedIsQuiet
<1>1. IInv => StoppedIsQuiet
  BY DEF IInv, Control, LiveIsCurrent, CancelledIsAwaited, StoppedIsQuiet
<1> QED BY <1>1, Invariance, PTL

(* A loop ends only by being cancelled: where it finds _running reset it   *)
(* has been cancelled before (_run_scheduler, stop).                       *)
THEOREM OnlyCancelledEnd == Spec => []OverIsCancelled
<1>1. IInv => OverIsCancelled
  BY DEF IInv, Control
<1> QED BY <1>1, Invariance, PTL

(* For one due time a task is queued once, and once more for each loop     *)
(* that was cancelled on its way to Redis (_execute_task, is_due).         *)
THEOREM OncePerDueTime == Spec => []QueuedOncePerDue
<1>1. ASSUME IInv, NEW n \in Names
      PROVE  unmarked[n] <= 1 + Cardinality(cancelled)
  <2>1. cancelled \in SUBSET Loops
    BY <1>1 DEF IInv, TypeOK
  <2>2. IsFiniteSet(cancelled) /\ Cardinality(cancelled) \in Nat
    <3>1. IsFiniteSet(Loops)
      BY ConstantsOK, FS_Interval DEF Loops, ConstantsOK
    <3> QED BY <2>1, <3>1, FS_Subset, FS_CardinalityType
  <2>3. Spent(n) \subseteq cancelled \cup {current}
    BY <1>1 DEF IInv, Control, OverIsCancelled, LiveIsCurrent, Spent, Alive
  <2>4. /\ IsFiniteSet(cancelled \cup {current})
        /\ Cardinality(cancelled \cup {current}) <= 1 + Cardinality(cancelled)
        /\ Cardinality(cancelled \cup {current}) \in Nat
    <3>1. CASE current \in cancelled
      <4>1. cancelled \cup {current} = cancelled
        BY <3>1
      <4> QED BY <2>2, <4>1
    <3>2. CASE current \notin cancelled
      <4>1. Cardinality(cancelled \cup {current}) = Cardinality(cancelled) + 1
        BY <2>2, <3>2, FS_AddElement
      <4> QED BY <2>2, <4>1, FS_AddElement
    <3> QED BY <3>1, <3>2
  <2>5. Cardinality(Spent(n)) <= Cardinality(cancelled \cup {current})
    BY <2>3, <2>4, FS_Subset
  <2> QED BY <1>1, <2>2, <2>4, <2>5, LoopsCount DEF IInv, QueuedBySpent, TypeOK
<1>2. IInv => QueuedOncePerDue
  BY <1>1 DEF QueuedOncePerDue
<1> QED BY <1>2, Invariance, PTL
=============================================================================
