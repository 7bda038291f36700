------------------------- MODULE ResultStoreProofs -------------------------
(***************************************************************************)
(* Theorems about ResultStore, for any ids, results, calls that wait,      *)
(* timeouts and lifetimes: type correctness, that somebody cleans up while *)
(* there are results, that a result goes only at its end, and that nobody  *)
(* is told of a timeout who has a result.                                  *)
(***************************************************************************)
EXTENDS ResultStore, TLAPS

(* Only the backend in memory has a cleaner. *)
CleanerInMemory == backend # "memory" => cleaner = "none"

(* A call in always waits for a result that is final now, and whatever     *)
(* Redis has answered to it was final too.                                 *)
AlwaysServed ==
  \A p \in always :
    /\ Final(results, WaitsFor[p])
    /\ doing[p] = "asking" => seen[p] \in {"success", "failure"}

IInv == TypeOK /\ CleanerAlive /\ CleanerInMemory /\ AlwaysServed

-----------------------------------------------------------------------------
(* What is left of the results of the ids in S, with the ages given. *)
LEMMA KeepFacts ==
  ASSUME TypeOK, NEW S \in SUBSET Stored, NEW ages, Keep(S, ages),
         ages \in [Stored -> 0..(TTL + 1)]
  PROVE  /\ Stored' = S
         /\ \A i \in S : results'[i] = results[i]
         /\ results' \in [Stored' -> ResultKinds]
         /\ age' \in [Stored' -> 0..(TTL + 1)]
         /\ always' \subseteq always
         /\ \A p \in always' : Final(results', WaitsFor[p])
<1>1. /\ results' = [i \in S |-> results[i]]
      /\ age' = [i \in S |-> ages[i]]
  BY DEF Keep, Restrict
<1>2. /\ Stored' = S
      /\ \A i \in S : results'[i] = results[i]
      /\ results' \in [Stored' -> ResultKinds]
      /\ age' \in [Stored' -> 0..(TTL + 1)]
  BY <1>1 DEF TypeOK, Stored
<1>3. /\ always' \subseteq always
      /\ \A p \in always' : Final(results', WaitsFor[p])
  BY DEF Keep, Served
<1> QED BY <1>2, <1>3

(* What is stored once i has the result r. *)
LEMMA PutFacts ==
  ASSUME ConstantsOK, TypeOK, NEW i \in Ids, NEW r \in Results, NEW a \in 0..1,
         Put(i, r, a)
  PROVE  /\ Stored' = Stored \cup {i}
         /\ results' \in [Stored' -> ResultKinds]
         /\ age' \in [Stored' -> 0..(TTL + 1)]
         /\ puts' \in 0..MaxStores
         /\ always' \subseteq always
         /\ \A p \in always' : Final(results', WaitsFor[p])
<1>1. Stored' = Stored \cup {i} /\ r \in ResultKinds /\ a \in 0..(TTL + 1)
  BY DEF Put, Stored, ConstantsOK
<1>2. /\ results' \in [Stored' -> ResultKinds]
      /\ age' \in [Stored' -> 0..(TTL + 1)]
  BY <1>1 DEF Put, TypeOK
<1>3. puts' \in 0..MaxStores
  BY DEF Put, TypeOK, ConstantsOK
<1>4. /\ always' \subseteq always
      /\ \A p \in always' : Final(results', WaitsFor[p])
  BY DEF Put, Served
<1> QED BY <1>1, <1>2, <1>3, <1>4

(* A round of the loop leaves its variables in their types, and does not   *)
(* end with a timeout when it has found a final status.                    *)
LEMMA DecideFacts ==
  ASSUME ConstantsOK, TypeOK, NEW p \in Pollers, NEW status, Decide(p, status)
  PROVE  /\ doing' \in [Pollers -> {"out", "looking", "asking", "asleep", "over"}]
         /\ answer' \in [Pollers ->
              {"none", "value", "failed", "timeout", "cancelled", "error"}]
         /\ elapsed' \in [Pollers -> Nat]
         /\ \A q \in Pollers : elapsed'[q] <= Timeout[q]
         /\ nap' \in [Pollers -> 0..PollEvery]
         /\ doing'[p] # "asking"
         /\ \A q \in Pollers \ {p} : doing'[q] = doing[q] /\ answer'[q] = answer[q]
         /\ status \in {"success", "failure"} => answer'[p] # "timeout"
<1>1. \A q \in Pollers : Timeout[q] \in Nat /\ elapsed[q] \in Nat /\ elapsed[q] <= Timeout[q]
  BY DEF ConstantsOK, TypeOK
<1>2. PollEvery \in Nat
  BY DEF ConstantsOK
<1>3. CASE \E a \in {"value", "failed", "timeout"} :
             End(p, a) /\ (status \in {"success", "failure"} => a # "timeout")
  BY <1>1, <1>3 DEF End, TypeOK
<1>4. CASE LookAgain(p) /\ status \notin {"success", "failure"}
  BY <1>1, <1>2, <1>4 DEF LookAgain, TypeOK
<1> QED BY <1>3, <1>4 DEF Decide

-----------------------------------------------------------------------------
LEMMA InitIInv == ASSUME ConstantsOK, Init PROVE IInv
<1>1. Stored = {}
  BY DEF Init, Stored
<1>2. TypeOK
  BY <1>1 DEF ConstantsOK, Init, TypeOK
<1> QED BY <1>1, <1>2 DEF Init, IInv, CleanerAlive, CleanerInMemory, AlwaysServed

(* store_result() of either backend. *)
LEMMA StoreKeeps ==
  ASSUME ConstantsOK, IInv, NEW i \in Ids, NEW r \in Results,
         StoreInMemory(i, r) \/ StoreInRedis(i, r)
  PROVE  IInv'
<1>1. PICK a \in 0..1 : Put(i, r, a)
  BY DEF StoreInMemory, StoreInRedis
<1>2. TypeOK /\ UNCHANGED <<backend, pollVars>>
  BY DEF IInv, StoreInMemory, StoreInRedis
<1>3. /\ Stored' = Stored \cup {i}
      /\ results' \in [Stored' -> ResultKinds]
      /\ age' \in [Stored' -> 0..(TTL + 1)]
      /\ puts' \in 0..MaxStores
      /\ always' \subseteq always
      /\ \A p \in always' : Final(results', WaitsFor[p])
  BY <1>1, <1>2, PutFacts
<1>4. /\ cleaner' \in {"none", "asleep", "done", "dead"}
      /\ due' \in 0..SweepEvery
      /\ backend = "memory" => cleaner' = "asleep"
      /\ backend # "memory" => cleaner' = cleaner
  BY <1>2 DEF StoreInMemory, StoreInRedis, StartCleaner, cleanerVars, TypeOK, ConstantsOK
<1>5. TypeOK'
  BY <1>2, <1>3, <1>4 DEF TypeOK, pollVars
<1>6. CleanerAlive' /\ CleanerInMemory'
  BY <1>2, <1>4 DEF IInv, CleanerAlive, CleanerInMemory
<1>7. AlwaysServed'
  BY <1>2, <1>3 DEF IInv, AlwaysServed, pollVars
<1> QED BY <1>5, <1>6, <1>7 DEF IInv

(* delete_result() *)
LEMMA DeleteKeeps ==
  ASSUME ConstantsOK, IInv, NEW i \in Ids, Delete(i)
  PROVE  IInv'
<1>1. TypeOK /\ Stored \ {i} \in SUBSET Stored /\ age \in [Stored -> 0..(TTL + 1)]
  BY DEF IInv, TypeOK
<1>2. /\ Stored' = Stored \ {i}
      /\ results' \in [Stored' -> ResultKinds]
      /\ age' \in [Stored' -> 0..(TTL + 1)]
      /\ always' \subseteq always
      /\ \A p \in always' : Final(results', WaitsFor[p])
  BY <1>1, KeepFacts DEF Delete
<1>3. UNCHANGED <<backend, puts, cleanerVars, pollVars>>
  BY DEF Delete
<1>4. TypeOK'
  BY <1>1, <1>2, <1>3 DEF TypeOK, pollVars, cleanerVars
<1>5. CleanerAlive' /\ CleanerInMemory'
  BY <1>2, <1>3 DEF IInv, CleanerAlive, CleanerInMemory, cleanerVars
<1>6. AlwaysServed'
  BY <1>2, <1>3 DEF IInv, AlwaysServed, pollVars
<1> QED BY <1>4, <1>5, <1>6 DEF IInv

(* The beginning of wait_for_result(). *)
LEMMA WaitKeeps ==
  ASSUME ConstantsOK, IInv, NEW p \in Pollers, Wait(p)
  PROVE  IInv'
<1>1. TypeOK'
  BY DEF IInv, TypeOK, Wait, Stored, cleanerVars
<1>2. CleanerAlive' /\ CleanerInMemory'
  BY DEF IInv, CleanerAlive, CleanerInMemory, Wait, Stored, cleanerVars
<1>3. AlwaysServed'
  BY DEF IInv, TypeOK, AlwaysServed, Wait, Final
<1> QED BY <1>1, <1>2, <1>3 DEF IInv

(* What get_result() finds is a status, and a final one for a result that  *)
(* is final.                                                               *)
LEMMA FoundFacts ==
  ASSUME TypeOK, NEW i
  PROVE  /\ Found(i) \in {"none", "open", "success", "failure"}
         /\ Final(results, i) => Found(i) \in {"success", "failure"}
<1>1. i \in Stored => results[i].status \in {"open", "success", "failure"}
  BY DEF TypeOK, ResultKinds
<1> QED BY <1>1 DEF Found, Final, Stored

(* A round of wait_for_result(). *)
LEMMA RoundKeeps ==
  ASSUME ConstantsOK, IInv, NEW p \in Pollers, Round(p)
  PROVE  IInv'
<1>1. TypeOK
  BY DEF IInv
<1>2. CASE Look(p)
  <2>1. Decide(p, Found(WaitsFor[p])) /\ UNCHANGED <<backend, storeVars, cleanerVars, seen>>
    BY <1>2 DEF Look
  <2>2. TypeOK'
    BY <1>1, <2>1, DecideFacts DEF TypeOK, storeVars, cleanerVars, Stored
  <2>3. CleanerAlive' /\ CleanerInMemory'
    BY <2>1 DEF IInv, CleanerAlive, CleanerInMemory, Stored, storeVars, cleanerVars
  <2>4. AlwaysServed'
    BY <1>1, <2>1, DecideFacts DEF IInv, TypeOK, AlwaysServed, storeVars, Final
  <2> QED BY <2>2, <2>3, <2>4 DEF IInv
<1>3. CASE Ask(p)
  <2>1. TypeOK'
    BY <1>1, <1>3, FoundFacts DEF Ask, TypeOK, storeVars, cleanerVars, Stored
  <2>2. CleanerAlive' /\ CleanerInMemory'
    BY <1>3 DEF IInv, Ask, CleanerAlive, CleanerInMemory, Stored, storeVars, cleanerVars
  <2>3. AlwaysServed'
    BY <1>1, <1>3, FoundFacts DEF IInv, TypeOK, Ask, AlwaysServed, storeVars, Final
  <2> QED BY <2>1, <2>2, <2>3 DEF IInv
<1>4. CASE Hear(p)
  <2>1. /\ Decide(p, seen[p]) /\ UNCHANGED <<backend, storeVars, cleanerVars>>
        /\ seen' = [seen EXCEPT ![p] = "none"]
    BY <1>4 DEF Hear
  <2>2. TypeOK'
    BY <1>1, <2>1, DecideFacts DEF TypeOK, storeVars, cleanerVars, Stored
  <2>3. CleanerAlive' /\ CleanerInMemory'
    BY <2>1 DEF IInv, CleanerAlive, CleanerInMemory, Stored, storeVars, cleanerVars
  <2>4. AlwaysServed'
    BY <1>1, <2>1, DecideFacts DEF IInv, TypeOK, AlwaysServed, storeVars, Final
  <2> QED BY <2>2, <2>3, <2>4 DEF IInv
<1> QED BY <1>2, <1>3, <1>4 DEF Round

(* A round of the cleaner: it ends by itself only when nothing is left. *)
LEMMA SweepKeeps ==
  ASSUME ConstantsOK, IInv, Sweep
  PROVE  IInv'
<1>1. /\ TypeOK /\ Stored \ Expired \in SUBSET Stored
      /\ age \in [Stored -> 0..(TTL + 1)]
  BY DEF IInv, TypeOK
<1>2. /\ Stored' = Stored \ Expired
      /\ results' \in [Stored' -> ResultKinds]
      /\ age' \in [Stored' -> 0..(TTL + 1)]
      /\ always' \subseteq always
      /\ \A p \in always' : Final(results', WaitsFor[p])
  BY <1>1, KeepFacts DEF Sweep
<1>3. /\ UNCHANGED <<backend, puts, pollVars>>
      /\ cleaner' \in {"asleep", "done"} /\ due' \in 0..SweepEvery
      /\ cleaner' = "done" => Stored' = {}
      /\ cleaner = "asleep"
  BY <1>1, <1>2 DEF Sweep, NothingLeft, TypeOK, ConstantsOK
<1>4. TypeOK'
  BY <1>1, <1>2, <1>3 DEF TypeOK, pollVars
<1>5. CleanerAlive' /\ CleanerInMemory'
  BY <1>3 DEF IInv, CleanerAlive, CleanerInMemory
<1>6. AlwaysServed'
  BY <1>2, <1>3 DEF IInv, AlwaysServed, pollVars
<1> QED BY <1>4, <1>5, <1>6 DEF IInv

(* stop() of the manager. *)
LEMMA StopLoopKeeps ==
  ASSUME ConstantsOK, IInv, StopLoop
  PROVE  IInv'
<1>1. TypeOK'
  BY DEF IInv, TypeOK, ConstantsOK, StopLoop, storeVars, Stored
<1>2. CleanerAlive' /\ CleanerInMemory'
  BY DEF IInv, CleanerAlive, CleanerInMemory, StopLoop, storeVars, Stored
<1>3. AlwaysServed'
  BY DEF IInv, TypeOK, AlwaysServed, StopLoop, Calling, storeVars, Final
<1> QED BY <1>1, <1>2, <1>3 DEF IInv

(* Time goes on. *)
LEMMA TickKeeps ==
  ASSUME ConstantsOK, IInv, Tick
  PROVE  IInv'
<1> DEFINE ages == [i \in Stored |-> Smaller(age[i] + 1, TTL + 1)]
<1>1. /\ TypeOK /\ Kept \in SUBSET Stored /\ ages \in [Stored -> 0..(TTL + 1)]
  BY DEF IInv, TypeOK, Kept, Smaller, ConstantsOK
<1>2. /\ Stored' = Kept
      /\ results' \in [Stored' -> ResultKinds]
      /\ age' \in [Stored' -> 0..(TTL + 1)]
      /\ always' \subseteq always
      /\ \A p \in always' : Final(results', WaitsFor[p])
  BY <1>1, KeepFacts DEF Tick
<1>3. /\ UNCHANGED <<backend, puts, cleaner, doing, seen, answer>>
      /\ due' \in 0..SweepEvery /\ nap' \in [Pollers -> 0..PollEvery]
  BY <1>1 DEF Tick, TypeOK, ConstantsOK
<1>4. /\ elapsed' \in [Pollers -> Nat]
      /\ \A p \in Pollers : elapsed'[p] <= Timeout[p]
  BY <1>1 DEF Tick, TypeOK, ConstantsOK, Smaller
<1>5. TypeOK'
  BY <1>1, <1>2, <1>3, <1>4 DEF TypeOK
<1>6. CleanerAlive' /\ CleanerInMemory'
  BY <1>1, <1>2, <1>3 DEF IInv, CleanerAlive, CleanerInMemory
<1>7. AlwaysServed'
  BY <1>2, <1>3 DEF IInv, AlwaysServed
<1> QED BY <1>5, <1>6, <1>7 DEF IInv

-----------------------------------------------------------------------------
(* IInv is an inductive invariant. *)
THEOREM Invariance == Spec => []IInv
<1> USE ConstantsOK
<1>1. Init => IInv
  BY InitIInv
<1>2. IInv /\ [Next]_vars => IInv'
  <2> SUFFICES ASSUME IInv, [Next]_vars PROVE IInv'
    OBVIOUS
  <2>1. CASE SweepFails
    BY <2>1 DEF SweepFails, IInv, TypeOK, CleanerAlive, CleanerInMemory,
       AlwaysServed, storeVars, pollVars, Stored, Final
  <2>2. CASE UNCHANGED vars
    BY <2>2 DEF vars, IInv, TypeOK, CleanerAlive, CleanerInMemory, AlwaysServed,
       Stored, Final
  <2> QED BY <2>1, <2>2, StoreKeeps, DeleteKeeps, WaitKeeps, RoundKeeps, SweepKeeps,
             StopLoopKeeps, TickKeeps DEF Next
<1> QED BY <1>1, <1>2, PTL DEF Spec

(* Every variable keeps its type; no call waits on after its timeout. *)
THEOREM TypeCorrect == Spec => []TypeOK
<1>1. IInv => TypeOK
  BY DEF IInv
<1> QED BY <1>1, Invariance, PTL

(* While there are results in memory, the cleaner is alive, or was taken   *)
(* away by a stop() or a time it could not read (store_result).            *)
THEOREM SomebodyCleans == Spec => []CleanerAlive
<1>1. IInv => CleanerAlive
  BY DEF IInv
<1> QED BY <1>1, Invariance, PTL

(* A result that nobody deletes goes only when its time is over            *)
(* (_cleanup_expired, setex).                                              *)
THEOREM ResultsGoAtTheirEnd == Spec => OnlyExpiredGo
<1> USE ConstantsOK
<1>1. ASSUME IInv, Next, NEW i \in Ids, i \in Stored, i \notin Stored'
      PROVE  \/ Delete(i)
             \/ backend = "redis" /\ age[i] + 1 >= TTL
             \/ backend = "memory" /\ age[i] > TTL /\ results[i].completed # "none"
  <2>1. TypeOK /\ age \in [Stored -> 0..(TTL + 1)] /\ TTL \in Nat
    BY <1>1 DEF IInv, TypeOK, ConstantsOK
  <2>2. ASSUME NEW j \in Ids, NEW r \in Results, StoreInMemory(j, r) \/ StoreInRedis(j, r)
        PROVE  FALSE
    BY <1>1, <2>2 DEF StoreInMemory, StoreInRedis, Put, Stored
  <2>3. ASSUME NEW j \in Ids, Delete(j)
        PROVE  Delete(i)
    <3>1. Stored' = Stored \ {j}
      BY <2>1, <2>3, KeepFacts DEF Delete
    <3>2. i = j
      BY <1>1, <3>1
    <3> QED BY <2>3, <3>2
  <2>4. ASSUME Sweep
        PROVE  backend = "memory" /\ age[i] > TTL /\ results[i].completed # "none"
    <3>1. Stored' = Stored \ Expired
      BY <2>1, <2>4, KeepFacts DEF Sweep
    <3>2. i \in Expired
      BY <1>1, <3>1
    <3> QED BY <1>1, <2>4, <3>2 DEF IInv, CleanerInMemory, Sweep, Expired
  <2>5. ASSUME Tick
        PROVE  backend = "redis" /\ age[i] + 1 >= TTL
    <3>1. [j \in Stored |-> Smaller(age[j] + 1, TTL + 1)] \in [Stored -> 0..(TTL + 1)]
      BY <2>1 DEF Smaller
    <3>2. Kept \in SUBSET Stored
      BY DEF Kept
    <3>3. Stored' = Kept
      BY <2>1, <2>5, <3>1, <3>2, KeepFacts DEF Tick
    <3>4. backend = "redis" /\ ~(age[i] + 1 < TTL) /\ age[i] \in Int
      BY <1>1, <2>1, <3>3 DEF Kept
    <3> QED BY <2>1, <3>4
  <2>6. CASE UNCHANGED results
    BY <1>1, <2>6 DEF Stored
  <2> QED BY <1>1, <2>2, <2>3, <2>4, <2>5, <2>6
          DEF Next, Wait, Round, Look, Ask, Hear, SweepFails, StopLoop, storeVars
<1>2. IInv /\ [Next]_vars =>
        [\A i \in Ids :
           i \in Stored /\ i \notin Stored' =>
             \/ Delete(i)
             \/ backend = "redis" /\ age[i] + 1 >= TTL
             \/ backend = "memory" /\ age[i] > TTL /\ results[i].completed # "none"]_vars
  BY <1>1
<1> QED BY <1>2, Invariance, PTL DEF Spec, OnlyExpiredGo

(* Who has a result from the beginning to the end of its call is not told  *)
(* of a timeout, nor when Redis answered before and is heard after it      *)
(* (wait_for_result).                                                      *)
THEOREM NoTimeoutForTheServed ==
  Spec => NoTimeoutBesideResult
<1> USE ConstantsOK
<1>1. ASSUME IInv, Next, NEW p \in always, answer[p] = "none"
      PROVE  answer'[p] # "timeout"
  <2>1. TypeOK /\ p \in Pollers /\ AlwaysServed
    BY <1>1 DEF IInv, TypeOK
  <2>2. ASSUME NEW q \in Pollers, Look(q)
        PROVE  answer'[p] # "timeout"
    <3>1. Decide(q, Found(WaitsFor[q]))
      BY <2>2 DEF Look
    <3>2. q = p => Found(WaitsFor[q]) \in {"success", "failure"}
      BY <2>1, FoundFacts DEF AlwaysServed
    <3> QED BY <1>1, <2>1, <3>1, <3>2, DecideFacts
  <2>3. ASSUME NEW q \in Pollers, Hear(q)
        PROVE  answer'[p] # "timeout"
    <3>1. Decide(q, seen[q]) /\ doing[q] = "asking"
      BY <2>3 DEF Hear
    <3>2. q = p => seen[q] \in {"success", "failure"}
      BY <2>1, <3>1 DEF AlwaysServed
    <3> QED BY <1>1, <2>1, <3>1, <3>2, DecideFacts
  <2>4. ASSUME NEW q \in Pollers, Wait(q)
        PROVE  answer'[p] # "timeout"
    BY <1>1, <2>1, <2>4 DEF Wait, TypeOK
  <2>5. CASE StopLoop
    BY <1>1, <2>1, <2>5 DEF StopLoop
  <2>6. CASE UNCHANGED answer
    BY <1>1, <2>6
  <2> QED BY <1>1, <2>2, <2>3, <2>4, <2>5, <2>6
          DEF Next, StoreInMemory, StoreInRedis, Delete, Round, Ask, Sweep, SweepFails,
              Tick, pollVars
<1>2. IInv /\ [Next]_vars =>
        [\A p \in always : answer[p] = "none" => answer'[p] # "timeout"]_vars
  BY <1>1
<1> QED BY <1>2, Invariance, PTL DEF Spec, NoTimeoutBesideResult
=============================================================================
