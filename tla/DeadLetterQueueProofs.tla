----------------------- MODULE DeadLetterQueueProofs -----------------------
(***************************************************************************)
(* Theorems about DeadLetterQueue, for any tasks, functions, bound and     *)
(* calls of retry_task() and retry_all(): the bound on the queue in        *)
(* memory, that no failure is lost, how often one is queued again, and     *)
(* that the index of RedisDLQ names entries.                               *)
(***************************************************************************)
EXTENDS DeadLetterQueue, FiniteSetTheorems, TLAPS

(* Of the types, what the other parts rest on. *)
Kept ==
  /\ kind \in {"local", "redis"}
  /\ clock \in Nat
  /\ failedAt \in [Entries -> 0..clock]
  /\ IsFiniteSet(Entries)
  /\ doing = [r \in Retriers |-> doing[r]]
  /\ plan = [r \in Retriers |-> plan[r]]
  /\ fails \in [Ids -> Nat]
  /\ queued \in [Ids -> Nat]

(* Any failures that are kept have an oldest one among them. *)
Ordered ==
  \A S \in SUBSET Entries :
    S # {} => \E i \in S : \A j \in S : failedAt[i] <= failedAt[j]

(* A call that is about to remove an entry has queued its task. *)
LandedIsQueued ==
  \A r \in Retriers :
    doing[r] = "landed" /\ Head(plan[r]) \in Ids => queued[Head(plan[r])] > 0

(* With a broker in memory no call suspends in delay(), and a task is      *)
(* queued for a failure, or still there to be queued, but not both.        *)
OnceInMemory ==
  broker = "memory" =>
    /\ \A r \in Retriers : doing[r] \notin {"sending", "landed"}
    /\ kind = "local" =>
         \A i \in Ids :
           queued[i] + (IF i \in Entries THEN 1 ELSE 0) <= fails[i]

(* The calls that may still queue an entry again, as far as it knows: a    *)
(* call that has queued it will remove it, unless it is cancelled before.  *)
MayQueue(i) ==
  {r \in Retriers :
     doing[r] # "over" /\ ~(doing[r] = "landed" /\ Head(plan[r]) = i)}

(* And those that queue it even if it is gone. *)
OnItsWay(i) == {r \in Retriers : doing[r] = "sending" /\ Head(plan[r]) = i}

Claims(i) == IF i \in Entries THEN MayQueue(i) ELSE OnItsWay(i)

Paid(i) == queued[i] + Cardinality(Claims(i)) <= fails[i] * Cardinality(Retriers)

(* Each failure lets every call queue it once. *)
Tickets == kind = "local" => \A i \in Ids : Paid(i)

(* An id gets into the sorted set by way of indexing. *)
IndexingHasKeys == indexing \cup index \subseteq keys

IInv ==
  /\ Kept /\ Ordered /\ Bounded
  /\ LandedIsQueued /\ NothingLost /\ OnceInMemory /\ IndexingHasKeys
  /\ Tickets

-----------------------------------------------------------------------------
(* Whoever is evicted makes room for one more. *)
LEMMA EvictMakesRoom ==
  ASSUME ConstantsOK, Kept, Ordered, Bounded
  PROVE  /\ IsFiniteSet(Entries \ Evict)
         /\ Cardinality(Entries \ Evict) \in Nat
         /\ Cardinality(Entries \ Evict) + 1 <= MaxSize
<1>1. IsFiniteSet(Entries) /\ Cardinality(Entries) \in Nat /\ MaxSize \in Nat \ {0}
  BY FS_CardinalityType DEF Kept, ConstantsOK
<1>2. CASE Cardinality(Entries) >= MaxSize
  <2>1. Entries # {}
    BY <1>1, <1>2, FS_EmptySet
  <2>2. PICK o \in Entries : o \in Evict
    BY <1>2, <2>1 DEF Ordered, Evict, Oldest
  <2>3. /\ IsFiniteSet(Entries \ {o})
        /\ Cardinality(Entries \ {o}) = Cardinality(Entries) - 1
    BY <1>1, <2>2, FS_RemoveElement
  <2>4. Entries \ Evict \in SUBSET (Entries \ {o})
    BY <2>2
  <2>5. /\ IsFiniteSet(Entries \ Evict)
        /\ Cardinality(Entries \ Evict) <= Cardinality(Entries \ {o})
    BY <2>3, <2>4, FS_Subset
  <2> QED BY <1>1, <2>3, <2>5, FS_CardinalityType DEF Bounded
<1>3. CASE ~ (Cardinality(Entries) >= MaxSize)
  <2>1. Entries \ Evict = Entries
    BY <1>3 DEF Evict
  <2>2. Cardinality(Entries) + 1 <= MaxSize
    BY <1>1, <1>3
  <2> QED BY <1>1, <2>1, <2>2
<1> QED BY <1>2, <1>3

(* An entry taken out leaves the rest as it was. *)
LEMMA Taken ==
  ASSUME ConstantsOK, Kept, Ordered, Bounded, NEW S \in SUBSET Entries,
         failedAt' = Restrict(failedAt, S)
  PROVE  /\ Entries' = S
         /\ failedAt' \in [Entries' -> 0..clock]
         /\ IsFiniteSet(Entries')
         /\ Ordered'
         /\ Bounded'
<1>1. /\ Entries' = S
      /\ failedAt' \in [S -> 0..clock]
      /\ \A i \in S : failedAt'[i] = failedAt[i]
  BY DEF Restrict, Entries, Kept
<1>2. Ordered'
  BY <1>1 DEF Ordered
<1>3. IsFiniteSet(S) /\ Cardinality(S) <= Cardinality(Entries)
  BY FS_Subset DEF Kept
<1>4. Cardinality(S) \in Nat /\ Cardinality(Entries) \in Nat /\ MaxSize \in Nat
  BY <1>3, FS_CardinalityType DEF Kept, ConstantsOK
<1> QED BY <1>1, <1>2, <1>3, <1>4 DEF Bounded

(* Claims are calls, and can be counted. *)
LEMMA ClaimsCount ==
  ASSUME ConstantsOK, NEW i
  PROVE  /\ OnItsWay(i) \subseteq MayQueue(i)
         /\ IsFiniteSet(Claims(i)) /\ IsFiniteSet(Claims(i)')
         /\ Cardinality(Claims(i)) \in Nat /\ Cardinality(Claims(i))' \in Nat
         /\ Cardinality(Claims(i))' <= Cardinality(Retriers)
         /\ Cardinality(Retriers) \in Nat
<1>1. /\ Claims(i) \in SUBSET Retriers
      /\ Claims(i)' \in SUBSET Retriers
      /\ OnItsWay(i) \subseteq MayQueue(i)
  BY DEF Claims, MayQueue, OnItsWay
<1>2. /\ IsFiniteSet(Claims(i)) /\ IsFiniteSet(Claims(i)')
      /\ Cardinality(Claims(i)') <= Cardinality(Retriers)
  BY <1>1, FS_Subset DEF ConstantsOK
<1> QED BY <1>1, <1>2, FS_CardinalityType DEF ConstantsOK

(* A product with one more failure. *)
LEMMA OneMoreFailure ==
  ASSUME NEW k \in Nat, NEW n \in Nat
  PROVE  k * n \in Nat /\ (k + 1) * n = k * n + n
OBVIOUS

(* An entry that is not queued and gets no new claim stays paid for. *)
LEMMA StaysPaid ==
  ASSUME ConstantsOK, Kept, NEW i \in Ids, Paid(i),
         Claims(i)' \subseteq Claims(i),
         queued'[i] = queued[i], fails'[i] = fails[i]
  PROVE  Paid(i)'
<1>1. Cardinality(Claims(i)') <= Cardinality(Claims(i))
  BY ClaimsCount, FS_Subset
<1>2. queued[i] \in Nat /\ fails[i] * Cardinality(Retriers) \in Nat
  BY ClaimsCount, OneMoreFailure DEF Kept
<1> QED BY <1>1, <1>2, ClaimsCount DEF Paid

(* A call that queues an entry uses up its claim. *)
LEMMA ClaimUsed ==
  ASSUME ConstantsOK, Kept, NEW i \in Ids, Paid(i),
         NEW r \in Claims(i), Claims(i)' \subseteq Claims(i) \ {r},
         queued'[i] = queued[i] + 1, fails'[i] = fails[i]
  PROVE  Paid(i)'
<1>1. /\ IsFiniteSet(Claims(i) \ {r})
      /\ Cardinality(Claims(i) \ {r}) = Cardinality(Claims(i)) - 1
  BY ClaimsCount, FS_RemoveElement
<1>2. Cardinality(Claims(i)') <= Cardinality(Claims(i) \ {r})
  BY <1>1, FS_Subset
<1>3. queued[i] \in Nat /\ fails[i] * Cardinality(Retriers) \in Nat
  BY ClaimsCount, OneMoreFailure DEF Kept
<1> QED BY <1>1, <1>2, <1>3, ClaimsCount DEF Paid

(* A step that only moves calls between states other than "landed", and    *)
(* leaves the entries and the history alone.                               *)
LEMMA Moved ==
  ASSUME ConstantsOK, IInv, UNCHANGED <<setting, failedAt, keys, clock, history>>,
         (indexing \cup index)' \subseteq keys,
         doing' = [r \in Retriers |-> doing'[r]],
         plan' = [r \in Retriers |-> plan'[r]],
         \A r \in Retriers :
           doing'[r] = "landed" => doing[r] = "landed" /\ plan'[r] = plan[r],
         \A r \in Retriers :
           doing'[r] = "sending" =>
             \/ doing[r] = "sending" /\ plan'[r] = plan[r]
             \/ broker = "redis" /\ (kind = "local" => Head(plan'[r]) \in Entries),
         \A r \in Retriers :
           doing[r] \in {"landed", "over"} =>
             doing'[r] = "over" \/ (doing'[r] = doing[r] /\ plan'[r] = plan[r])
  PROVE  IInv'
<1>1. Kept'
  BY DEF IInv, Kept, Entries, setting, history
<1>2. Ordered' /\ Bounded'
  BY DEF IInv, Ordered, Bounded, Entries
<1>3. LandedIsQueued'
  BY DEF IInv, LandedIsQueued, history
<1>4. NothingLost'
  BY DEF IInv, NothingLost, Entries, setting, history
<1>5. OnceInMemory'
  BY DEF IInv, OnceInMemory, Entries, setting, history
<1>6. IndexingHasKeys'
  BY DEF IndexingHasKeys
<1>7. Tickets'
  <2> SUFFICES ASSUME kind = "local", NEW i \in Ids PROVE Paid(i)'
    BY DEF Tickets, setting
  <2>1. MayQueue(i)' \subseteq MayQueue(i)
    BY DEF MayQueue
  <2>2. i \notin Entries => OnItsWay(i)' \subseteq OnItsWay(i)
    BY DEF OnItsWay
  <2>3. Claims(i)' \subseteq Claims(i)
    BY <2>1, <2>2 DEF Claims, Entries
  <2> QED BY <2>3, StaysPaid DEF IInv, Tickets, history
<1> QED BY <1>1, <1>2, <1>3, <1>4, <1>5, <1>6, <1>7 DEF IInv

(* add_task() in memory *)
LEMMA AddKeeps ==
  ASSUME ConstantsOK, IInv, NEW i \in Ids, Add(i)
  PROVE  IInv'
<1> USE DEF IInv
<1>1. /\ Entries' = (Entries \ Evict) \cup {i}
      /\ failedAt' = [j \in Entries' |-> IF j = i THEN clock + 1 ELSE failedAt[j]]
  BY DEF Add, Entries
<1>2. clock' = clock + 1 /\ clock \in Nat /\ fails' = [fails EXCEPT ![i] = @ + 1]
  BY DEF Add, Fail, Kept
<1>3. Kept'
  <2>1. failedAt' \in [Entries' -> 0..clock']
    BY <1>1, <1>2 DEF Kept
  <2>2. IsFiniteSet(Entries')
    BY <1>1, EvictMakesRoom, FS_AddElement
  <2> QED BY <1>2, <2>1, <2>2 DEF Kept, Add, setting
<1>4. Ordered'
  <2> SUFFICES ASSUME NEW S \in SUBSET Entries', S # {}
               PROVE  \E x \in S : \A j \in S : failedAt'[x] <= failedAt'[j]
    BY DEF Ordered
  <2>1. /\ \A j \in S \ {i} : failedAt'[j] = failedAt[j] /\ failedAt[j] \in 0..clock
        /\ i \in S => failedAt'[i] = clock + 1
    BY <1>1 DEF Kept
  <2>2. CASE S \ {i} = {}
    BY <1>2, <2>1, <2>2
  <2>3. CASE S \ {i} # {}
    <3>1. S \ {i} \in SUBSET Entries
      BY <1>1
    <3>2. PICK x \in S \ {i} : \A j \in S \ {i} : failedAt[x] <= failedAt[j]
      BY <2>3, <3>1 DEF Ordered
    <3>3. \A j \in S : failedAt'[x] <= failedAt'[j]
      BY <1>2, <2>1, <3>2
    <3> QED BY <3>3
  <2> QED BY <2>2, <2>3
<1>5. Bounded'
  <2> DEFINE Rest == Entries \ Evict
  <2>1. Cardinality(Entries') <= Cardinality(Rest) + 1
    <3>1. IsFiniteSet(Rest) /\ Cardinality(Rest) \in Nat
      BY EvictMakesRoom
    <3>2. Cardinality(Rest \cup {i}) =
            IF i \in Rest THEN Cardinality(Rest) ELSE Cardinality(Rest) + 1
      BY <3>1, FS_AddElement
    <3> QED BY <1>1, <3>1, <3>2
  <2>2. Cardinality(Entries') \in Nat
    BY <1>3, FS_CardinalityType DEF Kept
  <2> QED BY <2>1, <2>2, EvictMakesRoom DEF Bounded, ConstantsOK
<1>6. LandedIsQueued'
  BY DEF Add, LandedIsQueued
<1>7. NothingLost'
  BY <1>1, <1>2 DEF Add, NothingLost, setting, Kept
<1>8. OnceInMemory'
  <2> SUFFICES ASSUME broker = "memory", NEW j \in Ids
               PROVE  queued'[j] + (IF j \in Entries' THEN 1 ELSE 0) <= fails'[j]
    BY DEF OnceInMemory, Add, setting
  <2>1. queued[j] + (IF j \in Entries THEN 1 ELSE 0) <= fails[j]
    BY DEF OnceInMemory, Add
  <2>2. queued'[j] = queued[j] /\ queued[j] \in Nat /\ fails[j] \in Nat
    BY DEF Add, Kept
  <2>3. fails'[j] = IF j = i THEN fails[j] + 1 ELSE fails[j]
    BY <1>2 DEF Kept
  <2>4. j \in Entries' /\ j # i => j \in Entries
    BY <1>1
  <2> QED BY <2>1, <2>2, <2>3, <2>4
<1>9. IndexingHasKeys'
  BY DEF IndexingHasKeys, Add, redisVars
<1>10. Tickets'
  <2> SUFFICES ASSUME NEW j \in Ids PROVE Paid(j)'
    BY DEF Tickets
  <2>1. Paid(j) /\ queued'[j] = queued[j] /\ doing' = doing /\ plan' = plan
    BY DEF Tickets, Add
  <2>2. CASE j = i
    <3>1. /\ fails'[j] = fails[j] + 1 /\ fails[j] \in Nat /\ queued[j] \in Nat
      BY <1>2, <2>2 DEF Kept
    <3>2. /\ (fails[j] + 1) * Cardinality(Retriers)
               = fails[j] * Cardinality(Retriers) + Cardinality(Retriers)
          /\ fails[j] * Cardinality(Retriers) \in Nat
      BY <3>1, ClaimsCount, OneMoreFailure
    <3> QED BY <2>1, <3>1, <3>2, ClaimsCount DEF Paid
  <2>3. CASE j # i
    <3>1. fails'[j] = fails[j]
      BY <1>2, <2>3 DEF Kept
    <3>2. Claims(j)' \subseteq Claims(j)
      BY <1>1, <2>1, <2>3, ClaimsCount DEF Claims, MayQueue, OnItsWay
    <3> QED BY <2>1, <3>1, <3>2, StaysPaid
  <2> QED BY <2>2, <2>3
<1> QED BY <1>3, <1>4, <1>5, <1>6, <1>7, <1>8, <1>9, <1>10

(* RedisDLQ.add_task(), whose queue in memory is empty for ever. *)
LEMMA WriteKeeps ==
  ASSUME IInv, NEW i \in Ids, Write(i)
  PROVE  IInv'
<1> USE DEF IInv, Write, setting
<1>1. Kept' /\ Ordered' /\ Bounded'
  BY DEF Kept, Ordered, Bounded, Entries, Fail
<1>2. LandedIsQueued' /\ NothingLost'
  BY DEF LandedIsQueued, NothingLost
<1>3. OnceInMemory' /\ IndexingHasKeys' /\ Tickets'
  BY DEF OnceInMemory, IndexingHasKeys, Tickets
<1> QED BY <1>1, <1>2, <1>3

(* remove_task() and clear() *)
LEMMA DroppingKeeps ==
  ASSUME ConstantsOK, IInv, NEW S \in SUBSET Entries,
         failedAt' = Restrict(failedAt, S),
         dropped' = dropped \cup (Entries \ S),
         UNCHANGED <<setting, redisVars, doing, plan, clock, fails, queued>>
  PROVE  IInv'
<1> USE DEF IInv, setting, redisVars
<1>1. /\ Entries' = S /\ failedAt' \in [Entries' -> 0..clock]
      /\ IsFiniteSet(Entries') /\ Ordered' /\ Bounded'
  BY Taken
<1>2. Kept'
  BY <1>1 DEF Kept
<1>3. LandedIsQueued' /\ IndexingHasKeys'
  BY DEF LandedIsQueued, IndexingHasKeys
<1>4. NothingLost'
  BY <1>1 DEF NothingLost
<1>5. OnceInMemory'
  BY <1>1 DEF OnceInMemory, Kept
<1>6. Tickets'
  <2> SUFFICES ASSUME kind = "local", NEW i \in Ids PROVE Paid(i)'
    BY DEF Tickets
  <2>1. Claims(i)' \subseteq Claims(i)
    BY <1>1, ClaimsCount DEF Claims, MayQueue, OnItsWay
  <2> QED BY <2>1, StaysPaid DEF Tickets
<1> QED BY <1>1, <1>2, <1>3, <1>4, <1>5, <1>6

(* A task that is queued once more. *)
LEMMA QueuedOnceMore ==
  ASSUME NEW h, queued \in [Ids -> Nat], queued' = [queued EXCEPT ![h] = @ + 1]
  PROVE  queued' \in [Ids -> Nat]
<1>1. queued' = [i \in Ids |-> IF i = h THEN queued[h] + 1 ELSE queued[i]]
  OBVIOUS
<1>2. \A i \in Ids : (IF i = h THEN queued[h] + 1 ELSE queued[i]) \in Nat
  OBVIOUS
<1> QED BY <1>1, <1>2

(* A retry over a broker in memory. *)
LEMMA QueueAtOnceKeeps ==
  ASSUME ConstantsOK, IInv, NEW r \in Retriers, QueueAtOnce(r)
  PROVE  IInv'
<1> DEFINE h == Head(plan[r])
<1> USE DEF IInv, setting, redisVars
<1>1. /\ broker = "memory" /\ failedAt' = Restrict(failedAt, Entries \ {h})
      /\ queued' = [queued EXCEPT ![h] = @ + 1]
      /\ UNCHANGED <<setting, redisVars, clock, fails, dropped>>
      /\ doing' = [doing EXCEPT ![r] = "stepping"]
      /\ kind = "local" => h \in Entries
  BY DEF QueueAtOnce, TakeOut, Accepts, Entry
<1>2. /\ Entries' = Entries \ {h} /\ failedAt' \in [Entries' -> 0..clock]
      /\ IsFiniteSet(Entries') /\ Ordered' /\ Bounded'
  BY <1>1, Taken
<1>3. Kept'
  <2>1. queued' \in [Ids -> Nat]
    BY <1>1, QueuedOnceMore DEF Kept
  <2> QED BY <1>1, <1>2, <2>1 DEF Kept, QueueAtOnce, NextOf
<1>4. LandedIsQueued' /\ IndexingHasKeys'
  BY <1>1 DEF OnceInMemory, LandedIsQueued, IndexingHasKeys, Kept
<1>5. NothingLost'
  BY <1>1, <1>2 DEF NothingLost, Kept
<1>6. OnceInMemory'
  <2>1. \A q \in Retriers : doing'[q] \notin {"sending", "landed"}
    BY <1>1 DEF OnceInMemory, Kept
  <2>2. ASSUME kind = "local", NEW i \in Ids
        PROVE  queued'[i] + (IF i \in Entries' THEN 1 ELSE 0) <= fails'[i]
    <3>1. queued[i] + (IF i \in Entries THEN 1 ELSE 0) <= fails[i]
      BY <1>1, <2>2 DEF OnceInMemory
    <3>2. queued[i] \in Nat /\ fails[i] \in Nat
      BY DEF Kept
    <3>3. CASE i = h
      BY <1>1, <1>2, <2>2, <3>1, <3>2, <3>3 DEF Kept
    <3>4. CASE i # h
      BY <1>1, <1>2, <3>1, <3>2, <3>4 DEF Kept
    <3> QED BY <3>3, <3>4
  <2> QED BY <1>1, <2>1, <2>2 DEF OnceInMemory
<1>7. Tickets'
  <2> SUFFICES ASSUME kind = "local", NEW i \in Ids PROVE Paid(i)'
    BY <1>1 DEF Tickets
  <2>1. /\ doing[r] \in {"stepping", "reading"} /\ doing'[r] = "stepping"
        /\ \A q \in Retriers \ {r} : doing'[q] = doing[q] /\ plan'[q] = plan[q]
        /\ Paid(i)
    BY <1>1 DEF QueueAtOnce, Accepts, Has, Stepping, NextOf, Kept, Tickets
  <2>2. CASE i = h
    <3>1. r \in Claims(i) /\ Claims(i)' \subseteq Claims(i) \ {r}
      BY <1>1, <1>2, <2>1, <2>2, ClaimsCount DEF Claims, MayQueue, OnItsWay
    <3>2. queued'[i] = queued[i] + 1 /\ fails'[i] = fails[i]
      BY <1>1, <2>2 DEF Kept
    <3> QED BY <2>1, <3>1, <3>2, ClaimUsed
  <2>3. CASE i # h
    <3>1. Claims(i)' \subseteq Claims(i)
      BY <1>2, <2>1, <2>3 DEF Claims, MayQueue, OnItsWay
    <3>2. queued'[i] = queued[i] /\ fails'[i] = fails[i]
      BY <1>1, <2>3 DEF Kept
    <3> QED BY <2>1, <3>1, <3>2, StaysPaid
  <2> QED BY <2>2, <2>3
<1> QED BY <1>2, <1>3, <1>4, <1>5, <1>6, <1>7

(* The task of a retry over Redis gets to the broker. *)
LEMMA LandKeeps ==
  ASSUME ConstantsOK, IInv, NEW r \in Retriers, Land(r)
  PROVE  IInv'
<1> DEFINE h == Head(plan[r])
<1> USE DEF IInv, setting, redisVars
<1>1. /\ doing[r] = "sending" /\ doing' = [doing EXCEPT ![r] = "landed"]
      /\ queued' = [queued EXCEPT ![h] = @ + 1]
      /\ UNCHANGED <<setting, failedAt, redisVars, plan, clock, fails, dropped>>
  BY DEF Land
<1>2. \A i \in Ids : queued'[i] >= queued[i] /\ queued'[i] \in Nat
  BY <1>1 DEF Kept
<1>3. Kept' /\ Ordered' /\ Bounded'
  <2>1. queued' \in [Ids -> Nat]
    BY <1>1, QueuedOnceMore DEF Kept
  <2>2. Ordered' /\ Bounded'
    BY <1>1 DEF Ordered, Bounded, Entries
  <2> QED BY <1>1, <2>1, <2>2 DEF Kept, Entries
<1>4. LandedIsQueued'
  <2> SUFFICES ASSUME NEW q \in Retriers, doing'[q] = "landed", Head(plan[q]) \in Ids
               PROVE  queued'[Head(plan[q])] > 0
    BY <1>1 DEF LandedIsQueued
  <2>1. CASE q = r
    BY <1>1, <2>1 DEF Kept
  <2>2. CASE q # r
    <3>1. queued[Head(plan[q])] > 0
      BY <1>1, <2>2 DEF LandedIsQueued, Kept
    <3> QED BY <1>2, <3>1 DEF Kept
  <2> QED BY <2>1, <2>2
<1>5. NothingLost'
  <2>1. \A i \in Ids : queued[i] > 0 => queued'[i] > 0
    BY <1>2 DEF Kept
  <2> QED BY <1>1, <2>1 DEF NothingLost, Entries
<1>6. OnceInMemory' /\ IndexingHasKeys'
  BY <1>1 DEF OnceInMemory, IndexingHasKeys
<1>7. Tickets'
  <2> SUFFICES ASSUME kind = "local", NEW i \in Ids PROVE Paid(i)'
    BY <1>1 DEF Tickets
  <2>1. /\ doing'[r] = "landed" /\ plan' = plan /\ Entries' = Entries /\ Paid(i)
        /\ \A q \in Retriers \ {r} : doing'[q] = doing[q]
    BY <1>1 DEF Kept, Tickets, Entries
  <2>2. CASE i = h
    <3>1. r \in Claims(i) /\ Claims(i)' \subseteq Claims(i) \ {r}
      BY <1>1, <2>1, <2>2 DEF Claims, MayQueue, OnItsWay
    <3>2. queued'[i] = queued[i] + 1 /\ fails'[i] = fails[i]
      BY <1>1, <2>2 DEF Kept
    <3> QED BY <2>1, <3>1, <3>2, ClaimUsed
  <2>3. CASE i # h
    <3>1. Claims(i)' \subseteq Claims(i)
      BY <1>1, <2>1, <2>3 DEF Claims, MayQueue, OnItsWay
    <3>2. queued'[i] = queued[i] /\ fails'[i] = fails[i]
      BY <1>1, <2>3 DEF Kept
    <3> QED BY <2>1, <3>1, <3>2, StaysPaid
  <2> QED BY <2>2, <2>3
<1> QED BY <1>3, <1>4, <1>5, <1>6, <1>7

(* The call goes on and removes the entry of the task that it has queued.  *)
LEMMA ResumeKeeps ==
  ASSUME ConstantsOK, IInv, NEW r \in Retriers, Resume(r)
  PROVE  IInv'
<1> DEFINE h == Head(plan[r])
<1> USE DEF IInv, setting, redisVars, history
<1>1. /\ doing[r] = "landed" /\ failedAt' = Restrict(failedAt, Entries \ {h})
      /\ doing' = [doing EXCEPT ![r] = "stepping"]
      /\ plan' = [plan EXCEPT ![r] = Tail(@)]
      /\ UNCHANGED <<setting, redisVars, clock, history>>
  BY DEF Resume, TakeOut, NextOf
<1>2. /\ Entries' = Entries \ {h} /\ failedAt' \in [Entries' -> 0..clock]
      /\ IsFiniteSet(Entries') /\ Ordered' /\ Bounded'
  BY <1>1, Taken
<1>3. Kept'
  BY <1>1, <1>2 DEF Kept
<1>4. LandedIsQueued' /\ IndexingHasKeys'
  BY <1>1 DEF LandedIsQueued, IndexingHasKeys, Kept
<1>5. NothingLost'
  BY <1>1, <1>2 DEF NothingLost, LandedIsQueued
<1>6. OnceInMemory'
  BY <1>1 DEF OnceInMemory
<1>7. Tickets'
  <2> SUFFICES ASSUME kind = "local", NEW i \in Ids PROVE Paid(i)'
    BY <1>1 DEF Tickets
  <2>1. /\ doing'[r] = "stepping"
        /\ \A q \in Retriers \ {r} : doing'[q] = doing[q] /\ plan'[q] = plan[q]
        /\ Paid(i)
    BY <1>1 DEF Kept, Tickets
  <2>2. Claims(i)' \subseteq Claims(i)
    <3>1. CASE i = h
      BY <1>1, <1>2, <2>1, <3>1, ClaimsCount DEF Claims, MayQueue, OnItsWay
    <3>2. CASE i # h
      BY <1>1, <1>2, <2>1, <3>2 DEF Claims, MayQueue, OnItsWay
    <3> QED BY <3>1, <3>2
  <2> QED BY <1>1, <2>1, <2>2, StaysPaid
<1> QED BY <1>2, <1>3, <1>4, <1>5, <1>6, <1>7

-----------------------------------------------------------------------------
(* Every step of a retry. *)
LEMMA StepKeeps ==
  ASSUME ConstantsOK, IInv, NEW r \in Retriers, Step(r)
  PROVE  IInv'
<1> USE DEF setting, redisVars, history, IInv
<1>1. doing = [q \in Retriers |-> doing[q]] /\ plan = [q \in Retriers |-> plan[q]]
  BY DEF Kept
<1>2. CASE Read(r)
  BY <1>1, <1>2, Moved DEF Read, Stepping, IndexingHasKeys
<1>10. CASE ReadFails(r)
  BY <1>1, <1>10, Moved DEF ReadFails, IndexingHasKeys
<1>3. CASE Refuse(r)
  BY <1>1, <1>3, Moved DEF Refuse, Has, Stepping, NextOf, IndexingHasKeys
<1>4. CASE QueueAtOnce(r)
  BY <1>4, QueueAtOnceKeeps
<1>5. CASE Send(r)
  <2>1. kind = "local" => Head(plan[r]) \in Entries
    BY <1>5 DEF Send, Accepts, Entry
  <2>2. doing[r] \notin {"landed", "over"}
    BY <1>5 DEF Send, Accepts, Has, Stepping
  <2> QED BY <1>1, <1>5, <2>1, <2>2, Moved DEF Send, IndexingHasKeys
<1>6. CASE Land(r)
  BY <1>6, LandKeeps
<1>7. CASE SendFails(r)
  BY <1>1, <1>7, Moved DEF SendFails, NextOf, IndexingHasKeys
<1>8. CASE Resume(r)
  BY <1>8, ResumeKeeps
<1>9. CASE Finish(r)
  BY <1>1, <1>9, Moved DEF Finish, IndexingHasKeys
<1> QED BY <1>2, <1>3, <1>4, <1>5, <1>6, <1>7, <1>8, <1>9, <1>10 DEF Step

(* IInv is an inductive invariant. *)
THEOREM Invariance == Spec => []IInv
<1> USE ConstantsOK
<1>1. Init => IInv
  <2> SUFFICES ASSUME Init PROVE IInv
    OBVIOUS
  <2>1. Entries = {} /\ failedAt \in [Entries -> 0..clock]
    BY DEF Init, Entries
  <2>2. Kept
    BY <2>1, FS_EmptySet DEF Init, Kept
  <2>3. Bounded /\ Ordered
    BY <2>1, FS_EmptySet DEF Bounded, Ordered, ConstantsOK
  <2>4. Tickets
    <3> SUFFICES ASSUME NEW i \in Ids PROVE Paid(i)
      BY DEF Tickets
    <3>1. Claims(i) = {}
      BY <2>1 DEF Init, Claims, OnItsWay
    <3>2. Cardinality(Claims(i)) = 0 /\ queued[i] = 0 /\ fails[i] = 0
      BY <3>1, FS_EmptySet DEF Init
    <3> QED BY <3>2, ClaimsCount DEF Paid
  <2> QED BY <2>1, <2>2, <2>3, <2>4
       DEF Init, IInv, LandedIsQueued, NothingLost, OnceInMemory, IndexingHasKeys
<1>2. IInv /\ [Next]_vars => IInv'
  <2> SUFFICES ASSUME IInv, [Next]_vars PROVE IInv'
    OBVIOUS
  <2> USE DEF setting, redisVars, history
  <2>1. doing = [q \in Retriers |-> doing[q]] /\ plan = [q \in Retriers |-> plan[q]]
    BY DEF IInv, Kept
  <2>2. indexing \cup index \subseteq keys
    BY DEF IInv, IndexingHasKeys
  <2>3. ASSUME NEW i \in Ids, Add(i) PROVE IInv'
    BY <2>3, AddKeeps
  <2>4. ASSUME NEW i \in Ids, Write(i) PROVE IInv'
    BY <2>4, WriteKeeps
  <2>5. ASSUME NEW i \in Ids, Index(i) PROVE IInv'
    BY <2>1, <2>2, <2>5, Moved DEF Index
  <2>6. ASSUME NEW i \in Ids, RemoveTask(i) PROVE IInv'
    <3>1. Entries \ (Entries \ {i}) = {i} /\ Entries \ {i} \in SUBSET Entries
      BY <2>6 DEF RemoveTask
    <3> QED BY <2>6, <3>1, DroppingKeeps DEF RemoveTask
  <2>7. ASSUME NEW n \in Names \cup {"any"}, Clear(n) PROVE IInv'
    <3> DEFINE Left == {i \in Entries : ~Named(n, i)}
    <3>1. Entries \ Left = {i \in Entries : Named(n, i)} /\ Left \in SUBSET Entries
      OBVIOUS
    <3> QED BY <2>7, <3>1, DroppingKeeps DEF Clear
  <2>8. ASSUME NEW r \in Retriers, NEW ids, Begin(r, ids) PROVE IInv'
    BY <2>1, <2>2, <2>8, Moved DEF Begin
  <2>9. ASSUME NEW r \in Retriers, Step(r) PROVE IInv'
    BY <2>9, StepKeeps
  <2>10. CASE StopLoop
    BY <2>1, <2>2, <2>10, Moved DEF StopLoop
  <2>11. CASE UNCHANGED vars
    BY <2>1, <2>2, <2>11, Moved DEF vars
  <2> QED
    BY <2>3, <2>4, <2>5, <2>6, <2>7, <2>8, <2>9, <2>10, <2>11
    DEF Next, RetryTask, RetryAll
<1> QED BY <1>1, <1>2, PTL DEF Spec

(* The queue in memory never holds more than max_size entries (add_task).  *)
THEOREM QueueIsBounded == Spec => []Bounded
BY Invariance, PTL DEF IInv

(* A failure kept in memory leaves only by a retry that queued its task,   *)
(* or was evicted, removed or cleared (retry_task, retry_all).             *)
THEOREM NoFailureIsLost == Spec => []NothingLost
BY Invariance, PTL DEF IInv

(* With a broker in memory no failure is queued again twice, however many  *)
(* calls of retry_task() and retry_all() there are.                        *)
THEOREM MemoryRetriesOnce ==
  Spec => [](kind = "local" /\ broker = "memory" =>
               \A i \in Ids : queued[i] <= fails[i])
<1>1. ASSUME IInv, kind = "local", broker = "memory", NEW i \in Ids
      PROVE  queued[i] <= fails[i]
  <2>1. queued[i] + (IF i \in Entries THEN 1 ELSE 0) <= fails[i]
    BY <1>1 DEF IInv, OnceInMemory
  <2>2. queued[i] \in Nat /\ fails[i] \in Nat
    BY <1>1 DEF IInv, Kept
  <2> QED BY <2>1, <2>2
<1>2. IInv => (kind = "local" /\ broker = "memory" => \A i \in Ids : queued[i] <= fails[i])
  BY <1>1
<1> QED BY <1>2, Invariance, PTL

(* However the calls of retry_task() and retry_all() overlap, a failure is *)
(* queued again at most once by each of them, and with a broker in memory  *)
(* by one of them only (retry_task).                                       *)
THEOREM RetriesAreBounded == Spec => []RetriedOnce
<1> USE ConstantsOK
<1>1. ASSUME IInv, kind = "local", NEW i \in Ids
      PROVE  queued[i] <= fails[i] * (IF broker = "memory" THEN 1 ELSE Cardinality(Retriers))
  <2>1. queued[i] \in Nat /\ fails[i] \in Nat
    BY <1>1 DEF IInv, Kept
  <2>2. CASE broker = "memory"
    <3>1. queued[i] + (IF i \in Entries THEN 1 ELSE 0) <= fails[i]
      BY <1>1, <2>2 DEF IInv, OnceInMemory
    <3> QED BY <2>1, <2>2, <3>1
  <2>3. CASE broker # "memory"
    <3>1. Paid(i)
      BY <1>1 DEF IInv, Tickets
    <3>2. fails[i] * Cardinality(Retriers) \in Nat
      BY <2>1, ClaimsCount, OneMoreFailure
    <3> QED BY <2>1, <2>3, <3>1, <3>2, ClaimsCount DEF Paid
  <2> QED BY <2>2, <2>3
<1>2. IInv => RetriedOnce
  BY <1>1 DEF RetriedOnce
<1> QED BY <1>2, Invariance, PTL

(* The sorted set of RedisDLQ names no task without an entry (add_task).   *)
THEOREM IndexIsBacked == Spec => []IndexHasKeys
<1>1. IInv => IndexHasKeys
  BY DEF IInv, IndexingHasKeys, IndexHasKeys
<1> QED BY <1>1, Invariance, PTL
=============================================================================
