------------------------- MODULE RateLimiterProofs -------------------------
(***************************************************************************)
(* Theorems about both limiters, for any callers, limit, period, burst and *)
(* timeouts: first the bucket of MemoryRateLimiter by itself, then what    *)
(* holds of a rate-limited task whichever limiter build_rate_limiter() has *)
(* made for it.  The window of RedisRateLimiter has its own proofs, in     *)
(* SlidingWindowProofs.                                                    *)
(***************************************************************************)
EXTENDS RateLimiter, FiniteSetTheorems, TLAPS

Count == Len(grants)

Grants == 1..Count

(* Grants are recorded in order, and none before there is a bucket. *)
GrantsInOrder ==
  /\ \A i \in Grants : grants[i] <= updated
  /\ \A i, j \in Grants : i <= j => grants[i] <= grants[j]
  /\ ~made => Count = 0

(* What was granted from the i-th on and what is left came from a full     *)
(* bucket and the refill since.                                            *)
Budget ==
  \A i \in Grants :
    (Count - i + 1) * Period + tokens <= Full + Limit * (updated - grants[i])

(* ... and nothing is lost but what a full bucket cannot hold. *)
NothingLost ==
  made => \/ tokens = Full
          \/ \E i \in Grants :
               (Count - i + 1) * Period + tokens
                 = Full + Limit * (updated - grants[i])

BucketInv == TypeOK /\ GrantsInOrder /\ Budget /\ NothingLost /\ RateBound

-----------------------------------------------------------------------------
(* Arithmetic: products of a bucket's constants with times and counts. *)

(* A product with a sum. *)
LEMMA Distribute ==
  ASSUME NEW k \in Int, NEW a \in Int, NEW b \in Int
  PROVE  /\ k * a \in Int
         /\ k * b \in Int
         /\ k * (a + b) = k * a + k * b
         /\ (a + b) * k = a * k + b * k
  OBVIOUS

(* A product grows with its factor. *)
LEMMA Grow ==
  ASSUME NEW k \in Nat, NEW a \in Nat
  PROVE  k * a \in Nat
  OBVIOUS

(* A full bucket holds a token. *)
LEMMA FullFacts ==
  ASSUME ConstantsOK
  PROVE  /\ Period \in Nat \ {0}
         /\ Limit \in Nat \ {0}
         /\ Full \in Nat
         /\ Period <= Full
  <1>1. Capacity \in Nat \ {0} BY DEF ConstantsOK, Capacity
  <1>2. Period \in Nat \ {0} /\ Limit \in Nat \ {0} BY DEF ConstantsOK
  <1>3. Full = (Capacity - 1) * Period + Period
    BY <1>1, <1>2, Distribute DEF Full
  <1>4. (Capacity - 1) * Period \in Nat BY <1>1, <1>2, Grow
  <1> QED BY <1>2, <1>3, <1>4

(* The level a refill finds lies between empty and full, and it is what    *)
(* was left and what has come since unless the bucket is full.             *)
LEMMA LevelFacts ==
  ASSUME TypeOK, ConstantsOK
  PROVE  /\ Limit * (now - updated) \in Nat
         /\ Level \in 0..Full
         /\ made => Level <= tokens + Limit * (now - updated)
         /\ made => Level = Full \/ Level = tokens + Limit * (now - updated)
         /\ ~made => Level = Full
  <1>1. now - updated \in Nat BY DEF TypeOK
  <1>2. Limit * (now - updated) \in Nat BY <1>1, FullFacts, Grow
  <1>3. tokens \in 0..Full /\ Full \in Nat BY FullFacts DEF TypeOK
  <1> DEFINE r == Limit * (now - updated)
  <1>4. Refill(now) = IF Full <= tokens + r THEN Full ELSE tokens + r
    BY DEF Refill, Smaller
  <1> HIDE DEF r
  <1>5. r \in Nat BY <1>2 DEF r
  <1>6. /\ Refill(now) \in 0..Full
        /\ Refill(now) <= tokens + r
        /\ Refill(now) = Full \/ Refill(now) = tokens + r
    BY <1>3, <1>4, <1>5
  <1>7. CASE made BY <1>2, <1>6, <1>7 DEF Level, r
  <1>8. CASE ~made
    <2>1. Level = Full BY <1>8 DEF Level
    <2> QED BY <1>2, <1>3, <1>8, <2>1
  <1> QED BY <1>7, <1>8

(* A product over a stretch of time splits at any moment in it. *)
LEMMA SplitTime ==
  ASSUME ConstantsOK, NEW a \in Int, NEW b \in Int, NEW c \in Int
  PROVE  /\ Limit * (c - a) = Limit * (b - a) + Limit * (c - b)
         /\ Limit * (c - a) \in Int
         /\ Limit * (b - a) \in Int
         /\ Limit * (c - b) \in Int
  <1>1. c - a = (b - a) + (c - b) OBVIOUS
  <1> QED BY <1>1, Distribute, FullFacts

(* A quotient rounded up. *)
LEMMA RoundUp ==
  ASSUME NEW a \in Nat \ {0}, NEW b \in Nat \ {0}
  PROVE  LET q == (a + b - 1) \div b IN
           /\ q \in Nat \ {0}
           /\ a <= b * q
           /\ b * (q - 1) < a
  <1> DEFINE x == a + b - 1
             q == x \div b
  <1>1. x \in Nat /\ x >= b OBVIOUS
  <1> HIDE DEF x
  <1>2. q \in Nat /\ b * q <= x /\ x < b * q + b
    <2>1. q \in Nat BY <1>1
    <2>2. x = b * q + (x % b) BY <1>1
    <2>3. x % b \in 0..(b - 1) BY <1>1
    <2>4. b * q \in Nat BY <2>1, Grow
    <2> HIDE DEF q
    <2> QED BY <1>1, <2>1, <2>2, <2>3, <2>4
  <1> HIDE DEF q
  <1>3. q # 0
    <2> SUFFICES ASSUME q = 0 PROVE FALSE OBVIOUS
    <2>1. b * q = 0 BY <1>2
    <2> QED BY <1>1, <1>2, <2>1
  <1>4. b * (q - 1) = b * q - b /\ b * q \in Int
    <2>1. b * ((q - 1) + 1) = b * (q - 1) + b * 1 /\ b * (q - 1) \in Int
      BY <1>2, Distribute
    <2>2. (q - 1) + 1 = q /\ b * 1 = b BY <1>2
    <2> QED BY <2>1, <2>2
  <1>5. q \in Nat \ {0} /\ a <= b * q /\ b * (q - 1) < a
    BY <1>1, <1>2, <1>3, <1>4 DEF x
  <1> QED BY <1>5 DEF q, x

(* Two levels that move with the time elapsed balance the same account. *)
LEMMA Balance ==
  ASSUME NEW s \in Int, NEW t \in Int, NEW a \in Int, NEW b \in Int,
         NEW d \in Int, NEW f \in Int,
         t - a = s - b, d + s = f + b
  PROVE  d + t = f + a
  OBVIOUS

(* One more grant is one more period. *)
LEMMA OneMore ==
  ASSUME ConstantsOK, NEW k \in Int
  PROVE  (k + 1) * Period = k * Period + Period /\ k * Period \in Int
  BY FullFacts, Distribute

-----------------------------------------------------------------------------
(* The four ways in which the bucket changes, apart from who asks. *)

(* The invariant holds with an unused bucket. *)
LEMMA InitInv == ConstantsOK /\ Init => BucketInv
  <1> SUFFICES ASSUME ConstantsOK, Init PROVE BucketInv OBVIOUS
  <1>1. TypeOK
    <2>1. made \in BOOLEAN BY DEF Init
    <2>2. now \in Nat /\ tokens \in 0..Full /\ updated \in 0..now
      BY FullFacts DEF Init
    <2>3. asleep \subseteq Callers /\ undisturbed \subseteq asleep
      BY DEF Init
    <2>4. started \in [Callers -> Nat] /\ wake \in [Callers -> Nat]
      BY DEF Init
    <2>5. grants \in Seq(0..now) BY DEF Init
    <2> QED BY <2>1, <2>2, <2>3, <2>4, <2>5 DEF TypeOK
  <1> QED BY <1>1 DEF Init, BucketInv, GrantsInOrder, Budget, NothingLost, RateBound,
                      Count, Grants

(* The types of the variables, at each step. *)
LEMMA TypeStep ==
  ASSUME ConstantsOK, TypeOK, [Next]_vars
  PROVE  TypeOK'
  <1> USE DEF TypeOK
  <1>1. Level \in 0..Full BY LevelFacts
  <1>2. ASSUME TakeToken, now' = now
        PROVE  made' \in BOOLEAN /\ tokens' \in 0..Full /\ updated' \in 0..now
               /\ grants' \in Seq(0..now)
    BY <1>1, <1>2, FullFacts DEF TakeToken, Enough
  <1>3. ASSUME FindNone, now' = now
        PROVE  made' \in BOOLEAN /\ tokens' \in 0..Full /\ updated' \in 0..now
               /\ grants' \in Seq(0..now)
    BY <1>1, <1>3 DEF FindNone
  <1>4. ASSUME Acquire PROVE TypeOK'
    BY <1>2, <1>3, <1>4 DEF Acquire
  <1>5. ASSUME NEW c \in Callers, Admit(c) PROVE TypeOK'
    BY <1>2, <1>5 DEF Admit
  <1>6. ASSUME NEW c \in Callers, GiveUp(c) PROVE TypeOK'
    BY <1>3, <1>6 DEF GiveUp
  <1>7. ASSUME NEW c \in Callers, Nap(c) PROVE TypeOK'
    <2>1. StartOf(c) \in Nat BY <1>7 DEF StartOf
    <2>2. UntilAvailable \in Nat
      <3>1. Period - Level \in Nat \ {0}
        BY <1>1, <1>7, FullFacts DEF Nap, FindNone, Enough
      <3> QED BY <3>1, RoundUp, FullFacts DEF UntilAvailable
    <2>3. NapEnd(c) \in Nat
      BY <2>1, <2>2 DEF NapEnd, Smaller, ConstantsOK
    <2> QED BY <1>3, <1>7, <2>1, <2>3 DEF Nap
  <1>8. ASSUME Reset PROVE TypeOK'
    <2>1. made' \in BOOLEAN BY <1>8 DEF Reset
    <2>2. /\ grants' = <<>>
          /\ undisturbed' = {}
          /\ UNCHANGED <<now, tokens, updated, asleep, started, wake>>
      BY <1>8 DEF Reset
    <2>3. grants' \in Seq(0..now) BY <2>2
    <2> QED BY <2>1, <2>2, <2>3
  <1>9. ASSUME Tick PROVE TypeOK'
    <2>1. Seq(0..now) \subseteq Seq(0..(now + 1))
      OBVIOUS
    <2> QED BY <1>9, <2>1 DEF Tick
  <1>10. ASSUME UNCHANGED vars PROVE TypeOK'
    BY <1>10 DEF vars
  <1> QED BY <1>4, <1>5, <1>6, <1>7, <1>8, <1>9, <1>10 DEF Next

(* A grant keeps the account. *)
LEMMA TakeStep ==
  ASSUME ConstantsOK, BucketInv, TypeOK', TakeToken, now' = now
  PROVE  BucketInv'
  <1> USE FullFacts
  <1> DEFINE n == Count
  <1>0. n \in Nat /\ tokens \in 0..Full /\ updated \in 0..now /\ now \in Nat
        /\ \A i \in 1..n : grants[i] \in 0..now
    BY DEF BucketInv, TypeOK, Count
  <1>1. /\ Count' = n + 1
        /\ grants'[n + 1] = now
        /\ \A i \in 1..n : grants'[i] = grants[i]
        /\ updated' = now
        /\ tokens' = Level - Period
        /\ made'
    BY <1>0 DEF TakeToken, BucketInv, TypeOK, Count
  <1>2. Level \in 0..Full BY LevelFacts DEF BucketInv
  <1>3. GrantsInOrder'
    <2>1. \A i \in 1..n : grants[i] <= now
      BY <1>0 DEF BucketInv, GrantsInOrder, Grants
    <2>2. \A i \in 1..(n + 1) : i \in 1..n \/ i = n + 1
      BY <1>0
    <2>3. \A i \in 1..(n + 1) : grants'[i] <= now
      BY <1>0, <1>1, <2>1, <2>2
    <2>4. ASSUME NEW i \in 1..(n + 1), NEW j \in 1..(n + 1), i <= j
          PROVE  grants'[i] <= grants'[j]
      <3>1. CASE j = n + 1 BY <1>1, <2>3, <3>1
      <3>2. CASE j \in 1..n
        <4>1. i \in 1..n BY <1>0, <2>4, <3>2
        <4> QED BY <1>1, <2>4, <3>2, <4>1 DEF BucketInv, GrantsInOrder, Grants
      <3> QED BY <2>2, <3>1, <3>2
    <2> QED BY <1>1, <2>3, <2>4 DEF GrantsInOrder, Grants
  <1>4. ASSUME NEW i \in 1..n
        PROVE  (n - i + 1) * Period + Level <= Full + Limit * (now - grants[i])
    <2>1. made BY <1>0 DEF BucketInv, GrantsInOrder
    <2>2. (n - i + 1) * Period + tokens <= Full + Limit * (updated - grants[i])
      BY DEF BucketInv, Budget, Grants
    <2>3. Level <= tokens + Limit * (now - updated) BY <2>1, LevelFacts DEF BucketInv
    <2>4. /\ Limit * (now - grants[i])
               = Limit * (updated - grants[i]) + Limit * (now - updated)
          /\ Limit * (updated - grants[i]) \in Int
          /\ Limit * (now - updated) \in Int
      BY <1>0, SplitTime
    <2>5. (n - i + 1) * Period \in Int BY <1>0, Distribute
    <2> HIDE DEF n
    <2> QED BY <1>0, <1>2, <2>2, <2>3, <2>4, <2>5
  <1>5. ASSUME NEW i \in 1..n
        PROVE  ((n + 1) - i + 1) * Period = (n - i + 1) * Period + Period
               /\ (n - i + 1) * Period \in Int
               /\ Limit * (now - grants[i]) \in Int
    <2>1. (n + 1) - i + 1 = (n - i + 1) + 1 BY <1>0
    <2>2. n - i + 1 \in Int BY <1>0
    <2>3. ((n - i + 1) + 1) * Period = (n - i + 1) * Period + Period
          /\ (n - i + 1) * Period \in Int
      BY <2>2, OneMore
    <2> QED BY <1>0, <2>1, <2>3, SplitTime
  <1>6. Limit * (now - now) = 0 /\ ((n + 1) - (n + 1) + 1) * Period = Period
    BY <1>0
  <1>7. Budget'
    <2> SUFFICES ASSUME NEW i \in 1..(n + 1)
                 PROVE  ((n + 1) - i + 1) * Period + (Level - Period)
                          <= Full + Limit * (now - grants'[i])
      BY <1>1 DEF Budget, Grants
    <2>1. CASE i = n + 1
      <3>1. ((n + 1) - i + 1) * Period = Period /\ Limit * (now - grants'[i]) = 0
        BY <1>1, <1>6, <2>1
      <3> HIDE DEF n
      <3> QED BY <1>2, <3>1
    <2>2. CASE i \in 1..n BY <1>1, <1>2, <1>4, <1>5, <2>2
    <2> QED BY <1>0, <2>1, <2>2
  <1>8. NothingLost'
    <2>1. CASE Level = Full
      <3>1. ((n + 1) - (n + 1) + 1) * Period + (Level - Period)
              = Full + Limit * (now - grants'[n + 1])
        BY <1>1, <1>2, <1>6, <2>1
      <3>2. n + 1 \in 1..(n + 1) BY <1>0
      <3> HIDE DEF n
      <3> QED BY <1>1, <3>1, <3>2 DEF NothingLost, Grants
    <2>2. CASE Level # Full
      <3>1. made /\ Level = tokens + Limit * (now - updated) /\ tokens # Full
        BY <1>0, <1>2, <2>2, LevelFacts DEF BucketInv
      <3>2. PICK i \in 1..n : (n - i + 1) * Period + tokens
                                = Full + Limit * (updated - grants[i])
        BY <3>1 DEF BucketInv, NothingLost, Grants
      <3>3. /\ Limit * (now - grants[i])
                 = Limit * (updated - grants[i]) + Limit * (now - updated)
            /\ Limit * (updated - grants[i]) \in Int
            /\ Limit * (now - updated) \in Int
        BY <1>0, SplitTime
      <3>4. ((n + 1) - i + 1) * Period + (Level - Period)
              = Full + Limit * (now - grants'[i])
        <4> HIDE DEF n
        <4> QED BY <1>0, <1>1, <1>2, <1>5, <3>1, <3>2, <3>3
      <3>5. i \in 1..(n + 1) BY <1>0
      <3> HIDE DEF n
      <3> QED BY <1>1, <3>4, <3>5 DEF NothingLost, Grants
    <2> QED BY <2>1, <2>2
  <1>9. RateBound'
    <2> SUFFICES ASSUME NEW i \in 1..(n + 1), NEW j \in 1..(n + 1), i <= j
                 PROVE  (j - i + 1) * Period <= Full + Limit * (grants'[j] - grants'[i])
      BY <1>1 DEF RateBound, Count
    <2>1. CASE j \in 1..n
      <3>1. i \in 1..n BY <1>0, <2>1
      <3> QED BY <1>1, <2>1, <3>1 DEF BucketInv, RateBound, Count
    <2>2. CASE j = n + 1 /\ i = n + 1
      <3>1. (j - i + 1) * Period = Period /\ Limit * (grants'[j] - grants'[i]) = 0
        BY <1>1, <1>6, <2>2
      <3> HIDE DEF n
      <3> QED BY <3>1
    <2>3. CASE j = n + 1 /\ i \in 1..n
      <3>1. Period <= Level BY DEF TakeToken, Enough
      <3> QED BY <1>1, <1>2, <1>4, <1>5, <2>3, <3>1
    <2> QED BY <1>0, <2>1, <2>2, <2>3
  <1> QED BY <1>3, <1>7, <1>8, <1>9 DEF BucketInv

(* A refusal leaves what a refill finds at any time as it was. *)
LEMMA FindNoneFacts ==
  ASSUME ConstantsOK, TypeOK, FindNone, now' = now
  PROVE  /\ made /\ made'
         /\ tokens' = tokens + Limit * (now - updated)
         /\ updated' = now /\ grants' = grants
         /\ Level < Period /\ Level = tokens'
         /\ \A t \in Int : tokens' + Limit * (t - updated')
                           = tokens + Limit * (t - updated)
  <1>1. Level \in 0..Full /\ Level < Period
    BY LevelFacts, FullFacts DEF FindNone, Enough
  <1>2. made BY <1>1, LevelFacts, FullFacts
  <1>3. /\ made' /\ tokens' = Level /\ updated' = now /\ grants' = grants
    BY DEF FindNone
  <1>4. Level = tokens + Limit * (now - updated)
    BY <1>1, <1>2, LevelFacts, FullFacts
  <1>5. ASSUME NEW t \in Int
        PROVE  tokens' + Limit * (t - updated') = tokens + Limit * (t - updated)
    <2>1. now \in Int /\ updated \in Int /\ tokens \in Int BY FullFacts DEF TypeOK
    <2>2. /\ Limit * (t - updated) = Limit * (now - updated) + Limit * (t - now)
          /\ Limit * (now - updated) \in Int /\ Limit * (t - now) \in Int
      BY <2>1, SplitTime
    <2> QED BY <1>3, <1>4, <2>1, <2>2
  <1> QED BY <1>1, <1>2, <1>3, <1>4, <1>5

(* A refusal keeps the account. *)
LEMMA FindNoneStep ==
  ASSUME ConstantsOK, BucketInv, TypeOK', FindNone, now' = now
  PROVE  BucketInv'
  <1>1. /\ made /\ made' /\ updated' = now /\ grants' = grants
        /\ \A t \in Int : tokens' + Limit * (t - updated')
                          = tokens + Limit * (t - updated)
        /\ tokens' < Period
    BY FindNoneFacts DEF BucketInv
  <1>2. /\ Count' = Count /\ Count \in Nat
        /\ tokens \in Int /\ tokens' \in Int /\ now \in Int /\ updated \in Int
        /\ updated <= now
        /\ \A i \in Grants : grants[i] \in Int
    BY <1>1, FullFacts DEF BucketInv, TypeOK, Count, Grants
  <1>3. GrantsInOrder'
    BY <1>1, <1>2 DEF BucketInv, GrantsInOrder, Grants
  <1>4. ASSUME NEW i \in Grants
        PROVE  tokens' - Limit * (updated' - grants[i])
                 = tokens - Limit * (updated - grants[i])
               /\ Limit * (updated' - grants[i]) \in Int
               /\ Limit * (updated - grants[i]) \in Int
               /\ (Count - i + 1) * Period \in Int
    <2>1. tokens' + Limit * (grants[i] - updated')
            = tokens + Limit * (grants[i] - updated)
      BY <1>1, <1>2
    <2>2. ASSUME NEW a \in Int, NEW b \in Int
          PROVE  Limit * (a - b) = 0 - Limit * (b - a) /\ Limit * (b - a) \in Int
      <3>1. Limit * (a - a) = Limit * (b - a) + Limit * (a - b)
            /\ Limit * (b - a) \in Int /\ Limit * (a - b) \in Int
        BY SplitTime
      <3>2. Limit * (a - a) = 0 BY FullFacts
      <3> QED BY <3>1, <3>2
    <2>3. updated' \in Int BY <1>1, <1>2
    <2>4. (Count - i + 1) * Period \in Int
      BY <1>2, FullFacts, Distribute DEF Grants
    <2> QED BY <1>2, <2>1, <2>2, <2>3, <2>4
  <1>5. Budget'
    <2> SUFFICES ASSUME NEW i \in Grants
                 PROVE  (Count - i + 1) * Period + tokens'
                          <= Full + Limit * (updated' - grants[i])
      BY <1>1, <1>2 DEF Budget, Grants
    <2>1. (Count - i + 1) * Period + tokens <= Full + Limit * (updated - grants[i])
      BY DEF BucketInv, Budget
    <2> QED BY <1>2, <1>4, <2>1, FullFacts
  <1>6. NothingLost'
    <2>1. tokens # Full
      <3>1. Level # Full BY FindNoneFacts, LevelFacts, FullFacts DEF BucketInv
      <3>2. Level = tokens + Limit * (now - updated) /\ Level \in 0..Full
            /\ Limit * (now - updated) \in Nat /\ Level < Period
        BY <1>1, <3>1, LevelFacts, FindNoneFacts DEF BucketInv
      <3> QED BY <1>2, <3>1, <3>2, FullFacts
    <2>2. PICK i \in Grants : (Count - i + 1) * Period + tokens
                              = Full + Limit * (updated - grants[i])
      BY <1>1, <2>1 DEF BucketInv, NothingLost
    <2>3. (Count - i + 1) * Period + tokens' = Full + Limit * (updated' - grants[i])
      <3>1. /\ tokens' - Limit * (updated' - grants[i])
                 = tokens - Limit * (updated - grants[i])
            /\ Limit * (updated' - grants[i]) \in Int
            /\ Limit * (updated - grants[i]) \in Int
            /\ (Count - i + 1) * Period \in Int
        BY <1>4
      <3>2. tokens \in Int /\ tokens' \in Int /\ Full \in Int BY <1>2, FullFacts
      <3> QED BY <2>2, <3>1, <3>2, Balance
    <2>4. \E k \in Grants' : ((Count - k + 1) * Period + tokens)'
                              = Full + Limit * (updated' - grants'[k])
      <3>1. Grants' = Grants BY <1>2 DEF Grants
      <3>2. ((Count - i + 1) * Period + tokens)' = (Count - i + 1) * Period + tokens'
        BY <1>2
      <3>3. grants'[i] = grants[i] BY <1>1
      <3> QED BY <2>3, <3>1, <3>2, <3>3
    <2> QED BY <2>4 DEF NothingLost, Full, Capacity
  <1>7. RateBound' BY <1>1 DEF BucketInv, RateBound
  <1> QED BY <1>3, <1>5, <1>6, <1>7 DEF BucketInv

-----------------------------------------------------------------------------
(* The invariant is inductive. *)
LEMMA BucketStep == ASSUME BucketInv, [Next]_vars PROVE BucketInv'
  <1> USE ConstantsOK
  <1>1. TypeOK' BY TypeStep DEF BucketInv
  <1>2. CASE Acquire
    BY <1>1, <1>2, TakeStep, FindNoneStep DEF Acquire
  <1>3. ASSUME NEW c \in Callers, Admit(c) PROVE BucketInv'
    BY <1>1, <1>3, TakeStep DEF Admit
  <1>4. ASSUME NEW c \in Callers, GiveUp(c) PROVE BucketInv'
    BY <1>1, <1>4, FindNoneStep DEF GiveUp
  <1>5. ASSUME NEW c \in Callers, Nap(c) PROVE BucketInv'
    BY <1>1, <1>5, FindNoneStep DEF Nap
  <1>6. CASE Reset
    <2>1. ~made' /\ grants' = <<>> BY <1>6 DEF Reset
    <2>2. Count' = 0 /\ Grants' = {} BY <2>1 DEF Count, Grants
    <2>3. GrantsInOrder' BY <2>2 DEF GrantsInOrder
    <2>4. Budget' BY <2>2 DEF Budget
    <2>5. NothingLost' BY <2>1 DEF NothingLost
    <2>6. RateBound' BY <2>1 DEF RateBound
    <2> QED BY <1>1, <2>3, <2>4, <2>5, <2>6 DEF BucketInv
  <1>7. CASE UNCHANGED <<made, tokens, updated, grants>>
    <2>1. Count' = Count /\ Grants' = Grants BY <1>7 DEF Count, Grants
    <2>2. GrantsInOrder' BY <1>7, <2>1 DEF BucketInv, GrantsInOrder
    <2>3. Budget' BY <1>7, <2>1 DEF BucketInv, Budget
    <2>4. NothingLost' BY <1>7, <2>1 DEF BucketInv, NothingLost
    <2>5. RateBound' BY <1>7 DEF BucketInv, RateBound
    <2> QED BY <1>1, <2>2, <2>3, <2>4, <2>5 DEF BucketInv
  <1>8. CASE Tick BY <1>7, <1>8 DEF Tick
  <1>9. CASE UNCHANGED vars BY <1>7, <1>9 DEF vars
  <1> QED BY <1>2, <1>3, <1>4, <1>5, <1>6, <1>8, <1>9 DEF Next

THEOREM BucketInvariance == Spec => []BucketInv
  <1>1. Init => BucketInv BY ConstantsOK, InitInv
  <1>2. BucketInv /\ [Next]_vars => BucketInv' BY BucketStep
  <1> QED BY <1>1, <1>2, PTL DEF Spec

(* Every variable keeps its type; no bucket goes below empty or over full. *)
THEOREM BucketTypes == Spec => []TypeOK
  <1>1. BucketInv => TypeOK BY DEF BucketInv
  <1> QED BY <1>1, BucketInvariance, PTL

(* Between resets no stretch of time sees more grants than the burst and   *)
(* its refill.                                                             *)
THEOREM RateIsBounded == Spec => []RateBound
  <1>1. BucketInv => RateBound BY DEF BucketInv
  <1> QED BY <1>1, BucketInvariance, PTL

(* Whoever finds no token would break the bound with one. *)
LEMMA RefusalNeeded == ASSUME BucketInv PROVE RefusalJustified
  <1> USE ConstantsOK
  <1> SUFFICES ASSUME ~Enough
               PROVE  \E i \in 1..Len(grants) :
                        (Len(grants) - i + 2) * Period > Full + Limit * (now - grants[i])
    BY DEF RefusalJustified
  <1>1. Level \in 0..Full /\ Level < Period
    BY LevelFacts, FullFacts DEF BucketInv, Enough
  <1>2. /\ made
        /\ Level = tokens + Limit * (now - updated)
        /\ Limit * (now - updated) \in Nat
    BY <1>1, LevelFacts, FullFacts DEF BucketInv
  <1>3. tokens # Full BY <1>1, <1>2, FullFacts DEF BucketInv, TypeOK
  <1>4. PICK i \in Grants : (Count - i + 1) * Period + tokens
                            = Full + Limit * (updated - grants[i])
    BY <1>2, <1>3 DEF BucketInv, NothingLost
  <1>5. /\ Count \in Nat /\ now \in Int /\ updated \in Int /\ grants[i] \in Int
        /\ tokens \in Int /\ i \in Int
    BY FullFacts DEF BucketInv, TypeOK, Count, Grants
  <1>6. /\ Limit * (now - grants[i])
             = Limit * (updated - grants[i]) + Limit * (now - updated)
        /\ Limit * (updated - grants[i]) \in Int
    BY <1>5, SplitTime
  <1>7. (Count - i + 2) * Period = (Count - i + 1) * Period + Period
        /\ (Count - i + 1) * Period \in Int
    <2>1. Count - i + 2 = (Count - i + 1) + 1 /\ Count - i + 1 \in Int BY <1>5
    <2> QED BY <2>1, OneMore
  <1>8. (Count - i + 2) * Period > Full + Limit * (now - grants[i])
    BY <1>1, <1>2, <1>4, <1>5, <1>6, <1>7, FullFacts
  <1> QED BY <1>8 DEF Count, Grants

THEOREM RefusalsAreJustified == Spec => []RefusalJustified
  <1>1. BucketInv => RefusalJustified BY RefusalNeeded
  <1> QED BY <1>1, BucketInvariance, PTL

-----------------------------------------------------------------------------
(* What NapFits says of one caller. *)
NapFitsFor(c) ==
  /\ Timeout[c] # Never => wake[c] <= started[c] + Timeout[c]
  /\ \/ Refill(wake[c]) >= Period
     \/ Timeout[c] # Never /\ wake[c] = started[c] + Timeout[c]
  /\ Refill(wake[c] - 1) < Period

(* A nap just begun fits. *)
LEMMA NewNapFits ==
  ASSUME ConstantsOK, TypeOK, NEW c \in Callers, Nap(c)
  PROVE  NapFitsFor(c)'
  <1> DEFINE q == UntilAvailable
             R(t) == Smaller(Full, tokens' + Limit * (t - updated'))
  <1>1. /\ Level \in Nat /\ Level < Period /\ tokens' = Level /\ updated' = now
        /\ now \in Nat
    BY LevelFacts, FullFacts, FindNoneFacts DEF Nap, FindNone, TypeOK
  <1>2. /\ q \in Nat \ {0}
        /\ Period - Level <= Limit * q
        /\ Limit * (q - 1) < Period - Level
    <2>1. Period - Level \in Nat \ {0} BY <1>1, FullFacts
    <2> QED BY <2>1, RoundUp, FullFacts DEF UntilAvailable
  <1>3. wake'[c] = NapEnd(c) /\ started'[c] = StartOf(c) /\ StartOf(c) \in Nat
    BY DEF Nap, StartOf, TypeOK
  <1> HIDE DEF q
  <1>4. \A t \in Int : R(t) = Smaller(Full, Level + Limit * (t - now))
    BY <1>1
  <1>R. Refill(wake[c])' = R(wake'[c]) /\ Refill(wake[c] - 1)' = R(wake'[c] - 1)
    BY DEF Refill, Full, Capacity
  <1> HIDE DEF R
  <1>5. R(now + q) >= Period
    <2>1. (now + q) - now = q BY <1>1, <1>2
    <2>2. R(now + q) = Smaller(Full, Level + Limit * q)
      BY <1>1, <1>2, <1>4, <2>1
    <2>3. Limit * q \in Int BY <1>2, FullFacts, Distribute
    <2> QED BY <1>1, <1>2, <2>2, <2>3, FullFacts DEF Smaller
  <1>6. ASSUME NEW t \in Int, now < t, t <= now + q
        PROVE  R(t - 1) < Period
    <2>1. Limit * ((now + q) - t) \in Nat BY <1>1, <1>2, <1>6, Grow, FullFacts
    <2>2. Limit * (q - 1) = Limit * ((now + q) - t) + Limit * (t - 1 - now)
          /\ Limit * (q - 1) \in Int /\ Limit * (t - 1 - now) \in Int
      <3>1. q - 1 = ((now + q) - t) + (t - 1 - now) BY <1>1, <1>2
      <3> QED BY <1>1, <1>2, <3>1, Distribute, FullFacts
    <2>3. R(t - 1) = Smaller(Full, Level + Limit * (t - 1 - now))
      BY <1>1, <1>4
    <2> QED BY <1>1, <1>2, <2>1, <2>2, <2>3, FullFacts DEF Smaller
  <1>7. CASE Timeout[c] = Never
    <2>1. wake'[c] = now + q BY <1>3, <1>7 DEF NapEnd, q
    <2>2. Refill(wake[c])' >= Period BY <1>5, <1>R, <2>1
    <2>3. R(now + q - 1) < Period BY <1>1, <1>2, <1>6
    <2>4. R(wake'[c] - 1) < Period
      <3>1. wake'[c] - 1 = now + q - 1 BY <1>1, <1>2, <2>1
      <3> QED BY <2>3, <3>1
    <2>5. Refill(wake[c] - 1)' < Period BY <1>R, <2>4
    <2> QED BY <1>7, <2>2, <2>5 DEF NapFitsFor
  <1>8. CASE Timeout[c] # Never
    <2>1. Timeout[c] \in Nat BY <1>8 DEF ConstantsOK
    <2> DEFINE d == StartOf(c) + Timeout[c]
    <2>2. now < d
      BY <1>1, <1>3, <1>8, <2>1 DEF Nap, TimedOut
    <2>3. wake'[c] = Smaller(now + q, d) BY <1>3, <1>8 DEF NapEnd, q
    <2>4. d = (started[c] + Timeout[c])' BY <1>3
    <2>5. d \in Nat BY <1>3, <2>1
    <2> HIDE DEF d
    <2>6. /\ wake'[c] <= d /\ wake'[c] \in Int /\ now < wake'[c] /\ wake'[c] <= now + q
          /\ wake'[c] = now + q \/ wake'[c] = d
      BY <1>1, <1>2, <2>2, <2>3, <2>5 DEF Smaller
    <2>7. R(wake'[c] - 1) < Period BY <1>6, <2>6
    <2>8. Refill(wake[c] - 1)' < Period BY <1>R, <2>7
    <2>9. wake'[c] = now + q => Refill(wake[c])' >= Period BY <1>5, <1>R
    <2> QED BY <1>8, <2>4, <2>6, <2>8, <2>9 DEF NapFitsFor
  <1> QED BY <1>7, <1>8

(* A refusal to somebody else does not change whether a nap fits. *)
LEMMA OldNapFits ==
  ASSUME ConstantsOK, TypeOK, FindNone, now' = now, NEW c \in Callers,
         wake'[c] = wake[c], started'[c] = started[c], NapFitsFor(c)
  PROVE  NapFitsFor(c)'
  <1>1. \A t \in Int : Refill(t)' = Refill(t)
    BY FindNoneFacts DEF Refill, Full, Capacity
  <1>2. wake[c] \in Int /\ wake[c] - 1 \in Int BY DEF TypeOK
  <1>3. Refill(wake[c])' = Refill(wake[c]) /\ Refill(wake[c] - 1)' = Refill(wake[c] - 1)
    <2>1. Smaller(Full, tokens' + Limit * (wake[c] - updated'))
            = Smaller(Full, tokens + Limit * (wake[c] - updated))
          /\ Smaller(Full, tokens' + Limit * (wake[c] - 1 - updated'))
               = Smaller(Full, tokens + Limit * (wake[c] - 1 - updated))
      BY <1>2, FindNoneFacts
    <2> QED BY <2>1 DEF Refill, Full, Capacity
  <1> QED BY <1>3 DEF NapFitsFor

(* Every step keeps the naps fitting. *)
LEMMA NapsKeepFitting == ASSUME TypeOK, NapFits, [Next]_vars PROVE NapFits'
  <1> USE ConstantsOK
  <1> SUFFICES ASSUME NEW c \in undisturbed'
               PROVE  NapFitsFor(c)'
    BY DEF NapFits, NapFitsFor
  <1>1. undisturbed \subseteq Callers BY DEF TypeOK
  <1>2. \A b \in undisturbed : NapFitsFor(b) BY DEF NapFits, NapFitsFor
  <1>3. CASE Acquire BY <1>1, <1>2, <1>3, OldNapFits DEF Acquire
  <1>4. ASSUME NEW b \in Callers, Admit(b) PROVE NapFitsFor(c)'
    BY <1>4 DEF Admit
  <1>5. ASSUME NEW b \in Callers, GiveUp(b) PROVE NapFitsFor(c)'
    BY <1>1, <1>2, <1>5, OldNapFits DEF GiveUp
  <1>6. ASSUME NEW b \in Callers, Nap(b) PROVE NapFitsFor(c)'
    <2>1. CASE c = b BY <1>6, <2>1, NewNapFits
    <2>2. CASE c # b
      <3>1. c \in undisturbed /\ wake'[c] = wake[c] /\ started'[c] = started[c]
        BY <1>6, <2>2 DEF Nap, TypeOK
      <3> QED BY <1>1, <1>2, <1>6, <3>1, OldNapFits DEF Nap
    <2> QED BY <2>1, <2>2
  <1>7. CASE Reset BY <1>7 DEF Reset
  <1>8. CASE UNCHANGED <<tokens, updated, started, wake, undisturbed>>
    BY <1>2, <1>8 DEF NapFitsFor, Refill, Full, Capacity
  <1>9. CASE Tick BY <1>8, <1>9 DEF Tick
  <1>10. CASE UNCHANGED vars BY <1>8, <1>10 DEF vars
  <1> QED BY <1>3, <1>4, <1>5, <1>6, <1>7, <1>9, <1>10 DEF Next

(* Nobody naps longer than the token takes to come, and nobody shorter     *)
(* unless to be in time for the timeout.                                   *)
THEOREM NapsFit == Spec => []NapFits
  <1>1. Init => NapFits BY DEF Init, NapFits
  <1>2. TypeOK /\ NapFits /\ [Next]_vars => NapFits' BY NapsKeepFitting
  <1> QED BY <1>1, <1>2, BucketTypes, PTL DEF Spec

-----------------------------------------------------------------------------
W == INSTANCE SlidingWindowProofs

(* Nobody calls a RedisRateLimiter that was not made ... *)
Untouched ==
  /\ window = {} /\ admitted = {} /\ passed = {} /\ dies = Never
  /\ doing = [c \in Callers |-> "out"]
  /\ asked = [c \in Callers |-> 0]

(* ... nor a MemoryRateLimiter. *)
Unused ==
  /\ made = FALSE /\ tokens = Full /\ updated = 0
  /\ asleep = {} /\ grants = <<>> /\ undisturbed = {}

IInv ==
  \/ backend = "redis" /\ W!IInv /\ Unused
  \/ backend = "memory" /\ Untouched /\ BucketInv /\ NapFits

-----------------------------------------------------------------------------
(* The module is instantiated twice, in RateLimiter and here, and counts   *)
(* with a copy of FiniteSets each time.                                    *)
LEMMA SameFinite == ASSUME NEW S PROVE Window!IsFiniteSet(S) = W!IsFiniteSet(S)
BY Zenon DEF Window!IsFiniteSet, W!IsFiniteSet

LEMMA SameCardinality == ASSUME NEW S PROVE Window!Cardinality(S) = W!Cardinality(S)
BY Zenon DEF Window!Cardinality, W!Cardinality

LEMMA SameConstants == W!ConstantsOK
BY WindowConstantsOK, SameFinite DEF Window!ConstantsOK, W!ConstantsOK

LEMMA SameInit == ASSUME Window!Init PROVE W!Init
BY DEF Window!Init, W!Init

LEMMA SamePass == ASSUME NEW c PROVE W!Pass(c) = Window!Pass(c)
<1>1. W!InWindow(c) = Window!InWindow(c)
  BY DEF W!InWindow, Window!InWindow
<1> QED BY <1>1, SameCardinality DEF Window!Pass, W!Pass

LEMMA SameRefusal ==
  ASSUME NEW c
  PROVE  /\ Window!GiveUp(c) => W!GiveUp(c)
         /\ Window!Nap(c) => W!Nap(c)
<1>1. Window!GiveUp(c) => W!GiveUp(c)
  BY SamePass DEF Window!GiveUp, W!GiveUp, Window!RefusedWindow, W!RefusedWindow,
     Window!InWindow, W!InWindow, Window!KeyStays, W!KeyStays, Window!TimedOut, W!TimedOut, Window!Dead, W!Dead
<1>2. Window!Nap(c) => W!Nap(c)
  BY SamePass DEF Window!Nap, W!Nap, Window!RefusedWindow, W!RefusedWindow,
     Window!InWindow, W!InWindow, Window!KeyStays, W!KeyStays, Window!TimedOut, W!TimedOut, Window!Dead, W!Dead,
     Window!NapEnd, W!NapEnd
<1> QED BY <1>1, <1>2

LEMMA SameNext == ASSUME Window!Next PROVE W!Next
<1>1. /\ Window!Expire => W!Expire
      /\ Window!Reset => W!Reset
      /\ Window!Tick => W!Tick
  BY DEF Window!Expire, W!Expire, Window!Reset, W!Reset, Window!Tick, W!Tick,
         Window!Dead, W!Dead
<1>2. ASSUME NEW c \in Callers
      PROVE  /\ Window!Ask(c) => W!Ask(c)
             /\ Window!Count(c) => W!Count(c)
             /\ Window!Add(c) => W!Add(c)
             /\ Window!Renew(c) => W!Renew(c)
  BY SamePass DEF Window!Ask, W!Ask, Window!Count, W!Count, Window!Add, W!Add,
     Window!Renew, W!Renew, Window!Dead, W!Dead, Window!InWindow, W!InWindow,
     Window!KeyStays, W!KeyStays
<1> QED BY <1>1, <1>2, SameRefusal DEF Window!Next, W!Next

(* A step of the limiter in Redis is one of the window, a step of the one  *)
(* in memory one of the bucket; each leaves the other alone.               *)
LEMMA NextIInv == ASSUME IInv, [LimiterNext]_limiterVars PROVE IInv'
<1>1. CASE /\ backend = "memory" /\ backend' = "memory" /\ [Next]_vars
           /\ UNCHANGED <<window, dies, doing, asked, admitted, passed>>
  <2>1. Untouched /\ BucketInv /\ NapFits
    BY <1>1 DEF IInv
  <2>2. Untouched'
    BY <1>1, <2>1 DEF Untouched
  <2>3. BucketInv' /\ NapFits'
    BY <1>1, <2>1, BucketStep, NapsKeepFitting DEF BucketInv
  <2> QED BY <1>1, <2>2, <2>3 DEF IInv
<1>2. CASE /\ backend = "redis" /\ backend' = "redis" /\ [W!Next]_(W!vars)
           /\ UNCHANGED <<made, tokens, updated, asleep, grants, undisturbed>>
  <2>1. W!IInv /\ Unused
    BY <1>2 DEF IInv
  <2>2. Unused'
    BY <1>2, <2>1 DEF Unused, Full, Capacity
  <2>3. W!IInv'
    BY <1>2, <2>1, SameConstants, W!NextIInv
  <2> QED BY <1>2, <2>2, <2>3 DEF IInv
<1>3. CASE LimiterNext
  BY <1>1, <1>2, <1>3, SameNext DEF LimiterNext
<1>4. CASE UNCHANGED limiterVars
  BY <1>1, <1>2, <1>4 DEF limiterVars, vars, IInv, W!vars
<1> QED BY <1>3, <1>4

LEMMA InitBoth == ASSUME LimiterInit PROVE IInv
<1>1. W!IInv
  BY SameConstants, SameInit, W!InitIInv DEF LimiterInit
<1>2. BucketInv /\ NapFits
  BY ConstantsOK, InitInv DEF LimiterInit, Init, NapFits
<1>3. Untouched /\ Unused
  BY DEF LimiterInit, Init, Window!Init, Untouched, Unused
<1> QED BY <1>1, <1>2, <1>3 DEF LimiterInit, IInv

(* The invariants of the window and the bucket are one of the limiter. *)
THEOREM Invariance == LimiterSpec => []IInv
<1> QED BY InitBoth, NextIInv, PTL DEF LimiterSpec

-----------------------------------------------------------------------------
(* Whichever limiter was made, every variable of both keeps its type. *)
THEOREM LimiterTypes == LimiterSpec => []LimiterTypeOK
<1>1. ASSUME IInv, backend = "redis" PROVE LimiterTypeOK
  <2>1. W!TypeOK /\ Unused
    BY <1>1 DEF IInv, W!IInv
  <2>2. Window!TypeOK
    BY <2>1 DEF W!TypeOK, Window!TypeOK, W!Places, Window!Places,
         W!Calls, Window!Calls
  <2>3. TypeOK
    <3>1. /\ now \in Nat
          /\ started \in [Callers -> Nat] /\ wake \in [Callers -> Nat]
      BY <2>1 DEF W!TypeOK
    <3>2. tokens \in 0..Full /\ updated \in 0..now
      BY <2>1, <3>1, FullFacts, ConstantsOK DEF Unused
    <3>3. made \in BOOLEAN
      BY <2>1, Zenon DEF Unused
    <3>4. grants \in Seq(0..now)
      BY <2>1 DEF Unused
    <3>5. asleep \subseteq Callers /\ undisturbed \subseteq asleep
      BY <2>1 DEF Unused
    <3> QED BY <3>1, <3>2, <3>3, <3>4, <3>5 DEF TypeOK
  <2> QED BY <2>2, <2>3 DEF LimiterTypeOK
<1>2. ASSUME IInv, backend = "memory" PROVE LimiterTypeOK
  <2>1. TypeOK /\ Untouched
    BY <1>2 DEF IInv, BucketInv
  <2>2. Window!TypeOK
    BY <2>1 DEF TypeOK, Untouched, Window!TypeOK, Window!Places
  <2> QED BY <2>1, <2>2 DEF LimiterTypeOK
<1>3. IInv => LimiterTypeOK
  BY <1>1, <1>2 DEF IInv
<1> QED BY <1>3, Invariance, PTL

(* A bucket that was never made grants, refuses and delays nobody. *)
LEMMA UnusedIsFine == ASSUME Unused PROVE RateBound /\ RefusalJustified /\ NapFits
<1>1. Len(grants) = 0 /\ undisturbed = {} /\ Level = Full
  BY DEF Unused, Level
<1>2. Enough
  BY <1>1, FullFacts, ConstantsOK DEF Enough
<1> QED BY <1>1, <1>2 DEF RateBound, RefusalJustified, NapFits

(* Whichever limiter was made: between resets no stretch of time sees more *)
(* grants of the bucket than its burst and refill (consume, refill);       *)
THEOREM LimiterRateBounded == LimiterSpec => []RateBound
<1>1. IInv => RateBound
  BY UnusedIsFine DEF IInv, BucketInv
<1> QED BY <1>1, Invariance, PTL

(* whoever finds no token in it would break that bound with one (consume); *)
THEOREM LimiterRefusalsJustified == LimiterSpec => []RefusalJustified
<1>1. IInv => RefusalJustified
  BY UnusedIsFine, RefusalNeeded DEF IInv
<1> QED BY <1>1, Invariance, PTL

(* and nobody naps longer than its token takes to come, or shorter unless  *)
(* to be in time for the timeout (time_until_available, wait_for_slot).    *)
THEOREM LimiterNapsFit == LimiterSpec => []NapFits
<1>1. IInv => NapFits
  BY UnusedIsFine DEF IInv
<1> QED BY <1>1, Invariance, PTL

-----------------------------------------------------------------------------
LEMMA SameRecent == W!Recent = Window!Recent
BY DEF W!Recent, Window!Recent

(* Whichever limiter was made, the calls RedisRateLimiter lets through in a *)
(* period have read at most Limit - 1 different times and two more for     *)
(* each caller (acquire).                                                  *)
THEOREM WindowBounded == LimiterSpec => []WindowBound
<1>1. ASSUME IInv, backend = "redis" PROVE WindowBound
  <2>1. W!WindowBound
    BY <1>1, SameConstants, W!RoomIsBound DEF IInv
  <2> QED BY <2>1, SameCardinality
          DEF WindowBound, Window!WindowBound, W!WindowBound
<1>2. ASSUME IInv, backend = "memory" PROVE WindowBound
  <2>1. {k.asked : k \in passed} = {}
    BY <1>2 DEF IInv, Untouched
  <2>2. W!Cardinality({}) = 0 /\ W!Cardinality(Callers) \in Nat
    BY SameConstants, W!FS_EmptySet, W!FS_CardinalityType DEF W!ConstantsOK
  <2>3. Limit \in Nat \ {0}
    BY ConstantsOK DEF ConstantsOK
  <2>4. /\ Window!Cardinality({k.asked : k \in passed}) = 0
        /\ Window!Cardinality(Callers) \in Nat
    BY <2>1, <2>2, SameCardinality, Zenon
  <2> QED BY <2>3, <2>4 DEF WindowBound, Window!WindowBound
<1>3. IInv => WindowBound
  BY <1>1, <1>2 DEF IInv
<1> QED BY <1>3, Invariance, PTL

(* Nobody is refused by RedisRateLimiter but for Limit calls that were     *)
(* admitted (acquire).                                                     *)
THEOREM RefusalsHaveCause == LimiterSpec => RefusedForCause
<1>1. ASSUME IInv, NEW c \in Callers, Window!GiveUp(c) \/ Window!Nap(c)
      PROVE  Window!Cardinality({s \in admitted : s > asked[c] - Period}) >= Limit
  <2>1. doing[c] = "counting"
    BY <1>1 DEF Window!GiveUp, Window!Nap
  <2>2. W!IInv
    BY <1>1, <2>1 DEF IInv, Untouched
  <2>3. W!GiveUp(c) \/ W!Nap(c)
    BY <1>1, SameRefusal
  <2>4. W!Cardinality({s \in admitted : s > asked[c] - Period}) >= Limit
    BY <2>2, <2>3, SameConstants, W!CauseIsThere
  <2> QED BY <2>4, SameCardinality
<1>2. IInv /\ [LimiterNext]_limiterVars =>
        [\A c \in Callers :
           Window!GiveUp(c) \/ Window!Nap(c)
             => Window!Cardinality({s \in admitted : s > asked[c] - Period}) >= Limit
        ]_(Window!vars)
  BY <1>1
<1> QED BY <1>2, Invariance, PTL DEF LimiterSpec, RefusedForCause, Window!RefusedForCause

(* Whichever limiter was made, the EXPIRE of the key forgets no call that  *)
(* was let through in the period, and none that was added but in the race  *)
(* of zadd with it (acquire).                                              *)
THEOREM ExpirySafe == LimiterSpec => []ExpiryIsSafe
<1>1. ASSUME IInv, backend = "redis" PROVE ExpiryIsSafe
  <2>1. W!ExpiryIsSafe
    BY <1>1, SameConstants, W!OutlivingIsSafe DEF IInv
  <2> QED BY <2>1, SameRecent
          DEF ExpiryIsSafe, Window!ExpiryIsSafe, W!ExpiryIsSafe, Window!Dead, W!Dead
<1>2. ASSUME IInv, backend = "memory" PROVE ExpiryIsSafe
  BY <1>2 DEF IInv, Untouched, ExpiryIsSafe, Window!ExpiryIsSafe, Window!Dead
<1>3. IInv => ExpiryIsSafe
  BY <1>1, <1>2 DEF IInv
<1> QED BY <1>3, Invariance, PTL
=============================================================================
