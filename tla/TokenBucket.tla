---------------------------- MODULE TokenBucket ----------------------------
(***************************************************************************)
(* MemoryRateLimiter of aiotasks: one key, its bucket, and the callers     *)
(* that ask for a token or wait for one.  The bodies under the key's lock  *)
(* do not suspend, so an attempt is one step.                              *)
(*                                                                         *)
(* Time runs in ticks, as fine as one likes.  A float of the code is here  *)
(* an integer: tokens are counted in units of 1/Period, so a token is      *)
(* Period units, and a tick adds Limit units.                              *)
(***************************************************************************)
EXTENDS Integers, Sequences

CONSTANTS
  Callers,
  Limit,       \* RateLimit.limit: tokens ...
  Period,      \* ... per RateLimit.period, in ticks
  Burst,       \* RateLimit.burst, 0 when it is not given
  Timeout,     \* for each caller, in ticks; Never for None
  Never,
  MaxTime      \* bound on the clock

(* A limit of 0 divides by zero in wait_for_slot; a clock that is set back *)
(* is not considered.                                                      *)
ASSUME ConstantsOK ==
  /\ Limit \in Nat \ {0}
  /\ Period \in Nat \ {0}
  /\ Burst \in Nat
  /\ Never \notin Nat
  /\ Timeout \in [Callers -> Nat \cup {Never}]
  /\ MaxTime \in Nat

VARIABLES
  now,
  made,        \* whether the key has a bucket
  tokens,      \* TokenBucket.tokens
  updated,     \* TokenBucket.last_update
  asleep,      \* the callers in asyncio.sleep
  started,     \* start_time of each of them
  wake,        \* when its sleep ends
  grants,      \* history: when the tokens of this bucket were given
  undisturbed  \* history: the sleepers since whose nap began nothing happened

vars == <<now, made, tokens, updated, asleep, started, wake, grants, undisturbed>>

Capacity == IF Burst = 0 THEN Limit ELSE Burst

Full == Capacity * Period

TypeOK ==
  /\ now \in Nat
  /\ made \in BOOLEAN
  /\ tokens \in 0..Full
  /\ updated \in 0..now
  /\ asleep \subseteq Callers
  /\ started \in [Callers -> Nat]
  /\ wake \in [Callers -> Nat]
  /\ grants \in Seq(0..now)
  /\ undisturbed \subseteq asleep

Init ==
  /\ now = 0
  /\ made = FALSE
  /\ tokens = Full
  /\ updated = 0
  /\ asleep = {}
  /\ started = [c \in Callers |-> 0]
  /\ wake = [c \in Callers |-> 0]
  /\ grants = <<>>
  /\ undisturbed = {}

-----------------------------------------------------------------------------
Smaller(a, b) == IF a <= b THEN a ELSE b

RefillUncapped(t) ==          \* mutated: an idle bucket grows without limit
  tokens + Limit * (t - updated)

(* refill() at time t *)
Refill(t) == Smaller(Full, tokens + Limit * (t - updated))

(* The level refill() finds now; _get_bucket makes a full one. *)
Level == IF made THEN Refill(now) ELSE Full

Enough == Level >= Period

(* consume() *)
TakeToken ==
  /\ Enough
  /\ made' = TRUE
  /\ tokens' = Level - Period
  /\ updated' = now
  /\ grants' = Append(grants, now)

FindNoneLosingRefill ==       \* mutated: the time of the refill is kept, not its tokens
  /\ ~Enough
  /\ made' = TRUE
  /\ tokens' = tokens
  /\ updated' = now
  /\ grants' = grants

FindNone ==
  /\ ~Enough
  /\ made' = TRUE
  /\ tokens' = Level
  /\ updated' = now
  /\ grants' = grants

(* time_until_available(), in whole ticks; FindNone ensures a need. *)
UntilAvailable == (Period - Level + Limit - 1) \div Limit

(* The start_time of the call whose attempt this is. *)
StartOf(c) == IF c \in asleep THEN started[c] ELSE now

TimedOut(c) == Timeout[c] # Never /\ now - StartOf(c) >= Timeout[c]

NapEndRestarting(c) ==        \* mutated: each attempt has the whole timeout before it
  IF Timeout[c] = Never THEN now + UntilAvailable
  ELSE Smaller(now + UntilAvailable, now + Timeout[c])

NapEnd(c) ==
  IF Timeout[c] = Never THEN now + UntilAvailable
  ELSE Smaller(now + UntilAvailable, StartOf(c) + Timeout[c])

(* A caller may begin a call of wait_for_slot() or end its sleep, at any   *)
(* time after its due.                                                     *)
Attempts(c) == c \notin asleep \/ wake[c] <= now

(* acquire() outside wait_for_slot: RateLimitedTask with wait=False. *)
Acquire ==
  /\ \/ TakeToken /\ undisturbed' = {}
     \/ FindNone /\ UNCHANGED undisturbed
  /\ UNCHANGED <<now, asleep, started, wake>>

(* wait_for_slot() returns True. *)
Admit(c) ==
  /\ Attempts(c)
  /\ TakeToken
  /\ asleep' = asleep \ {c}
  /\ undisturbed' = {}
  /\ UNCHANGED <<now, started, wake>>

(* wait_for_slot() returns False. *)
GiveUp(c) ==
  /\ Attempts(c)
  /\ FindNone
  /\ TimedOut(c)
  /\ asleep' = asleep \ {c}
  /\ undisturbed' = undisturbed \ {c}
  /\ UNCHANGED <<now, started, wake>>

(* wait_for_slot() sleeps until there is a token or the timeout is over.   *)
(* At the time of the failed attempt both lie ahead: the fixed delay of    *)
(* 10 ms is for a clock that moves on between two statements.              *)
Nap(c) ==
  /\ Attempts(c)
  /\ FindNone
  /\ ~TimedOut(c)
  /\ asleep' = asleep \cup {c}
  /\ started' = [started EXCEPT ![c] = StartOf(c)]
  /\ wake' = [wake EXCEPT ![c] = NapEnd(c)]
  /\ undisturbed' = undisturbed \cup {c}
  /\ UNCHANGED now

(* reset(): the next attempt finds a full bucket. *)
Reset ==
  /\ made
  /\ made' = FALSE
  /\ grants' = <<>>
  /\ undisturbed' = {}
  /\ UNCHANGED <<now, tokens, updated, asleep, started, wake>>

Tick ==
  /\ now < MaxTime
  /\ now' = now + 1
  /\ UNCHANGED <<made, tokens, updated, asleep, started, wake, grants, undisturbed>>

Next ==
  \/ Acquire \/ Reset \/ Tick
  \/ \E c \in Callers : Admit(c) \/ GiveUp(c) \/ Nap(c)

Spec == Init /\ [][Next]_vars

-----------------------------------------------------------------------------
(* In any stretch of time no more is granted than the burst and what the   *)
(* stretch refills (consume, refill), whoever asks, sleeps or gives up.    *)
RateBound ==
  \A i, j \in 1..Len(grants) :
    i <= j => (j - i + 1) * Period <= Full + Limit * (grants[j] - grants[i])

(* A caller is refused (not Enough) only when a grant would break          *)
(* RateBound: no refill is lost to refused attempts (refill, consume).     *)
RefusalJustified ==
  ~Enough => \E i \in 1..Len(grants) :
    (Len(grants) - i + 2) * Period > Full + Limit * (now - grants[i])

(* A nap is as long as it must be and no longer: at its end, if nobody     *)
(* came in between, there is a token and before there was none, unless the *)
(* timeout comes first (time_until_available, wait_for_slot).              *)
NapFits ==
  \A c \in undisturbed :
    /\ Timeout[c] # Never => wake[c] <= started[c] + Timeout[c]
    /\ \/ Refill(wake[c]) >= Period
       \/ Timeout[c] # Never /\ wake[c] = started[c] + Timeout[c]
    /\ Refill(wake[c] - 1) < Period
=============================================================================
