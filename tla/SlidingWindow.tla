--------------------------- MODULE SlidingWindow ---------------------------
(***************************************************************************)
(* RedisRateLimiter of aiotasks: one key, its sorted set in Redis, and the *)
(* callers, which may live in different processes.  acquire() reads the    *)
(* clock, trims and counts in one round trip, and adds itself and renews   *)
(* the life of the key in two more: anything may happen in between.        *)
(*                                                                         *)
(* Time runs in ticks, as fine as one likes: two calls of one tick have    *)
(* read the same time.time().                                              *)
(***************************************************************************)
EXTENDS Integers, FiniteSets

CONSTANTS
  Callers,
  Limit,       \* RateLimit.limit: calls ...
  Period,      \* ... per RateLimit.period, in ticks
  Lifetime,    \* the int(period) + 1 seconds of EXPIRE, in ticks
  Timeout,     \* for each caller, in ticks; 0 for wait=False, Never for None
  Never,
  MaxTime      \* bound on the clock

ConstantsOK ==
  /\ IsFiniteSet(Callers)
  /\ Limit \in Nat \ {0}
  /\ Period \in Nat \ {0}
  /\ Lifetime \in Nat
  /\ Lifetime > Period
  /\ Never \notin Nat
  /\ Timeout \in [Callers -> Nat \cup {Never}]
  /\ MaxTime \in Nat

VARIABLES
  now,
  window,      \* the members of the sorted set, which are their own scores
  dies,        \* when Redis drops the key; Never while it has no EXPIRE
  doing,       \* where each caller is
  asked,       \* the time its acquire() has read
  started,     \* start_time of its wait_for_slot()
  wake,        \* when its sleep ends
  admitted,    \* history: the times asked that were added since the key was lost
  passed       \* history: the calls let through in the last period

vars == <<now, window, dies, doing, asked, started, wake, admitted, passed>>

(* A call that was let through: whose it was, the time it had read, which  *)
(* is what the sorted set knows of it, and when acquire() returned.        *)
Calls == [caller : Callers, asked : 0..now, at : 0..now]

(* "counting", "adding" and "renewing" wait for Redis. *)
Places == {"out", "counting", "adding", "renewing", "asleep"}

TypeOK ==
  /\ now \in Nat
  /\ window \subseteq 0..now
  /\ dies \in Nat \cup {Never}
  /\ doing \in [Callers -> Places]
  /\ asked \in [Callers -> 0..now]
  /\ started \in [Callers -> Nat]
  /\ wake \in [Callers -> Nat]
  /\ admitted \subseteq 0..now
  /\ passed \subseteq Calls

Init ==
  /\ now = 0
  /\ window = {}
  /\ dies = Never
  /\ doing = [c \in Callers |-> "out"]
  /\ asked = [c \in Callers |-> 0]
  /\ started = [c \in Callers |-> 0]
  /\ wake = [c \in Callers |-> 0]
  /\ admitted = {}
  /\ passed = {}

-----------------------------------------------------------------------------
(* The key's life is over: Redis drops it before it answers anybody. *)
Dead == dies # Never /\ dies <= now

(* acquire() reads the clock and sends its pipeline: at the start of a     *)
(* call, or at the end of a sleep in wait_for_slot().                      *)
Ask(c) ==
  /\ \/ doing[c] = "out" /\ started' = [started EXCEPT ![c] = now]
     \/ doing[c] = "asleep" /\ wake[c] <= now /\ UNCHANGED started
  /\ doing' = [doing EXCEPT ![c] = "counting"]
  /\ asked' = [asked EXCEPT ![c] = now]
  /\ UNCHANGED <<now, window, dies, wake, admitted, passed>>

(* What is left once the entries outside the window are removed. *)
InWindow(c) == {s \in window : s > asked[c] - Period}

PassLoose(c) ==               \* mutated: the comparison lets one more through
  Cardinality(InWindow(c)) <= Limit

Pass(c) == Cardinality(InWindow(c)) < Limit

(* A sorted set without members is no key, and has no EXPIRE. *)
KeyStays == dies' = IF window' = {} THEN Never ELSE dies

(* The pipeline: trim and count, as one transaction. *)
Count(c) ==
  /\ doing[c] = "counting"
  /\ ~Dead
  /\ Pass(c)
  /\ window' = InWindow(c)
  /\ KeyStays
  /\ doing' = [doing EXCEPT ![c] = "adding"]
  /\ UNCHANGED <<now, asked, started, wake, admitted, passed>>

AddAnyway(c) ==               \* mutated: a refused call leaves its mark too
  window' = InWindow(c) \cup {asked[c]}

RefusedWindow(c) == window' = InWindow(c)

TimedOut(c) == Timeout[c] # Never /\ now - started[c] >= Timeout[c]

(* The full window sends a caller away whose time is over, or that did not *)
(* want to wait.                                                           *)
GiveUp(c) ==
  /\ doing[c] = "counting"
  /\ ~Dead
  /\ ~Pass(c)
  /\ RefusedWindow(c)
  /\ KeyStays
  /\ TimedOut(c)
  /\ doing' = [doing EXCEPT ![c] = "out"]
  /\ UNCHANGED <<now, asked, started, wake, admitted, passed>>

(* The share of one call in the period, rounded up to ticks, at most the   *)
(* time that remains.                                                      *)
NapEnd(c) ==
  LET share == now + ((Period + Limit - 1) \div Limit) IN
    IF Timeout[c] # Never /\ started[c] + Timeout[c] < share
      THEN started[c] + Timeout[c] ELSE share

Nap(c) ==
  /\ doing[c] = "counting"
  /\ ~Dead
  /\ ~Pass(c)
  /\ RefusedWindow(c)
  /\ KeyStays
  /\ ~TimedOut(c)
  /\ doing' = [doing EXCEPT ![c] = "asleep"]
  /\ wake' = [wake EXCEPT ![c] = NapEnd(c)]
  /\ UNCHANGED <<now, asked, started, admitted, passed>>

(* zadd {str(now): now}: a time that is there already is not added twice. *)
Add(c) ==
  /\ doing[c] = "adding"
  /\ ~Dead
  /\ window' = window \cup {asked[c]}
  /\ admitted' = admitted \cup {asked[c]}
  /\ doing' = [doing EXCEPT ![c] = "renewing"]
  /\ UNCHANGED <<now, dies, asked, started, wake, passed>>

RenewForPeriodOnly(c) ==      \* mutated: the life begins when the call asked
  /\ doing[c] = "renewing"
  /\ ~Dead
  /\ dies' = IF window = {} THEN dies ELSE asked[c] + Period - 1
  /\ doing' = [doing EXCEPT ![c] = "out"]
  /\ passed' = passed \cup {[caller |-> c, asked |-> asked[c], at |-> now]}
  /\ UNCHANGED <<now, window, asked, started, wake, admitted>>

(* expire, which does nothing to a key that is gone; then acquire() has    *)
(* returned True.                                                          *)
Renew(c) ==
  /\ doing[c] = "renewing"
  /\ ~Dead
  /\ dies' = IF window = {} THEN dies ELSE now + Lifetime
  /\ doing' = [doing EXCEPT ![c] = "out"]
  /\ passed' = passed \cup {[caller |-> c, asked |-> asked[c], at |-> now]}
  /\ UNCHANGED <<now, window, asked, started, wake, admitted>>

(* Redis forgets the key at the end of its life. *)
Expire ==
  /\ Dead
  /\ window' = {}
  /\ dies' = Never
  /\ admitted' = {}
  /\ UNCHANGED <<now, doing, asked, started, wake, passed>>

(* reset() *)
Reset ==
  /\ ~Dead
  /\ window # {}
  /\ window' = {}
  /\ dies' = Never
  /\ admitted' = {}
  /\ passed' = {}
  /\ UNCHANGED <<now, doing, asked, started, wake>>

Tick ==
  /\ now < MaxTime
  /\ now' = now + 1
  /\ passed' = {k \in passed : k.at > now' - Period}
  /\ UNCHANGED <<window, dies, doing, asked, started, wake, admitted>>

Next ==
  \/ Expire \/ Reset \/ Tick
  \/ \E c \in Callers :
       Ask(c) \/ Count(c) \/ GiveUp(c) \/ Nap(c) \/ Add(c) \/ Renew(c)

Spec == Init /\ [][Next]_vars

-----------------------------------------------------------------------------
(* However the round trips of acquire() interleave, the calls it lets      *)
(* through in a period (it returned True, and nobody reset the key since)  *)
(* have read at most Limit - 1 different times, and two more for each      *)
(* caller: one that was added beside others, and one that had left the     *)
(* window, or the key, before acquire() returned.  With one caller that is *)
(* one call above the limit.  Calls that read the same time.time() count   *)
(* as one, as in the sorted set (acquire, str(now)).                       *)
WindowBound ==
  Cardinality({k.asked : k \in passed}) <= Limit - 1 + 2 * Cardinality(Callers)

(* Whoever is refused finds Limit calls admitted since a period before     *)
(* it asked: refused calls leave no mark, and old marks are gone (acquire, *)
(* zremrangebyscore).                                                      *)
RefusedForCause ==
  [][\A c \in Callers :
       GiveUp(c) \/ Nap(c)
         => Cardinality({s \in admitted : s > asked[c] - Period}) >= Limit]_vars

(* The times of the last period that were added since the key was lost. *)
Recent == {s \in admitted : s > now - Period}

(* When the key dies, no call was let through in the last period, and what *)
(* it held of that period are calls between their zadd and their expire    *)
(* (acquire).                                                              *)
ExpiryIsSafe ==
  Dead =>
    /\ passed = {}
    /\ \A s \in Recent : \E c \in Callers : doing[c] = "renewing" /\ asked[c] = s
=============================================================================
