---------------------------- MODULE RateLimiter ----------------------------
(***************************************************************************)
(* The limiter behind a rate-limited task: build_rate_limiter() makes a    *)
(* MemoryRateLimiter (TokenBucket) or a RedisRateLimiter (SlidingWindow).  *)
(* Both keep the clock, and the calls of wait_for_slot() that sleep.       *)
(***************************************************************************)
EXTENDS TokenBucket, FiniteSets

CONSTANT Lifetime

VARIABLES backend, window, dies, doing, asked, admitted, passed

Window == INSTANCE SlidingWindow

ASSUME WindowConstantsOK == Window!ConstantsOK

limiterVars == <<vars, backend, window, dies, doing, asked, admitted, passed>>

(* RateLimitedTask waits for a slot, with its timeout, or asks once, which *)
(* is a wait of no length; without a slot it raises and does not run.      *)
TaskTimeout(wait, timeout) == IF wait THEN timeout ELSE 0

LimiterInit ==
  /\ backend \in {"memory", "redis"}
  /\ Init
  /\ Window!Init

LimiterNext ==
  \/ /\ backend = "memory"
     /\ Next
     /\ UNCHANGED <<backend, window, dies, doing, asked, admitted, passed>>
  \/ /\ backend = "redis"
     /\ Window!Next
     /\ UNCHANGED <<backend, made, tokens, updated, asleep, grants, undisturbed>>

LimiterSpec == LimiterInit /\ [][LimiterNext]_limiterVars

-----------------------------------------------------------------------------
(* Types of both limiters. *)
LimiterTypeOK == TypeOK /\ Window!TypeOK

(* RedisRateLimiter: what concurrent calls of acquire() can let through in *)
(* a period (SlidingWindow).                                               *)
WindowBound == Window!WindowBound

(* RedisRateLimiter: nobody is refused but for calls that were admitted    *)
(* (SlidingWindow).                                                        *)
RefusedForCause == Window!RefusedForCause

(* RedisRateLimiter: the EXPIRE of the key forgets no call that was let    *)
(* through in the period, and of the others only who is in the race of     *)
(* zadd with the end of the key's life (SlidingWindow).                    *)
ExpiryIsSafe == Window!ExpiryIsSafe
=============================================================================
