--------------------------- MODULE MCRateLimiter ---------------------------
(***************************************************************************)
(* An instance of RateLimiter for TLC.                                     *)
(***************************************************************************)
EXTENDS RateLimiter

CONSTANTS c1, c2

(* One caller that waits for ever and one with a timeout. *)
MCTimeout == [c \in Callers |-> TaskTimeout(TRUE, IF c = c1 THEN Never ELSE 2)]
=============================================================================
