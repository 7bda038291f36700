------------------------- MODULE MCDeadLetterQueue -------------------------
(***************************************************************************)
(* An instance of DeadLetterQueue for TLC: three tasks, two of them of a   *)
(* function that was added and one of a function that was decorated.       *)
(***************************************************************************)
EXTENDS DeadLetterQueue, TLC

CONSTANTS i1, i2, i3, f, g, r1, r2

MCNameOf == i1 :> f @@ i2 :> f @@ i3 :> g
MCFunctionOf == f :> "added" @@ g :> "decorated"
=============================================================================
