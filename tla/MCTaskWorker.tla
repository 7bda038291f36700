---------------------------- MODULE MCTaskWorker ----------------------------
(* Instances of TaskWorker for TLC. *)
EXTENDS TaskWorker, TLC

CONSTANTS m1, m2, m3, m4, f, g

(* Good tasks of two functions, either of which may be registered too late *)
(* for a message, and one message whose arguments cannot be unpacked.      *)
MixedFn   == m1 :> f @@ m2 :> f @@ m3 :> g @@ m4 :> g
MixedKind == m1 :> "task" @@ m2 :> "task" @@ m3 :> "task" @@ m4 :> "bad_args"

(* Good tasks and a message that does not decode: nothing stops the        *)
(* listener.                                                               *)
BenignFn   == m1 :> f @@ m2 :> f @@ m3 :> f
BenignKind == m1 :> "task" @@ m2 :> "task" @@ m3 :> "garbled"

(* A message without a task_id, and a good task. *)
PoisonFn   == m1 :> f @@ m2 :> f
PoisonKind == m1 :> "untyped_id" @@ m2 :> "task"
=============================================================================
