-------------------------- MODULE MCWorkerProcess --------------------------
(* Instance of WorkerProcess for TLC. *)
EXTENDS WorkerProcess, TLC

CONSTANTS t1, t2, a1

Value(kind) == [kind |-> kind, of |-> a1]

(* One argument each.  The first pair fits every codec, with a tuple that  *)
(* comes out as a list.  Of the second, JSON makes another dict of one and *)
(* msgpack cannot read it back, and JSON cannot write the other.           *)
RequestsOf ==
  {t1 :> <<Value("tuple")>>   @@ t2 :> <<Value("plain")>>,
   t1 :> <<Value("intkeys")>> @@ t2 :> <<Value("bytes")>>}
=============================================================================
