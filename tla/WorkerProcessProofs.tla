------------------------ MODULE WorkerProcessProofs ------------------------
(***************************************************************************)
(* Theorems about MessageFormat and WorkerProcess, for any tasks,          *)
(* arguments, prefetch count, failures and lives: no task is begun twice   *)
(* over Redis and ZeroMQ, verdicts are true, final over AMQP, and AMQP     *)
(* loses nothing, and the prefetch count bounds what runs.                 *)
(***************************************************************************)
EXTENDS WorkerProcess, FiniteSetTheorems, TLAPS

-----------------------------------------------------------------------------
(* Whatever could be encoded with a serializer is recognized as Celery's   *)
(* and decoded to the task, its id and its arguments as that serializer    *)
(* carries them, no arguments being an empty list; but what msgpack wrote  *)
(* with integer keys raises (celery_compat.py).                            *)
LEMMA CeleryRoundTrip ==
  ASSUME NEW fn, NEW given, NEW id, NEW s \in Codecs, id # None,
         EncodeCelery(fn, given, id, s) # None
  PROVE  LET msg  == EncodeCelery(fn, given, id, s)
             list == IF given = None THEN <<>> ELSE given
         IN  /\ IsCelery(msg) <=> ReadsBack(s, list)
             /\ DecodeCelery(msg, s)
                  = IF ReadsBack(s, list)
                      THEN [task_id |-> id, task_name |-> fn,
                            args |-> CarriedArgs(s, list)]
                      ELSE None
<1> DEFINE msg == EncodeCelery(fn, given, id, s)
           list == IF given = None THEN <<>> ELSE given
<1>1. msg = [codec |-> s, loads |-> ReadsBack(s, list),
             data |-> SerializeCelery(fn, CarriedArgs(s, list), id)]
  BY DEF EncodeCelery, Encode
<1>2. /\ msg.codec = s /\ msg.loads = ReadsBack(s, list)
      /\ msg.data.properties = [correlation_id |-> id]
      /\ msg.data.headers = [task |-> fn, id |-> id]
      /\ msg.data.body = [args |-> CarriedArgs(s, list)]
      /\ Keys(msg.data) = {"properties", "headers", "body"}
  BY <1>1 DEF SerializeCelery, Keys
<1> HIDE DEF msg, list
<1>3. IsCelery(msg) <=> ReadsBack(s, list)
  BY <1>2 DEF IsCelery, Keys
<1>4. DecodeCelery(msg, s)
        = IF ReadsBack(s, list)
            THEN [task_id |-> id, task_name |-> fn, args |-> CarriedArgs(s, list)]
            ELSE None
  BY <1>2 DEF DecodeCelery, DeserializeCelery, Keys
<1> QED BY <1>3, <1>4 DEF msg, list

(* The worker reads the function, the id and the arguments as the codec of *)
(* the sender carries them, from a manager with celery_compat and from one *)
(* without, if it can read the message at all (build_delay_message,        *)
(* _deserialize_task_message).                                             *)
LEMMA DelayIsUnderstood ==
  ASSUME NEW compat \in BOOLEAN, NEW id, NEW fn, NEW given, given # None,
         BuildDelayMessage(compat, id, fn, given) # None
  PROVE  LET msg == BuildDelayMessage(compat, id, fn, given)
         IN  /\ compat => msg.codec = "json"
             /\ ~compat => msg.codec = "msgpack"
             /\ DeserializeTask(msg)
                  = IF ReadsBack(msg.codec, given)
                      THEN [task_id |-> id, function |-> fn,
                            args |-> CarriedArgs(msg.codec, given)]
                      ELSE None
<1> DEFINE msg == BuildDelayMessage(compat, id, fn, given)
<1>1. CASE compat
  <2> DEFINE list == CarriedArgs("json", given)
  <2>1. msg = [codec |-> "json", loads |-> ReadsBack("json", given),
               data |-> SerializeCelery(fn, list, id)]
    BY <1>1 DEF BuildDelayMessage, EncodeCelery, Encode
  <2>2. SerializeCelery(fn, list, id)
          = [properties |-> [correlation_id |-> id],
             headers |-> [task |-> fn, id |-> id], body |-> [args |-> list]]
    BY DEF SerializeCelery
  <2>3. CeleryShaped(SerializeCelery(fn, list, id))
    <3> HIDE DEF list
    <3> QED BY <2>2 DEF CeleryShaped, Keys
  <2>4. ReadsBack("json", given)
    BY DEF ReadsBack
  <2>5. msg.codec = "json" /\ msg.data = SerializeCelery(fn, list, id)
    BY <2>1
  <2>6. DeserializeTask(msg) = [task_id |-> id, function |-> fn, args |-> list]
    <3> HIDE DEF msg, list
    <3> QED BY <2>2, <2>3, <2>5 DEF DeserializeTask, Field, Keys
  <2> QED BY <1>1, <2>4, <2>5, <2>6
<1>2. CASE ~compat
  <2> DEFINE list == CarriedArgs("msgpack", given)
  <2>1. msg = [codec |-> "msgpack", loads |-> ReadsBack("msgpack", given),
               data |-> [task_id |-> id, function |-> fn, args |-> list]]
    BY <1>2 DEF BuildDelayMessage, Encode
  <2>2. /\ msg.codec = "msgpack" /\ msg.loads = ReadsBack("msgpack", given)
        /\ msg.data = [task_id |-> id, function |-> fn, args |-> list]
    BY <2>1
  <2>3. DeserializeTask(msg)
          = IF ReadsBack("msgpack", given)
              THEN [task_id |-> id, function |-> fn, args |-> list] ELSE None
    <3> HIDE DEF msg, list
    <3> QED BY <2>2 DEF DeserializeTask, Field, Keys
  <2> QED BY <1>2, <2>2, <2>3
<1> QED BY <1>1, <1>2

(* A message of msgpack in Celery's form has no id for the worker, if the  *)
(* worker can read it.                                                     *)
LEMMA CeleryInMsgpack ==
  ASSUME NEW id, NEW fn, NEW given,
         EncodeCelery(fn, given, id, "msgpack") # None,
         DeserializeTask(EncodeCelery(fn, given, id, "msgpack")) # None
  PROVE  DeserializeTask(EncodeCelery(fn, given, id, "msgpack")).task_id = None
<1> DEFINE msg == EncodeCelery(fn, given, id, "msgpack")
           list == IF given = None THEN <<>> ELSE given
           data == SerializeCelery(fn, CarriedArgs("msgpack", list), id)
<1>1. msg = [codec |-> "msgpack", loads |-> ReadsBack("msgpack", list), data |-> data]
  BY DEF EncodeCelery, Encode
<1>2. Keys(data) = {"properties", "headers", "body"}
  BY DEF SerializeCelery, Keys
<1>3. msg.codec = "msgpack" /\ msg.data = data
  BY <1>1
<1> HIDE DEF msg, data
<1> QED BY <1>2, <1>3 DEF DeserializeTask, Field, msg

-----------------------------------------------------------------------------
(* Of the types, what the other parts rest on. *)
Kept ==
  /\ backend \in AllBackends
  /\ sent \subseteq Tasks /\ queue \subseteq sent /\ inbox \subseteq sent
  /\ unacked \subseteq sent
  /\ stage \in [Tasks -> Stages]
  /\ starts \in [Tasks -> Nat]
  /\ faults \in Nat

(* What is on the wire was built by one of the senders. *)
Sent ==
  /\ args \in Requests
  /\ \A t \in Tasks : \E origin \in Origins : message[t] = MessageFrom(origin, t, args[t])
  /\ \A t \in sent : message[t] # None

Busy == {t \in Tasks : stage[t] \in {"running", "acking", "nacking"}}

(* Over AMQP what is queued is not delivered, what runs is unsettled, and  *)
(* what is settled was sent.                                               *)
Unsettled ==
  AMQP =>
    /\ inbox \subseteq unacked
    /\ queue \cap unacked = {}
    /\ Busy \subseteq unacked \ inbox
    /\ acked \cup nacked \subseteq sent
    /\ Prefetch # 0 => Cardinality(unacked) <= Prefetch

(* Elsewhere a task that is on its way has not begun. *)
Once ==
  ~AMQP =>
    /\ unacked = {}
    /\ queue \cap inbox = {}
    /\ \A t \in Tasks : starts[t] <= 1
    /\ \A t \in queue \cup inbox \cup (Tasks \ sent) : starts[t] = 0

(* What runs was read as it was sent, and who settles has the verdict.     *)
Founded ==
  \A t \in Tasks :
    /\ stage[t] = "running" => Call(t) \in ran
    /\ stage[t] = "acking" => Call(t) \in ran /\ <<t, "returned">> \in ended
    /\ stage[t] = "nacking" => <<t, "failed">> \in ended \/ (Redis /\ faults > 0)

IInv == Kept /\ Sent /\ Unsettled /\ Once /\ Founded /\ VerdictIsTrue

-----------------------------------------------------------------------------
(* A task that the worker begins is the one that was sent. *)
LEMMA ReadAsSent ==
  ASSUME ConstantsOK, Sent, NEW t \in Tasks, t \in sent, Readable(t)
  PROVE  /\ DeserializeTask(message[t]).function = Fn
         /\ DeserializeTask(message[t]).args = CarriedArgs(message[t].codec, args[t])
<1>1. PICK origin \in Origins : message[t] = MessageFrom(origin, t, args[t])
  BY DEF Sent
<1>2. message[t] # None /\ args[t] # None /\ t # None
  BY DEF Sent, ConstantsOK
<1>3. DeserializeTask(message[t]) # None /\ DeserializeTask(message[t]).task_id = t
  BY DEF Readable
<1>4. CASE origin = "msgpack_celery"
  <2>1. DeserializeTask(message[t]).task_id = None
    BY <1>1, <1>2, <1>3, <1>4, CeleryInMsgpack DEF MessageFrom
  <2> QED BY <1>2, <1>3, <2>1
<1>5. CASE origin # "msgpack_celery"
  <2> DEFINE compat == origin = "compat"
  <2>1. message[t] = BuildDelayMessage(compat, t, Fn, args[t])
    BY <1>1, <1>5 DEF MessageFrom
  <2>2. compat \in BOOLEAN
    OBVIOUS
  <2>3. DeserializeTask(message[t])
          = [task_id |-> t, function |-> Fn, args |-> CarriedArgs(message[t].codec, args[t])]
    <3> HIDE DEF compat
    <3> QED BY <1>2, <1>3, <2>1, <2>2, DelayIsUnderstood
  <2> QED BY <2>3
<1> QED BY <1>4, <1>5

(* The unsettled messages are finitely many. *)
LEMMA FinitelyMany ==
  ASSUME ConstantsOK, Kept
  PROVE  /\ IsFiniteSet(unacked) /\ Cardinality(unacked) \in Nat
         /\ IsFiniteSet(queue) /\ IsFiniteSet(sent)
<1>1. unacked \in SUBSET Tasks /\ queue \in SUBSET Tasks /\ sent \in SUBSET Tasks
  BY DEF Kept
<1> QED BY <1>1, FS_Subset, FS_CardinalityType DEF ConstantsOK

(* What is settled makes room. *)
LEMMA Settled ==
  ASSUME ConstantsOK, Kept, NEW t, Prefetch # 0 => Cardinality(unacked) <= Prefetch
  PROVE  Prefetch # 0 => Cardinality(unacked \ {t}) <= Prefetch
<1>1. unacked \ {t} \in SUBSET unacked /\ IsFiniteSet(unacked)
  BY FinitelyMany
<1>2. /\ Cardinality(unacked \ {t}) <= Cardinality(unacked)
      /\ Cardinality(unacked \ {t}) \in Nat /\ Cardinality(unacked) \in Nat
  BY <1>1, FS_Subset, FS_CardinalityType
<1> QED BY <1>2 DEF ConstantsOK

(* .delay(), or another program that sends. *)
LEMMA SendKeeps ==
  ASSUME ConstantsOK, IInv, NEW t \in Tasks, Send(t)
  PROVE  IInv'
<1> USE DEF Call, IInv, Send, verdicts, history, AMQP, Redis
<1>1. Kept' /\ Sent'
  BY DEF Kept, Sent
<1>2. Unsettled'
  BY DEF Unsettled, Kept, Busy
<1>3. Once'
  BY DEF Once, Kept
<1>4. Founded'
  BY DEF Founded
<1>5. VerdictIsTrue'
  BY DEF VerdictIsTrue, Unsettled
<1> QED BY <1>1, <1>2, <1>3, <1>4, <1>5

(* Steps that touch neither messages nor runners: run(), the listener's    *)
(* end, the generator's own steps and the clean-up.                        *)
LEMMA AsideKeeps ==
  ASSUME IInv,
         UNCHANGED <<backend, args, message, sent, inbox, stage, faults, atBroker, verdicts,
                     history>>
  PROVE  IInv'
<1> USE DEF Call, IInv, atBroker, verdicts, history, AMQP, Redis
<1>1. Kept' /\ Sent'
  BY DEF Kept, Sent
<1>2. Unsettled' /\ Once'
  BY DEF Unsettled, Once, Busy
<1>3. Founded' /\ VerdictIsTrue'
  BY DEF Founded, VerdictIsTrue
<1> QED BY <1>1, <1>2, <1>3

(* What the broker and the sockets do. *)
LEMMA TransportKeeps ==
  ASSUME ConstantsOK, IInv, NEW t \in Tasks, Transport(t)
  PROVE  IInv'
<1> USE DEF Call, IInv, world, verdicts, history, AMQP, Redis
<1>1. CASE Pop(t) \/ Push(t)
  <2>1. Kept' /\ Sent' /\ ~AMQP
    BY <1>1 DEF Pop, Push, Kept, Sent
  <2>2. Unsettled' /\ Once'
    BY <1>1, <2>1 DEF Pop, Push, Unsettled, Once, Kept
  <2>3. Founded' /\ VerdictIsTrue'
    BY <1>1, <2>1 DEF Pop, Push, Founded, VerdictIsTrue
  <2> QED BY <2>1, <2>2, <2>3
<1>2. CASE Deliver(t)
  <2>1. Kept' /\ Sent' /\ AMQP
    BY <1>2 DEF Deliver, Kept, Sent
  <2>2. Prefetch # 0 => Cardinality(unacked \cup {t}) <= Prefetch
    <3>1. IsFiniteSet(unacked) /\ Cardinality(unacked) \in Nat
      BY FinitelyMany
    <3>2. Cardinality(unacked \cup {t}) =
            IF t \in unacked THEN Cardinality(unacked) ELSE Cardinality(unacked) + 1
      BY <3>1, FS_AddElement
    <3>3. Cardinality(unacked \cup {t}) \in Nat
      BY <3>1, FS_AddElement, FS_CardinalityType
    <3>4. (Prefetch = 0 \/ Cardinality(unacked) < Prefetch) /\ Prefetch \in Nat
      BY <1>2 DEF Deliver, ConstantsOK
    <3> QED BY <3>1, <3>2, <3>3, <3>4
  <2>3. Unsettled' /\ Once'
    BY <1>2, <2>1, <2>2 DEF Deliver, Unsettled, Once, Busy
  <2>4. Founded' /\ VerdictIsTrue'
    BY <1>2, <2>1 DEF Deliver, Founded, VerdictIsTrue, Kept
  <2> QED BY <2>1, <2>3, <2>4
<1> QED BY <1>1, <1>2 DEF Transport

(* The generator yields a message, and the program begins what it can read. *)
LEMMA TakeKeeps ==
  ASSUME ConstantsOK, IInv, NEW t \in Tasks, Take(t) \/ TakeHandle(t)
  PROVE  IInv'
<1> USE DEF Call, IInv, world, atBroker, verdicts, AMQP, Redis
<1>1. /\ t \in inbox /\ inbox' = inbox \ {t}
      /\ IF Readable(t) THEN Begin(t) ELSE UNCHANGED <<stage, ran, starts>>
      /\ UNCHANGED <<ended, world, atBroker, verdicts>>
  BY DEF Take, TakeHandle
<1>2. CASE Readable(t)
  <2>1. /\ stage' = [stage EXCEPT ![t] = "running"]
        /\ starts' = [starts EXCEPT ![t] = @ + 1]
        /\ ran' = ran \cup {Call(t)}
    <3>1. /\ Sent /\ t \in sent
          /\ IF Readable(t) THEN Begin(t) ELSE UNCHANGED <<stage, ran, starts>>
      BY <1>1 DEF Kept
    <3>2. /\ DeserializeTask(message[t]).function = Fn
          /\ DeserializeTask(message[t]).args = CarriedArgs(message[t].codec, args[t])
      BY <1>2, <3>1, ReadAsSent
    <3> QED BY <1>2, <3>1, <3>2 DEF Begin
  <2>2. Kept' /\ Sent'
    BY <1>1, <2>1 DEF Kept, Sent, Stages
  <2>3. Unsettled'
    BY <1>1, <2>1 DEF Unsettled, Busy, Kept
  <2>4. Once'
    BY <1>1, <2>1 DEF Once, Kept
  <2>5. Founded' /\ VerdictIsTrue'
    BY <1>1, <2>1 DEF Founded, VerdictIsTrue, Kept
  <2> QED BY <2>2, <2>3, <2>4, <2>5
<1>3. CASE ~Readable(t)
  <2>1. Kept' /\ Sent'
    BY <1>1, <1>3 DEF Kept, Sent
  <2>2. Unsettled' /\ Once'
    BY <1>1, <1>3 DEF Unsettled, Busy, Once
  <2>3. Founded' /\ VerdictIsTrue'
    BY <1>1, <1>3 DEF Founded, VerdictIsTrue
  <2> QED BY <2>1, <2>2, <2>3
<1> QED BY <1>2, <1>3

(* What msgpack cannot read is rejected. *)
LEMMA RejectKeeps ==
  ASSUME ConstantsOK, IInv, NEW t \in Tasks, TakeRejecting(t)
  PROVE  IInv'
<1> USE DEF Call, IInv, TakeRejecting, world, history, AMQP, Redis
<1>1. Kept' /\ Sent'
  BY DEF Kept, Sent
<1>2. /\ AMQP /\ t \in unacked /\ t \in sent /\ t \notin queue
      /\ Prefetch # 0 => Cardinality(unacked \ {t}) <= Prefetch
  BY Settled DEF Unsettled, Kept
<1>3. Unsettled'
  BY <1>2 DEF Unsettled, Busy
<1>4. Once' /\ Founded'
  BY DEF Once, Founded
<1>5. VerdictIsTrue'
  <2>1. t \notin acked
    BY <1>2 DEF VerdictIsTrue
  <2> QED BY <1>2, <2>1 DEF VerdictIsTrue
<1> QED BY <1>1, <1>3, <1>4, <1>5

(* The function has returned, or has failed for good. *)
LEMMA ConcludeKeeps ==
  ASSUME IInv, NEW t \in Tasks, NEW how \in {"returned", "failed"}, Conclude(t, how)
  PROVE  IInv'
<1> USE DEF Call, IInv, world, atBroker, verdicts, AMQP, Redis
<1>1. /\ stage[t] = "running" /\ ended' = ended \cup {<<t, how>>}
      /\ UNCHANGED <<inbox, ran, starts, world, atBroker, verdicts>>
  BY DEF Conclude
<1>2. \E s \in {"over", "acking", "nacking"} :
        /\ stage' = [stage EXCEPT ![t] = s]
        /\ s = "acking" => how = "returned"
        /\ s = "nacking" => how = "failed"
  BY DEF Conclude
<1>3. Kept' /\ Sent'
  BY <1>1, <1>2 DEF Kept, Sent, Stages
<1>4. Unsettled' /\ Once'
  BY <1>1, <1>2 DEF Unsettled, Busy, Once, Kept
<1>5. Founded' /\ VerdictIsTrue'
  BY <1>1, <1>2 DEF Founded, VerdictIsTrue, Kept
<1> QED BY <1>3, <1>4, <1>5

(* The verdict gets to RabbitMQ ... *)
LEMMA VerdictAMQPKeeps ==
  ASSUME ConstantsOK, IInv, NEW t \in Tasks, AckAMQP(t) \/ NackAMQP(t)
  PROVE  IInv'
<1> USE DEF Call, IInv, world, history, AMQP, Redis
<1>1. /\ AMQP /\ stage[t] \in {"acking", "nacking"}
      /\ unacked' = unacked \ {t} /\ stage' = [stage EXCEPT ![t] = "over"]
      /\ UNCHANGED <<queue, inbox, world, history>>
  BY DEF AckAMQP, NackAMQP
<1>2. Kept' /\ Sent'
  BY <1>1 DEF Kept, Sent, Stages
<1>3. /\ t \notin inbox /\ t \in unacked /\ t \in sent /\ t \notin queue
      /\ Prefetch # 0 => Cardinality(unacked \ {t}) <= Prefetch
  BY <1>1, Settled DEF Unsettled, Busy, Kept
<1>4. Unsettled'
  BY <1>1, <1>3 DEF Unsettled, Busy, Kept, AckAMQP, NackAMQP
<1>5. Once' /\ Founded'
  BY <1>1 DEF Once, Founded, Kept
<1>6. VerdictIsTrue'
  <2>1. t \notin acked \cup nacked
    BY <1>1, <1>3 DEF VerdictIsTrue
  <2>2. \/ acked' = acked \cup {t} /\ nacked' = nacked /\ stage[t] = "acking"
        \/ nacked' = nacked \cup {t} /\ acked' = acked /\ stage[t] = "nacking"
    BY DEF AckAMQP, NackAMQP
  <2>3. VerdictIsTrue!1' /\ VerdictIsTrue!2'
    BY <1>1, <2>2 DEF VerdictIsTrue, Founded
  <2>4. VerdictIsTrue!3'
    BY <1>1, <1>3, <2>1, <2>2 DEF VerdictIsTrue
  <2> QED BY <2>3, <2>4 DEF VerdictIsTrue
<1> QED BY <1>2, <1>4, <1>5, <1>6

(* ... or to Redis ... *)
LEMMA VerdictRedisKeeps ==
  ASSUME IInv, NEW t \in Tasks, AckRedis(t) \/ NackRedis(t) \/ Tidied(t)
  PROVE  IInv'
<1> USE DEF Call, IInv, world, atBroker, verdicts, history, AMQP, Redis
<1>1. /\ UNCHANGED <<inbox, world, atBroker, history>>
      /\ \E s \in {"tidying", "tidying_nack", "over"} : stage' = [stage EXCEPT ![t] = s]
  BY DEF AckRedis, NackRedis, Tidied
<1>2. Kept' /\ Sent'
  BY <1>1 DEF Kept, Sent, Stages
<1>3. Unsettled' /\ Once' /\ Founded'
  BY <1>1 DEF Unsettled, Busy, Once, Founded, Kept, AckRedis, NackRedis, Tidied
<1>4. VerdictIsTrue'
  BY <1>1 DEF VerdictIsTrue, Founded, AckRedis, NackRedis, Tidied
<1> QED BY <1>2, <1>3, <1>4

(* ... or fails on the way, which over Redis turns an ack into a nack.     *)
LEMMA VerdictFailsKeeps ==
  ASSUME ConstantsOK, IInv, NEW t \in Tasks, VerdictFails(t)
  PROVE  IInv'
<1> USE DEF Call, IInv, atBroker, verdicts, history, AMQP, Redis
<1>1. /\ faults' = faults + 1 /\ faults \in Nat
      /\ UNCHANGED <<backend, args, message, sent, inbox, atBroker, verdicts, history>>
      /\ \/ Redis /\ stage' = [stage EXCEPT ![t] = "nacking"]
         \/ stage' = [stage EXCEPT ![t] = "over"]
  BY DEF VerdictFails, Kept
<1>2. Kept' /\ Sent'
  BY <1>1 DEF Kept, Sent, Stages
<1>3. Unsettled' /\ Once'
  BY <1>1 DEF Unsettled, Busy, Once, Kept
<1>4. Founded'
  <2>1. faults' > 0
    BY <1>1
  <2> SUFFICES ASSUME NEW q \in Tasks PROVE Founded!(q)'
    BY DEF Founded
  <2> QED BY <1>1, <2>1 DEF Founded, Kept
<1>5. VerdictIsTrue'
  BY <1>1 DEF VerdictIsTrue
<1> QED BY <1>2, <1>3, <1>4, <1>5

(* stop() leaves the broker what it has; the sockets of ZeroMQ go with     *)
(* what is in them.                                                        *)
LEMMA StopDelayersKeeps ==
  ASSUME IInv, StopDelayers
  PROVE  IInv'
<1> USE DEF Call, IInv, StopDelayers, verdicts, history, AMQP, Redis
<1>1. Kept' /\ Sent'
  BY DEF Kept, Sent, Stages
<1>2. Unsettled' /\ Once' /\ Founded'
  BY DEF Unsettled, Busy, Once, Founded, Kept
<1>3. VerdictIsTrue'
  BY DEF VerdictIsTrue
<1> QED BY <1>1, <1>2, <1>3

(* The process starts anew, and RabbitMQ queues what was not settled.      *)
LEMMA RestartKeeps ==
  ASSUME ConstantsOK, IInv, Restart
  PROVE  IInv'
<1> USE DEF Call, IInv, Restart, verdicts, history, AMQP, Redis
<1>1. Kept' /\ Sent'
  BY DEF Kept, Sent, Stages, Requeued
<1>2. Cardinality({}) = 0 /\ 0 <= Prefetch
  BY FS_EmptySet DEF ConstantsOK
<1>3. Unsettled'
  BY <1>2 DEF Unsettled, Busy
<1>4. Once' /\ Founded'
  BY DEF Once, Founded, Requeued
<1>5. VerdictIsTrue'
  BY DEF VerdictIsTrue, Requeued
<1> QED BY <1>1, <1>3, <1>4, <1>5

(* Whatever the worker's loop does. *)
LEMMA LoopKeeps ==
  ASSUME ConstantsOK, IInv, LoopStep
  PROVE  IInv'
<1>1. ASSUME NEW t \in Tasks, Work(t) PROVE IInv'
  BY <1>1, TakeKeeps, RejectKeeps, ConcludeKeeps, VerdictAMQPKeeps, VerdictRedisKeeps,
     VerdictFailsKeeps DEF Work
<1>2. CASE Listen \/ Iterate \/ EnsureConnection \/ RejectDone \/ CleanupOldTasks
  BY <1>2, AsideKeeps
  DEF Listen, Iterate, EnsureConnection, RejectDone, CleanupOldTasks, world
<1> QED BY <1>1, <1>2 DEF LoopStep

-----------------------------------------------------------------------------
(* IInv is an inductive invariant. *)
THEOREM Invariance == ProcessSpec => []IInv
<1> USE ConstantsOK
<1>1. ProcessInit => IInv
  <2> SUFFICES ASSUME ProcessInit PROVE IInv
    OBVIOUS
  <2>1. Kept
    BY DEF ProcessInit, Init, Kept, Stages, ConstantsOK
  <2>2. Sent
    <3>1. PICK origin \in [Tasks -> Origins] :
            message = [t \in Tasks |-> MessageFrom(origin[t], t, args[t])]
      BY DEF ProcessInit, Init
    <3>2. sent = {} /\ args \in Requests
      BY DEF ProcessInit, Init
    <3> QED BY <3>1, <3>2 DEF Sent
  <2>3. Unsettled
    BY FS_EmptySet DEF ProcessInit, Init, Unsettled, Busy, ConstantsOK
  <2>4. Once /\ Founded /\ VerdictIsTrue
    BY DEF ProcessInit, Init, Once, Founded, VerdictIsTrue
  <2> QED BY <2>1, <2>2, <2>3, <2>4 DEF IInv
<1>2. IInv /\ [ProcessNext]_allVars => IInv'
  <2> SUFFICES ASSUME IInv, [ProcessNext]_allVars PROVE IInv'
    OBVIOUS
  <2>1. CASE UNCHANGED vars \/ Run
    BY <2>1, AsideKeeps DEF vars, Run, atBroker, verdicts, history
  <2>2. CASE StopDelayers
    BY <2>2, StopDelayersKeeps
  <2>3. CASE Restart
    BY <2>3, RestartKeeps
  <2>4. CASE LoopStep
    BY <2>4, LoopKeeps
  <2>5. ASSUME NEW t \in Tasks, Transport(t) \/ Send(t) PROVE IInv'
    BY <2>5, TransportKeeps, SendKeeps
  <2> QED
    BY <2>1, <2>2, <2>3, <2>4, <2>5
    DEF ProcessNext, allVars, BuildManager, ApplicationBuilds, ConsoleStarts, ConsoleIsLeft,
        SetupStarts, LifespanStarts, ProgramRuns, ProgramEnters, ProgramLeaves, StopInside,
        StopReturns, StopRaises, Exit, StartAgain
<1> QED BY <1>1, <1>2, PTL DEF ProcessSpec

(* Over Redis and ZeroMQ no task is begun twice, whatever dies when        *)
(* (pending_tasks of redis.py and zmq.py).                                 *)
THEOREM NothingTwice == ProcessSpec => []BegunAtMostOnce
<1>1. IInv => BegunAtMostOnce
  BY DEF IInv, Once, BegunAtMostOnce
<1> QED BY <1>1, Invariance, PTL

(* Verdicts are true, and what RabbitMQ has let go has one (_task_ack,     *)
(* _task_nack).                                                            *)
THEOREM VerdictsAreTrue == ProcessSpec => []VerdictIsTrue
<1>1. IInv => VerdictIsTrue
  BY DEF IInv
<1> QED BY <1>1, Invariance, PTL

(* Over AMQP a task with a verdict keeps it and is not begun again, by any *)
(* life of the process: RabbitMQ has let go of the message, so that it is  *)
(* neither delivered nor settled a second time (_task_ack, _task_nack).    *)
THEOREM SettledForGood == ProcessSpec => SettledIsOver
<1> DEFINE Keeps == AMQP => \A t \in acked \cup nacked :
                      /\ starts'[t] = starts[t]
                      /\ t \in acked' <=> t \in acked
                      /\ t \in nacked' <=> t \in nacked
<1>1. ASSUME IInv, LoopStep PROVE Keeps
  <2>1. CASE \E t \in Tasks : Work(t)
    <3>1. PICK t \in Tasks : Work(t)
      BY <2>1
    <3>2. CASE Take(t) \/ TakeHandle(t)
      <4>1. /\ t \in inbox /\ UNCHANGED verdicts
            /\ starts' = [starts EXCEPT ![t] = @ + 1] \/ UNCHANGED starts
        BY <3>2 DEF Take, TakeHandle, Begin
      <4>2. AMQP => t \notin acked \cup nacked /\ acked \cup nacked \subseteq Tasks
        BY <1>1, <4>1 DEF IInv, Kept, Unsettled, VerdictIsTrue
      <4>3. starts \in [Tasks -> Nat]
        BY <1>1 DEF IInv, Kept
      <4> QED BY <4>1, <4>2, <4>3 DEF verdicts
    <3>3. CASE AckAMQP(t) \/ NackAMQP(t) \/ TakeRejecting(t)
      <4>1. AMQP => t \in unacked
        BY <1>1, <3>3
        DEF IInv, Unsettled, Busy, AckAMQP, NackAMQP, TakeRejecting
      <4>2. AMQP => t \notin acked \cup nacked
        BY <1>1, <4>1 DEF IInv, VerdictIsTrue
      <4> QED BY <3>3, <4>2 DEF AckAMQP, NackAMQP, TakeRejecting, history
    <3>4. CASE AckRedis(t) \/ NackRedis(t)
      BY <3>4 DEF AckRedis, NackRedis, Redis, AMQP
    <3>5. CASE \/ Tidied(t) \/ VerdictFails(t)
               \/ \E how \in {"returned", "failed"} : Conclude(t, how)
      BY <3>5 DEF Tidied, VerdictFails, Conclude, verdicts, history
    <3> QED BY <3>1, <3>2, <3>3, <3>4, <3>5 DEF Work
  <2>2. CASE Listen \/ Iterate \/ EnsureConnection \/ RejectDone \/ CleanupOldTasks
    BY <2>2
    DEF Listen, Iterate, EnsureConnection, RejectDone, CleanupOldTasks, verdicts, history
  <2> QED BY <1>1, <2>1, <2>2 DEF LoopStep
<1>2. ASSUME UNCHANGED <<verdicts, history>> PROVE Keeps
  BY <1>2 DEF verdicts, history
<1>3. ASSUME IInv, [ProcessNext]_allVars PROVE Keeps
  <2> HIDE DEF Keeps
  <2>1. CASE proc = "serving" /\ LoopStep /\ Connects
    BY <1>1, <1>3, <2>1
  <2>2. CASE UNCHANGED vars
    BY <1>2, <2>2 DEF vars, verdicts, history
  <2>3. CASE Run \/ StopDelayers \/ Restart
    BY <1>2, <2>3 DEF Run, StopDelayers, Restart
  <2>4. ASSUME NEW t \in Tasks, Transport(t) \/ Send(t) PROVE Keeps
    BY <1>2, <2>4 DEF Transport, Pop, Deliver, Push, Send, history
  <2> QED
    BY <1>3, <2>1, <2>2, <2>3, <2>4
    DEF ProcessNext, allVars, BuildManager, ApplicationBuilds, ConsoleStarts, ConsoleIsLeft,
        SetupStarts, LifespanStarts, ProgramRuns, ProgramEnters, ProgramLeaves, StopInside,
        StopReturns, StopRaises, Exit, StartAgain
<1>4. IInv /\ [ProcessNext]_allVars => [Keeps]_vars
  BY <1>3 DEF IInv
<1> QED BY <1>4, Invariance, PTL DEF ProcessSpec, SettledIsOver

(* The prefetch count bounds what runs over AMQP (_ensure_connection,      *)
(* cleanup_old_tasks).                                                     *)
THEOREM PrefetchBounds == ProcessSpec => []WithinPrefetch
<1> USE ConstantsOK
<1>1. ASSUME IInv, AMQP, Prefetch # 0 PROVE Cardinality(Running) <= Prefetch
  <2>1. Running \in SUBSET unacked /\ Cardinality(unacked) <= Prefetch
    BY <1>1 DEF IInv, Unsettled, Busy, Running
  <2>2. IsFiniteSet(unacked) /\ Cardinality(unacked) \in Nat
    BY <1>1, FinitelyMany DEF IInv
  <2>3. Cardinality(Running) <= Cardinality(unacked) /\ Cardinality(Running) \in Nat
    BY <2>1, <2>2, FS_Subset, FS_CardinalityType
  <2> QED BY <2>1, <2>2, <2>3 DEF ConstantsOK
<1>2. IInv => WithinPrefetch
  BY <1>1 DEF WithinPrefetch
<1> QED BY <1>2, Invariance, PTL
=============================================================================
