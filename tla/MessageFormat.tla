---------------------------- MODULE MessageFormat ----------------------------
(***************************************************************************)
(* The two formats of a task on the wire: the native one (msgpack of one   *)
(* dict) and Celery's protocol 2 (properties, headers and body, as JSON    *)
(* unless asked otherwise), with what each reader makes of each.  A        *)
(* message is its codec, whether that codec can read it back, and the dict *)
(* it stands for; None is a message that could not be written.  Keyword    *)
(* arguments travel like the positional ones and are left out.             *)
(***************************************************************************)
CONSTANT None    \* Python's None

Codecs == {"json", "msgpack"}

(* Arguments, as far as the codecs tell them apart: a value is a record    *)
(* [kind, of].  "dict" has keys that are strings, "intkeys" is a dict with *)
(* integers for keys.                                                      *)
Kinds == {"plain", "list", "tuple", "dict", "intkeys", "bytes"}

(* dumps() and packb(): both write a tuple as a list, and JSON writes      *)
(* integer keys as strings.                                                *)
Carried(codec, v) ==
  IF v.kind = "tuple" THEN [v EXCEPT !.kind = "list"]
  ELSE IF v.kind = "intkeys" /\ codec = "json" THEN [v EXCEPT !.kind = "dict"]
  ELSE v

CarriedArgs(codec, args) == [i \in DOMAIN args |-> Carried(codec, args[i])]

(* JSON cannot write bytes: json raises TypeError, and so does ujson. *)
Writes(codec, args) ==
  codec = "json" => \A i \in DOMAIN args : args[i].kind # "bytes"

(* msgpack writes integer keys, but unpackb() refuses them (strict_map_key *)
(* is on unless one asks; umsgpack, taken instead where it is installed,   *)
(* is no declared dependency and would read them).                         *)
ReadsBack(codec, args) ==
  codec = "msgpack" => \A i \in DOMAIN args : args[i].kind # "intkeys"

Encode(codec, args, data) ==
  IF Writes(codec, args)
    THEN [codec |-> codec, loads |-> ReadsBack(codec, args), data |-> data]
    ELSE None

Keys(d) == DOMAIN d

(* serialize_celery_message: what a reader looks at later. *)
SerializeCelery(fn, args, id) ==
  [properties |-> [correlation_id |-> id],
   headers    |-> [task |-> fn, id |-> id],
   body       |-> [args |-> args]]

(* encode_celery_task; no arguments are an empty list. *)
EncodeCelery(fn, args, id, serializer) ==
  LET list == IF args = None THEN <<>> ELSE args IN
    Encode(serializer, list, SerializeCelery(fn, CarriedArgs(serializer, list), id))

(* AsyncWaitContextManager.build_delay_message *)
BuildDelayMessage(compat, id, fn, args) ==
  IF compat THEN EncodeCelery(fn, args, id, "json")
            ELSE Encode("msgpack", args, [task_id  |-> id,
                                          function |-> fn,
                                          args     |-> CarriedArgs("msgpack", args)])

(* is_celery_message tries both codecs. *)
IsCelery(message) ==
  /\ message.codec \in Codecs
  /\ message.loads
  /\ {"properties", "headers", "body"} \subseteq Keys(message.data)
  /\ "task" \in Keys(message.data.headers)

(* deserialize_celery_message: an id that is missing is the correlation id. *)
DeserializeCelery(properties, headers, body) ==
  [task_id   |-> IF "id" \in Keys(headers) /\ headers.id # None THEN headers.id
                 ELSE IF "correlation_id" \in Keys(properties)
                        THEN properties.correlation_id ELSE None,
   task_name |-> IF "task" \in Keys(headers) THEN headers.task ELSE None,
   args      |-> IF "args" \in Keys(body) THEN body.args ELSE <<>>]

(* decode_celery_task: the reader says which codec it expects.  None for   *)
(* what raises.                                                            *)
DecodeCelery(message, serializer) ==
  IF message.codec = serializer /\ message.loads
    THEN DeserializeCelery(message.data.properties, message.data.headers,
                           message.data.body)
    ELSE None

Field(d, k) == IF k \in Keys(d) THEN d[k] ELSE None

(* What _deserialize_task_message looks for in a message that is JSON. *)
CeleryShaped(d) ==
  {"headers", "body"} \subseteq Keys(d) /\ "task" \in Keys(d.headers)

(* _deserialize_task_message: Celery only as JSON; everything else is read *)
(* as native msgpack, whose missing keys are None.  None for what raises.  *)
DeserializeTask(message) ==
  IF message.codec = "json"
    THEN IF CeleryShaped(message.data)
           THEN [task_id  |-> Field(message.data.headers, "id"),
                 function |-> Field(message.data.headers, "task"),
                 args     |-> Field(message.data.body, "args")]
           ELSE None
    ELSE IF message.codec = "msgpack" /\ message.loads
           THEN [task_id  |-> Field(message.data, "task_id"),
                 function |-> Field(message.data, "function"),
                 args     |-> Field(message.data, "args")]
           ELSE None

(* What the AMQP generator takes for the id: it reads native messages      *)
(* only.                                                                   *)
AMQPReads(message) == message.codec = "msgpack" /\ message.loads

AMQPTaskId(message) == Field(message.data, "task_id")
=============================================================================
