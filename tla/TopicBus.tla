------------------------------ MODULE TopicBus ------------------------------
(***************************************************************************)
(* Publish/subscribe of aiotasks: publish(), the listener listen_topics    *)
(* with the registration of its channel, and the handlers it starts.  In   *)
(* memory the channel is a queue of the manager, over ZeroMQ a pair of     *)
(* sockets of its own; Redis and AMQP keep the channels at a broker, which *)
(* connects any number of managers.                                        *)
(***************************************************************************)
EXTENDS Naturals, Sequences, FiniteSets

CONSTANTS
  Backends,    \* the backends to consider, out of AllBackends
  Managers,    \* one per process
  Handlers,    \* functions decorated with @manager.subscribe
  Topics,
  Messages,    \* calls of publish()
  ManagerOf,   \* the manager a handler is registered with
  Wanted,      \* pairs of a handler and a topic it is decorated with
  HomeOf,      \* the manager that publishes a message
  TopicOf,
  Unfit,       \* handlers that do not take (topic, data): calling one raises
  Kind,        \* "ok"; "empty" has data that is false in Python; "malformed"
               \* cannot be decoded, as data with a key that is no string
  Outside      \* for TopicLog: not listening

AllBackends == {"memory", "redis", "amqp", "zmq"}

ASSUME ConstantsOK ==
  /\ Backends \subseteq AllBackends
  /\ ManagerOf \in [Handlers -> Managers]
  /\ Wanted \subseteq Handlers \X Topics
  /\ HomeOf \in [Messages -> Managers]
  /\ TopicOf \in [Messages -> Topics]
  /\ Unfit \subseteq Handlers
  /\ Kind \in [Messages -> {"ok", "empty", "malformed"}]
  /\ Outside \notin Nat

VARIABLES
  backend,     \* the transport all managers use
  subscribed,  \* topics_subscribers: the decorators executed
  ready,       \* managers whose subscriber_ready event is set
  listener,    \* where each listen_topics is
  channel,     \* the messages waiting for each listener
  sending,     \* where each call of publish() is
  carried,     \* history: the messages sent where a manager can hear them
  handler      \* running_tasks: where each handler is, by message

vars == <<backend, subscribed, ready, listener, channel, sending, carried,
          handler>>

(* "off" before run(), "created" before its first step, "registering"      *)
(* awaits register_topics(), "dead" once an exception has ended it.        *)
ListenerStates ==
  {"off", "created", "registering", "listening", "dead", "stopped"}

TypeOK ==
  /\ backend \in Backends
  /\ subscribed \subseteq Wanted
  /\ ready \subseteq Managers
  /\ listener \in [Managers -> ListenerStates]
  /\ channel \in [Managers -> Seq(Messages)]
  /\ sending \in [Messages -> {"unsent", "blocked", "sending", "sent", "cancelled"}]
  /\ carried \in [Managers -> Seq(Messages)]
  /\ handler \in [Handlers -> [Messages -> {"none", "running", "over"}]]

Init ==
  /\ backend \in Backends
  /\ subscribed = {}
  /\ ready = {}
  /\ listener = [g \in Managers |-> "off"]
  /\ channel = [g \in Managers |-> <<>>]
  /\ sending = [m \in Messages |-> "unsent"]
  /\ carried = [g \in Managers |-> <<>>]
  /\ handler = [h \in Handlers |-> [m \in Messages |-> "none"]]

-----------------------------------------------------------------------------
InProcess == backend = "memory"

(* A manager over ZeroMQ binds the address of its DSN for publishing and   *)
(* connects its own subscriber to it; no second one can bind there.        *)
OwnBus == InProcess \/ backend = "zmq"

(* The managers that can hear a message: a broker connects them all. *)
Bus(m) == IF OwnBus THEN {HomeOf[m]} ELSE Managers

(* The name of the channel a message arrives on splits at ":" into prefix  *)
(* and topic; AMQP's routing key joins them with ".".                      *)
ChannelSplits == backend # "amqp"

(* @manager.subscribe *)
Subscribe(h, t) ==
  /\ <<h, t>> \in Wanted \ subscribed
  /\ subscribed' = subscribed \cup {<<h, t>>}
  /\ UNCHANGED <<backend, ready, listener, channel, sending, carried, handler>>

(* manager.run() *)
Run(g) ==
  /\ listener[g] = "off"
  /\ listener' = [listener EXCEPT ![g] = "created"]
  /\ UNCHANGED <<backend, subscribed, ready, channel, sending, carried, handler>>

StartListeningUnready(g) ==   \* mutated: subscriber_ready is never set
  /\ listener[g] = "created"
  /\ listener' = [listener EXCEPT ![g] =
                    IF InProcess THEN "listening" ELSE "registering"]
  /\ UNCHANGED <<backend, subscribed, ready, channel, sending, carried, handler>>

(* The first step of listen_topics: subscriber_ready is set, then          *)
(* register_topics() is awaited, which in memory does not suspend.         *)
StartListening(g) ==
  /\ listener[g] = "created"
  /\ ready' = ready \cup {g}
  /\ listener' = [listener EXCEPT ![g] =
                    IF InProcess THEN "listening" ELSE "registering"]
  /\ UNCHANGED <<backend, subscribed, channel, sending, carried, handler>>

(* psubscribe, the declaration and binding of the queue, or the arrival of *)
(* the subscription at the PUB socket: messages are delivered from here.   *)
Registered(g) ==
  /\ listener[g] = "registering"
  /\ listener' = [listener EXCEPT ![g] = "listening"]
  /\ UNCHANGED <<backend, subscribed, ready, channel, sending, carried, handler>>

(* The transport delivers to every channel that is registered on the bus. *)
Broadcast(m) ==
  /\ carried' = [g \in Managers |-> IF g \in Bus(m) THEN Append(carried[g], m)
                                                     ELSE carried[g]]
  /\ channel' = [g \in Managers |->
                   IF g \in Bus(m) /\ listener[g] = "listening"
                     THEN Append(channel[g], m) ELSE channel[g]]

(* publish() in memory puts the message on the queues that exist. *)
PublishInProcess(m) ==
  /\ InProcess
  /\ sending[m] = "unsent"
  /\ Broadcast(m)
  /\ sending' = [sending EXCEPT ![m] = "sent"]
  /\ UNCHANGED <<backend, subscribed, ready, listener, handler>>

(* publish() elsewhere waits for subscriber_ready of its own manager,  *)
(* then for the transport.                                                 *)
Publish(m) ==
  /\ ~InProcess
  /\ sending[m] = "unsent"
  /\ listener[HomeOf[m]] # "stopped"
  /\ sending' = [sending EXCEPT ![m] =
                   IF HomeOf[m] \in ready THEN "sending" ELSE "blocked"]
  /\ UNCHANGED <<backend, subscribed, ready, listener, channel, carried, handler>>

WakePublisher(m) ==
  /\ sending[m] = "blocked"
  /\ HomeOf[m] \in ready
  /\ sending' = [sending EXCEPT ![m] = "sending"]
  /\ UNCHANGED <<backend, subscribed, ready, listener, channel, carried, handler>>

Arrive(m) ==
  /\ sending[m] = "sending"
  /\ Broadcast(m)
  /\ sending' = [sending EXCEPT ![m] = "sent"]
  /\ UNCHANGED <<backend, subscribed, ready, listener, handler>>

-----------------------------------------------------------------------------
Readable(g) == listener[g] = "listening" /\ channel[g] # <<>>

(* The messages listen_topics logs and skips. *)
Skipped(m) == Kind[m] = "empty" \/ ~ChannelSplits

Skip(g) ==
  /\ Readable(g)
  /\ Skipped(Head(channel[g]))
  /\ channel' = [channel EXCEPT ![g] = Tail(@)]
  /\ UNCHANGED <<backend, subscribed, ready, listener, sending, carried, handler>>

StartsFirst(g, m) ==          \* mutated: only one of the functions is started
  LET H == {h \in Handlers : ManagerOf[h] = g /\ <<h, TopicOf[m]>> \in subscribed} IN
    IF H = {} THEN {} ELSE {CHOOSE h \in H : TRUE}

(* One task for each function subscribed to the topic at this moment. *)
Starts(g, m) ==
  {h \in Handlers : ManagerOf[h] = g /\ <<h, TopicOf[m]>> \in subscribed}

DispatchStays(g) ==           \* mutated: the message is read but not consumed
  /\ Readable(g)
  /\ Kind[Head(channel[g])] = "ok" /\ ~Skipped(Head(channel[g]))
  /\ Starts(g, Head(channel[g])) \cap Unfit = {}
  /\ LET m == Head(channel[g]) IN
       handler' = [h \in Handlers |->
                     IF h \in Starts(g, m) THEN [handler[h] EXCEPT ![m] = "running"]
                                           ELSE handler[h]]
  /\ UNCHANGED <<backend, subscribed, ready, listener, channel, sending, carried>>

DispatchEnds(g) ==            \* mutated: the loop is left after one message
  /\ Readable(g)
  /\ Kind[Head(channel[g])] = "ok" /\ ~Skipped(Head(channel[g]))
  /\ Starts(g, Head(channel[g])) \cap Unfit = {}
  /\ LET m == Head(channel[g]) IN
       handler' = [h \in Handlers |->
                     IF h \in Starts(g, m) THEN [handler[h] EXCEPT ![m] = "running"]
                                           ELSE handler[h]]
  /\ listener' = [listener EXCEPT ![g] = "dead"]
  /\ channel' = [channel EXCEPT ![g] = <<>>]
  /\ UNCHANGED <<backend, subscribed, ready, sending, carried>>

Dispatch(g) ==
  /\ Readable(g)
  /\ Kind[Head(channel[g])] = "ok" /\ ~Skipped(Head(channel[g]))
  /\ Starts(g, Head(channel[g])) \cap Unfit = {}
  /\ LET m == Head(channel[g]) IN
       handler' = [h \in Handlers |->
                     IF h \in Starts(g, m) THEN [handler[h] EXCEPT ![m] = "running"]
                                           ELSE handler[h]]
  /\ channel' = [channel EXCEPT ![g] = Tail(@)]
  /\ UNCHANGED <<backend, subscribed, ready, listener, sending, carried>>

(* Nothing in listen_topics catches an exception: what cannot be decoded   *)
(* ends it, and so does the call of a function that does not take (topic,  *)
(* data), after the functions met before it in the set have been started.  *)
(* Nobody reads the channel from then on.                                  *)
Break(g) ==
  /\ Readable(g)
  /\ LET m == Head(channel[g]) IN
       /\ ~Skipped(m)
       /\ Kind[m] = "malformed" \/ Starts(g, m) \cap Unfit # {}
       /\ \E H \in SUBSET {h \in Starts(g, m) \ Unfit : Kind[m] = "ok"} :
            handler' = [h \in Handlers |->
                          IF h \in H THEN [handler[h] EXCEPT ![m] = "running"]
                                     ELSE handler[h]]
  /\ listener' = [listener EXCEPT ![g] = "dead"]
  /\ channel' = [channel EXCEPT ![g] = <<>>]
  /\ UNCHANGED <<backend, subscribed, ready, sending, carried>>

(* A handler has returned, raised or been cancelled, all the same to the   *)
(* bus: _make_tasks_done_subscriber.                                       *)
HandlerDone(h, m) ==
  /\ handler[h][m] = "running"
  /\ handler' = [handler EXCEPT ![h][m] = "over"]
  /\ UNCHANGED <<backend, subscribed, ready, listener, channel, sending, carried>>

(* stop(): stop_subscriptions forgets the queues or closes the connection, *)
(* and every task of the loop is cancelled: the publishers in the middle   *)
(* of publish() too.                                                       *)
Stop(g) ==
  /\ listener[g] \notin {"off", "stopped"}
  /\ listener' = [listener EXCEPT ![g] = "stopped"]
  /\ channel' = [channel EXCEPT ![g] = <<>>]
  /\ sending' = [m \in Messages |->
                   IF HomeOf[m] = g /\ sending[m] \in {"blocked", "sending"}
                     THEN "cancelled" ELSE sending[m]]
  /\ UNCHANGED <<backend, subscribed, ready, carried, handler>>

ListenerStep(g) ==
  StartListening(g) \/ Registered(g) \/ Skip(g) \/ Dispatch(g) \/ Break(g)

PublisherStep(m) == WakePublisher(m) \/ Arrive(m)

Next ==
  \/ \E h \in Handlers, t \in Topics : Subscribe(h, t)
  \/ \E g \in Managers : Run(g) \/ ListenerStep(g) \/ Stop(g)
  \/ \E m \in Messages : PublishInProcess(m) \/ Publish(m) \/ PublisherStep(m)
  \/ \E h \in Handlers, m \in Messages : HandlerDone(h, m)

Spec == Init /\ [][Next]_vars

(* The loop runs what is scheduled and the broker answers.  Nobody is      *)
(* obliged to call run(), publish() or stop(), and a handler may go on     *)
(* for ever.                                                               *)
Fairness ==
  /\ \A g \in Managers : WF_vars(ListenerStep(g))
  /\ \A m \in Messages : WF_vars(PublisherStep(m))

FairSpec == Spec /\ Fairness

-----------------------------------------------------------------------------
(* How far a manager is in what its bus carried, and the calls made. *)
Place(g) ==
  IF listener[g] = "listening" THEN Len(carried[g]) - Len(channel[g]) ELSE Outside

Calls == {c \in Handlers \X Messages : handler[c[1]][c[2]] # "none"}

Log == INSTANCE TopicLog WITH
  log <- carried, place <- [g \in Managers |-> Place(g)], calls <- Calls

(* A listener reads its bus from the place it joined at, in order, without *)
(* gap or repetition, and no function is started twice for a message       *)
(* (publish, listen_topics).                                               *)
ImplementsTopicLog == Log!Spec

(* What a listener consumes is handled: when a message with data leaves    *)
(* the channel of a live listener, every function its manager has          *)
(* subscribed to the topic is started ("ALL subscribers receive the        *)
(* message", amqp.py:93).                                                  *)
ConsumedMeansStarted ==
  [][\A g \in Managers, h \in Handlers :
       LET m == Head(channel[g]) IN
         /\ Len(channel'[g]) < Len(channel[g])
         /\ listener'[g] = "listening"
         /\ Kind[m] = "ok"
         /\ ManagerOf[h] = g
         /\ <<h, TopicOf[m]>> \in subscribed
         => handler'[h][m] = "running"]_vars

(* What a manager publishes after run() its own listener hears: publish()  *)
(* waits for the subscriber to be ready (redis.py:82), and in memory       *)
(* test_subscribers.py:16-26 publishes right after run() and expects the   *)
(* handler to be called.                                                   *)
OwnListenerHears ==
  [][\A m \in Messages :
       PublishInProcess(m) \/ Arrive(m)
         => listener[HomeOf[m]] \notin {"created", "registering"}]_vars

(* The functions meant to be called, and for which message. *)
Meant == {c \in Handlers \X Messages :
            Kind[c[2]] = "ok" /\ <<c[1], TopicOf[c[2]]>> \in Wanted}

Awaits(h, m) ==
  LET g == ManagerOf[h] IN
    /\ <<h, TopicOf[m]>> \in subscribed
    /\ \E i \in DOMAIN channel[g] : channel[g][i] = m

(* A message on a live channel starts every function that was subscribed   *)
(* when it came, unless the manager is stopped first: listen_topics "runs  *)
(* continuously" and "validates message format and content"                *)
(* (bases.py:166-173).                                                     *)
EveryMessageIsHandled ==
  \A c \in Meant :
    Awaits(c[1], c[2])
      ~> (handler[c[1]][c[2]] # "none" \/ listener[ManagerOf[c[1]]] = "stopped")

(* The messages that end the listener of g, once the functions its module  *)
(* decorates are subscribed.                                               *)
Poison(g, m) ==
  /\ ~Skipped(m)
  /\ \/ Kind[m] = "malformed"
     \/ \E h \in Unfit : ManagerOf[h] = g /\ <<h, TopicOf[m]>> \in Wanted

(* The same for a message with nothing poisonous on the channel up to it.  *)
EveryMessageHandled ==
  \A c \in Meant :
    LET h == c[1]  m == c[2]  g == ManagerOf[c[1]] IN
      (/\ Awaits(h, m)
       /\ \E i \in DOMAIN channel[g] :
            channel[g][i] = m /\ \A j \in 1..i : ~Poison(g, channel[g][j]))
        ~> (handler[h][m] # "none" \/ listener[g] = "stopped")

(* Once its manager has called run(), a publisher that waits for           *)
(* subscriber_ready gets to publish, unless the manager is stopped.        *)
BlockedPublisherProceeds ==
  \A m \in Messages :
    (sending[m] = "blocked" /\ listener[HomeOf[m]] # "off")
      ~> sending[m] \in {"sent", "cancelled"}
=============================================================================
