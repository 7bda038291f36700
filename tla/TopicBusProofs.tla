--------------------------- MODULE TopicBusProofs ---------------------------
(***************************************************************************)
(* Theorems about TopicBus, for any managers, handlers, topics and         *)
(* messages: type correctness, and that it implements TopicLog.            *)
(***************************************************************************)
EXTENDS TopicBus, SequenceTheorems, TLAPS

On(s, m)  == \E i \in 1..Len(s) : s[i] = m
Suffix(s, t) ==
  /\ Len(s) <= Len(t)
  /\ \A i \in 1..Len(s) : s[i] = t[Len(t) - Len(s) + i]
Once(s) == \A i, j \in 1..Len(s) : s[i] = s[j] => i = j

(* What waits for a live listener is the end of what its bus carried. *)
ChannelIsRest ==
  \A g \in Managers :
    /\ listener[g] = "listening" => Suffix(channel[g], carried[g])
    /\ listener[g] # "listening" => channel[g] = <<>>

(* A message is carried once, by a publisher that is done with it. *)
CarriedOnce ==
  \A g \in Managers :
    /\ \A m \in Messages : On(carried[g], m) => sending[m] = "sent"
    /\ Once(carried[g])

(* A handler has been started only for messages carried, and for none that *)
(* still waits.                                                            *)
HandledLater ==
  \A h \in Handlers, m \in Messages :
    handler[h][m] # "none" =>
      sending[m] = "sent" /\ ~On(channel[ManagerOf[h]], m)

IInv == TypeOK /\ ChannelIsRest /\ CarriedOnce /\ HandledLater

(* The listener of g takes the head of its channel, and goes on or ends. *)
Takes(g) ==
  \/ /\ channel' = [channel EXCEPT ![g] = Tail(@)]
     /\ UNCHANGED listener
  \/ /\ channel' = [channel EXCEPT ![g] = <<>>]
     /\ listener' = [listener EXCEPT ![g] = "dead"]

-----------------------------------------------------------------------------
(* Facts about sequences. *)

(* Appending keeps the elements there were and adds one at the end. *)
LEMMA AppendFacts ==
  ASSUME NEW S, NEW s \in Seq(S), NEW e \in S
  PROVE  /\ Append(s, e) \in Seq(S)
         /\ Len(s) \in Nat
         /\ Len(Append(s, e)) = Len(s) + 1
         /\ \A i \in 1..Len(s) : Append(s, e)[i] = s[i]
         /\ Append(s, e)[Len(s) + 1] = e
  OBVIOUS

(* The tail is the sequence shifted by one. *)
LEMMA TailFacts ==
  ASSUME NEW S, NEW s \in Seq(S), s # <<>>
  PROVE  /\ Head(s) = s[1]
         /\ Head(s) \in S
         /\ Len(s) \in Nat \ {0}
         /\ Tail(s) \in Seq(S)
         /\ Len(Tail(s)) = Len(s) - 1
         /\ \A i \in 1..Len(Tail(s)) : Tail(s)[i] = s[i + 1]
  OBVIOUS

(* The elements of an extended sequence. *)
LEMMA OnAppend ==
  ASSUME NEW S, NEW s \in Seq(S), NEW e \in S, NEW m
  PROVE  On(Append(s, e), m) <=> On(s, m) \/ m = e
<1>1. \A i \in 1..(Len(s) + 1) : i \in 1..Len(s) \/ i = Len(s) + 1
  BY AppendFacts
<1>2. Len(s) + 1 \in 1..(Len(s) + 1) /\ 1..Len(s) \subseteq 1..(Len(s) + 1)
  BY AppendFacts
<1> QED BY <1>1, <1>2, AppendFacts DEF On

(* What is in the tail is in the sequence, and so is its head. *)
LEMMA OnTail ==
  ASSUME NEW S, NEW s \in Seq(S), s # <<>>, NEW m
  PROVE  (On(Tail(s), m) => On(s, m)) /\ On(s, Head(s))
<1>1. ASSUME NEW i \in 1..Len(Tail(s)) PROVE i + 1 \in 1..Len(s)
  BY TailFacts
<1>2. 1 \in 1..Len(s)
  BY TailFacts
<1> QED BY <1>1, <1>2, TailFacts DEF On

(* What is in a suffix is in the sequence. *)
LEMMA OnSuffix ==
  ASSUME NEW S, NEW s \in Seq(S), NEW t \in Seq(S), Suffix(s, t), NEW m, On(s, m)
  PROVE  On(t, m)
<1>1. PICK i \in 1..Len(s) : s[i] = m
  BY DEF On
<1>2. Len(t) - Len(s) + i \in 1..Len(t)
  BY DEF Suffix
<1> QED BY <1>1, <1>2 DEF On, Suffix

(* Both grow by the same element, or the suffix loses its head. *)
LEMMA SuffixAppend ==
  ASSUME NEW S, NEW s \in Seq(S), NEW t \in Seq(S), NEW e \in S, Suffix(s, t)
  PROVE  Suffix(Append(s, e), Append(t, e))
<1>1. Len(s) \in Nat /\ Len(t) \in Nat /\ Len(s) <= Len(t)
  BY DEF Suffix
<1>2. Len(Append(s, e)) = Len(s) + 1 /\ Len(Append(t, e)) = Len(t) + 1
  BY AppendFacts
<1>3. ASSUME NEW i \in 1..(Len(s) + 1)
      PROVE  Append(s, e)[i] = Append(t, e)[Len(t) - Len(s) + i]
  <2>1. CASE i \in 1..Len(s)
    <3>1. Len(t) - Len(s) + i \in 1..Len(t)
      BY <2>1, <1>1
    <3> QED BY <2>1, <3>1, AppendFacts DEF Suffix
  <2>2. CASE i = Len(s) + 1
    <3>1. Len(t) - Len(s) + i = Len(t) + 1
      BY <2>2, <1>1
    <3> QED BY <2>2, <3>1, AppendFacts
  <2> QED BY <2>1, <2>2, <1>1
<1>4. ASSUME NEW i \in 1..(Len(s) + 1)
      PROVE  (Len(t) + 1) - (Len(s) + 1) + i = Len(t) - Len(s) + i
  BY <1>1
<1>5. ASSUME NEW i \in 1..Len(Append(s, e))
      PROVE  Append(s, e)[i] = Append(t, e)[Len(Append(t, e)) - Len(Append(s, e)) + i]
  BY <1>2, <1>3, <1>4
<1>6. Len(Append(s, e)) <= Len(Append(t, e))
  BY <1>1, <1>2
<1> QED BY <1>5, <1>6 DEF Suffix

LEMMA SuffixTail ==
  ASSUME NEW S, NEW s \in Seq(S), NEW t \in Seq(S), s # <<>>, Suffix(s, t)
  PROVE  Suffix(Tail(s), t)
<1>1. Len(t) \in Nat /\ Len(s) \in Nat \ {0} /\ Len(Tail(s)) = Len(s) - 1
  BY TailFacts
<1>2. ASSUME NEW i \in 1..Len(Tail(s))
      PROVE  Tail(s)[i] = t[Len(t) - Len(Tail(s)) + i]
  <2>1. i + 1 \in 1..Len(s) /\ Len(t) - Len(Tail(s)) + i = Len(t) - Len(s) + (i + 1)
    BY <1>1
  <2> QED BY <2>1, TailFacts DEF Suffix
<1> QED BY <1>1, <1>2 DEF Suffix

(* The head of a suffix of a sequence without repetition does not return. *)
LEMMA HeadGone ==
  ASSUME NEW S, NEW s \in Seq(S), NEW t \in Seq(S), s # <<>>, Suffix(s, t), Once(t)
  PROVE  ~On(Tail(s), Head(s))
<1> SUFFICES ASSUME NEW i \in 1..Len(Tail(s)), Tail(s)[i] = Head(s) PROVE FALSE
  BY DEF On
<1>1. Len(t) \in Nat /\ Len(s) \in Nat \ {0} /\ Len(s) <= Len(t)
  BY TailFacts DEF Suffix
<1>2. i + 1 \in 1..Len(s) /\ 1 \in 1..Len(s) /\ s[i + 1] = s[1]
  BY TailFacts
<1>3. t[Len(t) - Len(s) + (i + 1)] = t[Len(t) - Len(s) + 1]
  BY <1>2 DEF Suffix
<1>4. /\ Len(t) - Len(s) + (i + 1) \in 1..Len(t)
      /\ Len(t) - Len(s) + 1 \in 1..Len(t)
  BY <1>1, <1>2
<1>5. Len(t) - Len(s) + (i + 1) = Len(t) - Len(s) + 1
  BY <1>3, <1>4 DEF Once
<1>6. i \in Int /\ i >= 1
  OBVIOUS
<1> QED BY <1>1, <1>5, <1>6

(* A new element keeps a sequence free of repetition. *)
LEMMA OnceAppend ==
  ASSUME NEW S, NEW s \in Seq(S), NEW e \in S, Once(s), ~On(s, e)
  PROVE  Once(Append(s, e))
<1>1. \A i \in 1..(Len(s) + 1) :
        \/ i \in 1..Len(s) /\ Append(s, e)[i] = s[i]
        \/ i = Len(s) + 1 /\ Append(s, e)[i] = e
  BY AppendFacts
<1>2. Len(Append(s, e)) = Len(s) + 1
  BY AppendFacts
<1> QED BY <1>1, <1>2 DEF Once, On

-----------------------------------------------------------------------------
(* Types *)

LEMMA InitTyping == ASSUME ConstantsOK, Init PROVE TypeOK
  BY DEF ConstantsOK, Init, TypeOK, ListenerStates, AllBackends

LEMMA BroadcastTyping ==
  ASSUME ConstantsOK, TypeOK, NEW m \in Messages, Broadcast(m)
  PROVE  /\ carried' \in [Managers -> Seq(Messages)]
         /\ channel' \in [Managers -> Seq(Messages)]
<1>1. \A g \in Managers : Append(carried[g], m) \in Seq(Messages)
                           /\ Append(channel[g], m) \in Seq(Messages)
  BY AppendFacts DEF TypeOK
<1> QED BY <1>1 DEF Broadcast, TypeOK

LEMMA NextTyping == ASSUME ConstantsOK, TypeOK, [Next]_vars PROVE TypeOK'
<1> USE DEF TypeOK
<1>1. ASSUME NEW h \in Handlers, NEW t \in Topics, Subscribe(h, t) PROVE TypeOK'
  BY <1>1 DEF Subscribe
<1>2. ASSUME NEW g \in Managers, Run(g) PROVE TypeOK'
  BY <1>2 DEF Run, ListenerStates
<1>3. ASSUME NEW g \in Managers, StartListening(g) PROVE TypeOK'
  BY <1>3 DEF StartListening, ListenerStates
<1>4. ASSUME NEW g \in Managers, Registered(g) PROVE TypeOK'
  BY <1>4 DEF Registered, ListenerStates
<1>5. ASSUME NEW g \in Managers, Skip(g) PROVE TypeOK'
  <2>1. Tail(channel[g]) \in Seq(Messages)
    BY <1>5, TailFacts DEF Skip, Readable
  <2> QED BY <1>5, <2>1 DEF Skip
<1>6. ASSUME NEW g \in Managers, Dispatch(g) PROVE TypeOK'
  <2>1. Tail(channel[g]) \in Seq(Messages) /\ Head(channel[g]) \in Messages
    BY <1>6, TailFacts DEF Dispatch, Readable
  <2>2. handler' \in [Handlers -> [Messages -> {"none", "running", "over"}]]
    BY <1>6, <2>1 DEF Dispatch
  <2> QED BY <1>6, <2>1, <2>2 DEF Dispatch
<1>14. ASSUME NEW g \in Managers, Break(g) PROVE TypeOK'
  <2>1. Head(channel[g]) \in Messages
    BY <1>14, TailFacts DEF Break, Readable
  <2>2. handler' \in [Handlers -> [Messages -> {"none", "running", "over"}]]
    BY <1>14, <2>1 DEF Break
  <2>3. channel' \in [Managers -> Seq(Messages)]
    BY <1>14 DEF Break
  <2> QED BY <1>14, <2>2, <2>3 DEF Break, ListenerStates
<1>7. ASSUME NEW g \in Managers, Stop(g) PROVE TypeOK'
  BY <1>7 DEF Stop, ListenerStates
<1>8. ASSUME NEW m \in Messages, PublishInProcess(m) PROVE TypeOK'
  BY <1>8, BroadcastTyping DEF PublishInProcess
<1>9. ASSUME NEW m \in Messages, Publish(m) PROVE TypeOK'
  BY <1>9 DEF Publish
<1>10. ASSUME NEW m \in Messages, WakePublisher(m) PROVE TypeOK'
  BY <1>10 DEF WakePublisher
<1>11. ASSUME NEW m \in Messages, Arrive(m) PROVE TypeOK'
  BY <1>11, BroadcastTyping DEF Arrive
<1>12. ASSUME NEW h \in Handlers, NEW m \in Messages, HandlerDone(h, m) PROVE TypeOK'
  BY <1>12 DEF HandlerDone
<1>13. CASE UNCHANGED vars
  BY <1>13 DEF vars
<1> QED
  BY <1>1, <1>2, <1>3, <1>4, <1>5, <1>6, <1>7, <1>8, <1>9, <1>10, <1>11, <1>12, <1>13, <1>14
  DEF Next, ListenerStep, PublisherStep

(* Every variable has its type in every reachable state. *)
THEOREM TypeCorrect == Spec => []TypeOK
<1>1. ConstantsOK /\ Init => TypeOK
  BY InitTyping
<1>2. ConstantsOK /\ TypeOK /\ [Next]_vars => TypeOK'
  BY NextTyping
<1>3. ConstantsOK
  BY ConstantsOK
<1> QED BY <1>1, <1>2, <1>3, PTL DEF Spec

-----------------------------------------------------------------------------
(* The invariant is kept.  Most actions leave channel, carried and sending *)
(* alone; the work is in the reading of a message and in the broadcast.    *)

LEMMA InitInv == ASSUME ConstantsOK, Init PROVE IInv
<1>1. TypeOK BY InitTyping
<1>2. \A g \in Managers : carried[g] = <<>> /\ channel[g] = <<>> /\ listener[g] = "off"
  BY DEF Init
<1>3. ChannelIsRest
  BY <1>2 DEF ChannelIsRest
<1>4. CarriedOnce
  BY <1>2 DEF CarriedOnce, On, Once
<1>5. HandledLater
  BY DEF Init, HandledLater
<1> QED BY <1>1, <1>3, <1>4, <1>5 DEF IInv

(* A listener takes the head of its channel; it may start handlers for it. *)
LEMMA ReadKeeps ==
  ASSUME ConstantsOK, IInv, NEW g \in Managers, Readable(g), TypeOK', Takes(g),
         UNCHANGED <<sending, carried>>,
         \A h \in Handlers, m \in Messages :
           handler'[h][m] # handler[h][m] => ManagerOf[h] = g /\ m = Head(channel[g])
  PROVE  IInv'
<1>1. channel[g] \in Seq(Messages) /\ carried[g] \in Seq(Messages)
      /\ channel \in [Managers -> Seq(Messages)] /\ listener \in [Managers -> ListenerStates]
  BY DEF IInv, TypeOK
<1>2. channel[g] # <<>> /\ Suffix(channel[g], carried[g])
  BY DEF Readable, IInv, ChannelIsRest
<1>3. /\ \A k \in Managers : k # g => channel'[k] = channel[k] /\ listener'[k] = listener[k]
      /\ \/ channel'[g] = Tail(channel[g]) /\ listener'[g] = "listening"
         \/ channel'[g] = <<>> /\ listener'[g] = "dead"
  BY <1>1 DEF Takes, Readable
<1>31. ASSUME NEW n, On(channel'[g], n) PROVE On(Tail(channel[g]), n)
  <2>1. ~On(<<>>, n)
    BY DEF On
  <2> QED BY <1>3, <1>31, <2>1
<1>4. ChannelIsRest'
  <2>1. Suffix(Tail(channel[g]), carried'[g])
    BY <1>1, <1>2, SuffixTail
  <2>2. listener'[g] = "listening" => Suffix(channel'[g], carried'[g])
    BY <1>3, <2>1
  <2> QED BY <2>2, <1>3 DEF IInv, ChannelIsRest, Readable
<1>5. CarriedOnce'
  BY DEF IInv, CarriedOnce
<1>6. HandledLater'
  <2> SUFFICES ASSUME NEW h \in Handlers, NEW m \in Messages, handler'[h][m] # "none"
               PROVE  sending[m] = "sent" /\ ~On(channel'[ManagerOf[h]], m)
    BY DEF HandledLater
  <2>1. ManagerOf[h] \in Managers
    BY DEF ConstantsOK
  <2>2. CASE handler[h][m] # "none"
    <3>1. sending[m] = "sent" /\ ~On(channel[ManagerOf[h]], m)
      BY <2>2 DEF IInv, HandledLater
    <3>2. On(channel'[ManagerOf[h]], m) => On(channel[ManagerOf[h]], m)
      BY <2>1, <1>1, <1>2, <1>3, <1>31, OnTail
    <3> QED BY <3>1, <3>2
  <2>3. CASE handler[h][m] = "none"
    <3>1. ManagerOf[h] = g /\ m = Head(channel[g])
      BY <2>3
    <3>2. On(carried[g], m)
      BY <3>1, <1>1, <1>2, OnTail, OnSuffix
    <3>3. ~On(channel'[g], m)
      BY <3>1, <1>1, <1>2, <1>31, HeadGone DEF IInv, CarriedOnce
    <3> QED BY <3>1, <3>2, <3>3 DEF IInv, CarriedOnce
  <2> QED BY <2>2, <2>3
<1> QED BY <1>4, <1>5, <1>6 DEF IInv

(* A message that was not sent goes to the channels of its bus. *)
LEMMA BroadcastKeeps ==
  ASSUME ConstantsOK, IInv, NEW m \in Messages, Broadcast(m), TypeOK',
         sending[m] # "sent",
         sending' = [sending EXCEPT ![m] = "sent"],
         UNCHANGED <<backend, listener, handler>>
  PROVE  IInv'
<1>1. \A n \in Messages : sending'[n] = IF n = m THEN "sent" ELSE sending[n]
  BY DEF IInv, TypeOK
<1>2. \A g \in Managers : channel[g] \in Seq(Messages) /\ carried[g] \in Seq(Messages)
  BY DEF IInv, TypeOK
<1>3. \A g \in Managers :
        /\ carried'[g] = IF g \in Bus(m) THEN Append(carried[g], m) ELSE carried[g]
        /\ channel'[g] = IF g \in Bus(m) /\ listener[g] = "listening"
                           THEN Append(channel[g], m) ELSE channel[g]
  BY DEF Broadcast
<1>4. \A g \in Managers : ~On(carried[g], m)
  BY DEF IInv, CarriedOnce
<1>5. ChannelIsRest'
  <2> SUFFICES ASSUME NEW g \in Managers
               PROVE  /\ listener[g] = "listening" => Suffix(channel'[g], carried'[g])
                      /\ listener[g] # "listening" => channel'[g] = <<>>
    BY DEF ChannelIsRest
  <2>1. CASE g \in Bus(m) /\ listener[g] = "listening"
    BY <2>1, <1>2, <1>3, SuffixAppend DEF IInv, ChannelIsRest
  <2>2. CASE g \notin Bus(m) \/ listener[g] # "listening"
    BY <2>2, <1>3 DEF IInv, ChannelIsRest
  <2> QED BY <2>1, <2>2
<1>6. CarriedOnce'
  <2> SUFFICES ASSUME NEW g \in Managers
               PROVE  /\ \A n \in Messages : On(carried'[g], n) => sending'[n] = "sent"
                      /\ Once(carried'[g])
    BY DEF CarriedOnce
  <2>1. CASE g \in Bus(m)
    <3>1. carried'[g] = Append(carried[g], m)
      BY <2>1, <1>3
    <3>2. Once(carried'[g])
      BY <3>1, <1>2, <1>4, OnceAppend DEF IInv, CarriedOnce
    <3>3. \A n \in Messages : On(carried'[g], n) => On(carried[g], n) \/ n = m
      BY <3>1, <1>2, OnAppend
    <3> QED BY <3>2, <3>3, <1>1 DEF IInv, CarriedOnce
  <2>2. CASE g \notin Bus(m)
    BY <2>2, <1>1, <1>3 DEF IInv, CarriedOnce
  <2> QED BY <2>1, <2>2
<1>7. HandledLater'
  <2> SUFFICES ASSUME NEW h \in Handlers, NEW n \in Messages, handler[h][n] # "none"
               PROVE  sending'[n] = "sent" /\ ~On(channel'[ManagerOf[h]], n)
    BY DEF HandledLater
  <2>1. sending[n] = "sent" /\ n # m /\ ~On(channel[ManagerOf[h]], n)
    BY DEF IInv, HandledLater
  <2>2. ManagerOf[h] \in Managers
    BY DEF ConstantsOK
  <2>3. ~On(channel'[ManagerOf[h]], n)
    BY <2>1, <2>2, <1>2, <1>3, OnAppend
  <2> QED BY <2>1, <2>3, <1>1
<1> QED BY <1>5, <1>6, <1>7 DEF IInv

(* Nothing the invariant speaks of changes, but for handlers that end. *)
LEMMA QuietKeeps ==
  ASSUME ConstantsOK, IInv, TypeOK',
         UNCHANGED <<channel, carried>>,
         \A g \in Managers : listener'[g] = "listening" <=> listener[g] = "listening",
         \A m \in Messages : sending[m] = "sent" => sending'[m] = "sent",
         \A h \in Handlers, m \in Messages :
           handler'[h][m] # "none" => handler[h][m] # "none"
  PROVE  IInv'
<1>1. ChannelIsRest'
  BY DEF IInv, ChannelIsRest
<1>2. CarriedOnce'
  BY DEF IInv, CarriedOnce
<1>3. HandledLater'
  BY DEF IInv, HandledLater
<1> QED BY <1>1, <1>2, <1>3 DEF IInv

LEMMA NextInv == ASSUME ConstantsOK, IInv, [Next]_vars PROVE IInv'
<1>0. TypeOK /\ TypeOK'
  BY NextTyping DEF IInv
<1>1. ASSUME NEW h \in Handlers, NEW t \in Topics, Subscribe(h, t) PROVE IInv'
  BY <1>0, <1>1, QuietKeeps DEF Subscribe
<1>2. ASSUME NEW g \in Managers, Run(g) PROVE IInv'
  <2>1. \A k \in Managers : listener'[k] = "listening" <=> listener[k] = "listening"
    BY <1>0, <1>2 DEF Run, TypeOK
  <2> QED BY <1>0, <1>2, <2>1, QuietKeeps DEF Run
<1>3. ASSUME NEW g \in Managers, StartListening(g) \/ Registered(g) PROVE IInv'
  <2>1. /\ \A k \in Managers : k # g => listener'[k] = listener[k]
        /\ listener[g] # "listening"
        /\ UNCHANGED <<channel, carried, sending, handler>>
    BY <1>0, <1>3 DEF StartListening, Registered, TypeOK
  <2>2. channel[g] = <<>> /\ carried[g] \in Seq(Messages)
    BY <1>0, <2>1 DEF IInv, ChannelIsRest, TypeOK
  <2>3. Suffix(channel[g], carried[g])
    BY <2>2 DEF Suffix
  <2>4. ChannelIsRest'
    BY <2>1, <2>2, <2>3 DEF IInv, ChannelIsRest
  <2>5. CarriedOnce' /\ HandledLater'
    BY <2>1 DEF IInv, CarriedOnce, HandledLater
  <2> QED BY <1>0, <2>4, <2>5 DEF IInv
<1>4. ASSUME NEW g \in Managers, Skip(g) PROVE IInv'
  BY <1>0, <1>4, ReadKeeps DEF Skip, Takes
<1>5. ASSUME NEW g \in Managers, Dispatch(g) PROVE IInv'
  <2>1. \A h \in Handlers, m \in Messages :
          handler'[h][m] # handler[h][m] => ManagerOf[h] = g /\ m = Head(channel[g])
    BY <1>0, <1>5 DEF Dispatch, Starts, TypeOK
  <2> QED BY <1>0, <1>5, <2>1, ReadKeeps DEF Dispatch, Takes
<1>11. ASSUME NEW g \in Managers, Break(g) PROVE IInv'
  <2>1. \A h \in Handlers, m \in Messages :
          handler'[h][m] # handler[h][m] => ManagerOf[h] = g /\ m = Head(channel[g])
    <3>1. PICK H \in SUBSET Starts(g, Head(channel[g])) :
            handler' = [h \in Handlers |->
                          IF h \in H THEN [handler[h] EXCEPT ![Head(channel[g])] = "running"]
                                     ELSE handler[h]]
      BY <1>11 DEF Break
    <3>2. \A h \in H : ManagerOf[h] = g
      BY DEF Starts
    <3> QED BY <1>0, <3>1, <3>2 DEF TypeOK
  <2> QED BY <1>0, <1>11, <2>1, ReadKeeps DEF Break, Takes
<1>6. ASSUME NEW g \in Managers, Stop(g) PROVE IInv'
  <2>1. /\ \A k \in Managers : k # g => listener'[k] = listener[k] /\ channel'[k] = channel[k]
        /\ listener'[g] = "stopped" /\ channel'[g] = <<>>
        /\ UNCHANGED <<carried, handler>>
        /\ \A m \in Messages : sending[m] = "sent" => sending'[m] = "sent"
    BY <1>0, <1>6 DEF Stop, TypeOK
  <2>2. ChannelIsRest' /\ CarriedOnce'
    BY <2>1 DEF IInv, ChannelIsRest, CarriedOnce
  <2>3. HandledLater'
    <3> SUFFICES ASSUME NEW h \in Handlers, NEW m \in Messages, handler[h][m] # "none"
                 PROVE  sending'[m] = "sent" /\ ~On(channel'[ManagerOf[h]], m)
      BY <2>1 DEF HandledLater
    <3>1. sending[m] = "sent" /\ ~On(channel[ManagerOf[h]], m) /\ ManagerOf[h] \in Managers
      BY DEF IInv, HandledLater, ConstantsOK
    <3>2. ~On(<<>>, m)
      BY DEF On
    <3> QED BY <2>1, <3>1, <3>2
  <2> QED BY <1>0, <2>2, <2>3 DEF IInv
<1>7. ASSUME NEW m \in Messages, PublishInProcess(m) \/ Arrive(m) PROVE IInv'
  BY <1>0, <1>7, BroadcastKeeps DEF PublishInProcess, Arrive
<1>8. ASSUME NEW m \in Messages, Publish(m) \/ WakePublisher(m) PROVE IInv'
  <2>1. \A n \in Messages : sending[n] = "sent" => sending'[n] = "sent"
    BY <1>0, <1>8 DEF Publish, WakePublisher, TypeOK
  <2> QED BY <1>0, <1>8, <2>1, QuietKeeps DEF Publish, WakePublisher
<1>9. ASSUME NEW h \in Handlers, NEW m \in Messages, HandlerDone(h, m) PROVE IInv'
  <2>1. \A k \in Handlers, n \in Messages :
          handler'[k][n] # "none" => handler[k][n] # "none"
    BY <1>0, <1>9 DEF HandlerDone, TypeOK
  <2> QED BY <1>0, <1>9, <2>1, QuietKeeps DEF HandlerDone
<1>10. CASE UNCHANGED vars
  BY <1>0, <1>10, QuietKeeps DEF vars
<1> QED
  BY <1>1, <1>2, <1>3, <1>4, <1>5, <1>6, <1>7, <1>8, <1>9, <1>10, <1>11
  DEF Next, ListenerStep, PublisherStep

LEMMA Invariance == Spec => []IInv
<1>1. Init => IInv
  BY ConstantsOK, InitInv
<1>2. IInv /\ [Next]_vars => IInv'
  BY ConstantsOK, NextInv
<1> QED BY <1>1, <1>2, PTL DEF Spec

-----------------------------------------------------------------------------
(* TopicBus implements TopicLog. *)

LEMMA InitRefines == ASSUME ConstantsOK, Init PROVE Log!Init
<1>1. Calls = {}
  BY DEF Init, Calls
<1>2. \A g \in Managers : Place(g) = Outside
  BY DEF Init, Place
<1>3. carried = [g \in Managers |-> <<>>]
  BY DEF Init
<1> QED BY <1>1, <1>2, <1>3 DEF Log!Init

(* The places of all managers but one are what they were. *)
LEMMA PlaceOfOther ==
  ASSUME NEW k \in Managers, carried'[k] = carried[k],
         Len(channel'[k]) = Len(channel[k]),
         listener'[k] = "listening" <=> listener[k] = "listening"
  PROVE  Place(k)' = Place(k)
  BY DEF Place

(* A step that neither carries, joins, reads, leaves nor starts. *)
LEMMA QuietStutters ==
  ASSUME UNCHANGED <<channel, carried>>,
         \A g \in Managers : listener'[g] = "listening" <=> listener[g] = "listening",
         \A h \in Handlers, m \in Messages :
           handler'[h][m] # "none" <=> handler[h][m] # "none"
  PROVE  UNCHANGED Log!vars
<1>1. \A g \in Managers : Place(g)' = Place(g)
  BY PlaceOfOther
<1>2. Calls' = Calls
  BY DEF Calls
<1> QED BY <1>1, <1>2 DEF Log!vars

LEMMA JoinRefines ==
  ASSUME ConstantsOK, IInv, NEW g \in Managers,
         listener[g] # "listening",
         listener' = [listener EXCEPT ![g] = "listening"],
         UNCHANGED <<channel, carried, handler>>
  PROVE  Log!Join(g)
<1>0. listener \in [Managers -> ListenerStates] /\ carried[g] \in Seq(Messages)
  BY DEF IInv, TypeOK
<1>1. \A k \in Managers : k # g => Place(k)' = Place(k)
  BY <1>0 DEF Place
<1>2. Place(g) = Outside /\ channel[g] = <<>> /\ Place(g)' = Len(carried[g]) - Len(channel[g])
  BY <1>0 DEF Place, IInv, ChannelIsRest
<1>3. Len(channel[g]) = 0 /\ Len(carried[g]) \in Nat
  BY <1>0, <1>2
<1>4. Place(g)' = Len(carried[g])
  BY <1>2, <1>3
<1>5. Calls' = Calls
  BY DEF Calls
<1> QED BY <1>1, <1>2, <1>4, <1>5 DEF Log!Join

(* A channel one shorter is a place one further. *)
LEMMA ReadPlace ==
  ASSUME NEW c \in Nat, NEW q \in Nat \ {0}, NEW r, q <= c, r = q - 1
  PROVE  c - q \in Nat /\ c - q < c /\ c - r = (c - q) + 1
  OBVIOUS

(* The listener reads one message and starts the handlers H for it. *)
LEMMA ReadRefines ==
  ASSUME ConstantsOK, IInv, NEW g \in Managers, Readable(g), Takes(g),
         UNCHANGED carried,
         NEW H \in SUBSET {h \in Handlers : ManagerOf[h] = g},
         \A h \in Handlers, m \in Messages :
           handler'[h][m] # "none" <=>
             handler[h][m] # "none" \/ (h \in H /\ m = Head(channel[g]))
  PROVE  Log!Read(g)
<1> DEFINE m == Head(channel[g])
<1>0. channel \in [Managers -> Seq(Messages)] /\ carried[g] \in Seq(Messages)
      /\ channel[g] \in Seq(Messages) /\ listener \in [Managers -> ListenerStates]
  BY DEF IInv, TypeOK
<1>1. channel[g] # <<>> /\ listener[g] = "listening" /\ Suffix(channel[g], carried[g])
  BY DEF Readable, IInv, ChannelIsRest
<1>2. /\ Len(channel[g]) \in Nat \ {0}
      /\ Len(carried[g]) \in Nat
      /\ Len(channel[g]) <= Len(carried[g])
      /\ Len(Tail(channel[g])) = Len(channel[g]) - 1
      /\ m = channel[g][1]
      /\ m \in Messages
  BY <1>0, <1>1, TailFacts DEF Suffix
<1>3. Place(g) = Len(carried[g]) - Len(channel[g])
  BY <1>1 DEF Place
<1>32. /\ Len(carried[g]) - Len(channel[g]) \in Nat
       /\ Len(carried[g]) - Len(channel[g]) < Len(carried[g])
       /\ Len(carried[g]) - Len(Tail(channel[g])) = (Len(carried[g]) - Len(channel[g])) + 1
  BY <1>2, ReadPlace
<1>4. Place(g) # Outside /\ Place(g) < Len(carried[g])
  BY <1>3, <1>32 DEF ConstantsOK
<1>5. Place(g)' \in {Place(g) + 1, Outside}
  <2>1. CASE listener' = listener
    <3>1. channel'[g] = Tail(channel[g])
      BY <2>1, <1>0, <1>1 DEF Takes
    <3>2. Place(g)' = Len(carried[g]) - Len(Tail(channel[g]))
      BY <2>1, <3>1, <1>1 DEF Place
    <3> QED BY <3>2, <1>3, <1>32
  <2>2. CASE listener' # listener
    <3>1. listener'[g] = "dead"
      BY <2>2, <1>0 DEF Takes
    <3> QED BY <3>1 DEF Place
  <2> QED BY <2>1, <2>2
<1>6. \A k \in Managers : k # g => Place(k)' = Place(k)
  BY <1>0 DEF Place, Takes
<1>7. m = carried[g][Place(g) + 1]
  <2>1. 1 \in 1..Len(channel[g])
    BY <1>2
  <2> QED BY <2>1, <1>1, <1>2, <1>3 DEF Suffix
<1>8. \A h \in H : h \in Handlers /\ ManagerOf[h] = g /\ <<h, m>> \notin Calls
  <2>1. On(channel[g], m)
    BY <1>0, <1>1, OnTail
  <2> QED BY <2>1, <1>2 DEF Calls, IInv, HandledLater
<1>9. Calls' = Calls \cup (H \X {m})
  <2>1. ASSUME NEW c PROVE c \in Calls' <=> c \in Calls \cup (H \X {m})
    <3>1. CASE c \in Handlers \X Messages
      <4>1. PICK h \in Handlers, n \in Messages : c = <<h, n>>
        BY <3>1
      <4>2. c \in Calls' <=> handler'[h][n] # "none"
        BY <4>1 DEF Calls
      <4>3. c \in Calls <=> handler[h][n] # "none"
        BY <4>1 DEF Calls
      <4>4. c \in H \X {m} <=> h \in H /\ n = m
        BY <4>1
      <4> QED BY <4>2, <4>3, <4>4
    <3>2. CASE c \notin Handlers \X Messages
      <4>1. c \notin H \X {m}
        BY <3>2, <1>2
      <4> QED BY <3>2, <4>1 DEF Calls
    <3> QED BY <3>1, <3>2
  <2> QED BY <2>1
<1>10. H \in SUBSET {h \in Handlers : ManagerOf[h] = g /\ <<h, carried[g][Place(g) + 1]>> \notin Calls}
  BY <1>7, <1>8
<1>11. \E next \in {Place(g) + 1, Outside} :
         [k \in Managers |-> Place(k)]' = [[k \in Managers |-> Place(k)] EXCEPT ![g] = next]
  <2>1. [k \in Managers |-> Place(k)]' = [[k \in Managers |-> Place(k)] EXCEPT ![g] = Place(g)']
    BY <1>6
  <2> QED BY <1>5, <2>1
<1> HIDE DEF m
<1> QED BY <1>4, <1>7, <1>9, <1>10, <1>11 DEF Log!Read

LEMMA StopRefines ==
  ASSUME ConstantsOK, IInv, NEW g \in Managers, Stop(g)
  PROVE  [Log!Next]_(Log!vars)
<1>0. listener \in [Managers -> ListenerStates] /\ channel \in [Managers -> Seq(Messages)]
  BY DEF IInv, TypeOK
<1>1. \A k \in Managers : k # g => Place(k)' = Place(k)
  BY <1>0 DEF Place, Stop
<1>2. Place(g)' = Outside
  BY <1>0 DEF Place, Stop
<1>3. Calls' = Calls /\ carried' = carried
  BY DEF Calls, Stop
<1>4. CASE Place(g) = Outside
  <2>1. \A k \in Managers : Place(k)' = Place(k)
    BY <1>1, <1>2, <1>4
  <2> QED BY <2>1, <1>3 DEF Log!vars
<1>5. CASE Place(g) # Outside
  <2>1. Log!Leave(g)
    BY <1>1, <1>2, <1>3, <1>5 DEF Log!Leave
  <2> QED BY <2>1 DEF Log!Next
<1> QED BY <1>4, <1>5

LEMMA PublishRefines ==
  ASSUME ConstantsOK, IInv, NEW m \in Messages, Broadcast(m), UNCHANGED <<backend, listener, handler>>
  PROVE  Log!Publish(m)
<1>0. \A g \in Managers : channel[g] \in Seq(Messages) /\ carried[g] \in Seq(Messages)
  BY DEF IInv, TypeOK
<1>1. ASSUME NEW g \in Managers PROVE Place(g)' = Place(g)
  <2>1. CASE listener[g] = "listening" /\ g \in Bus(m)
    <3>1. /\ Len(Append(carried[g], m)) = Len(carried[g]) + 1
          /\ Len(Append(channel[g], m)) = Len(channel[g]) + 1
          /\ Len(carried[g]) \in Nat /\ Len(channel[g]) \in Nat
      BY <1>0, AppendFacts
    <3>2. carried'[g] = Append(carried[g], m) /\ channel'[g] = Append(channel[g], m)
      BY <2>1 DEF Broadcast
    <3>3. Place(g)' = Len(Append(carried[g], m)) - Len(Append(channel[g], m))
      BY <2>1, <3>2 DEF Place
    <3>4. Place(g) = Len(carried[g]) - Len(channel[g])
      BY <2>1 DEF Place
    <3> QED BY <3>1, <3>3, <3>4
  <2>2. CASE listener[g] = "listening" /\ g \notin Bus(m)
    BY <2>2 DEF Broadcast, Place
  <2>3. CASE listener[g] # "listening"
    BY <2>3 DEF Place
  <2> QED BY <2>1, <2>2, <2>3
<1>2. Calls' = Calls
  BY DEF Calls
<1>3. Bus(m) \in {Managers, {HomeOf[m]}}
  BY DEF Bus
<1>4. carried' = [g \in Managers |-> IF g \in Bus(m) THEN Append(carried[g], m) ELSE carried[g]]
  BY DEF Broadcast
<1> QED BY <1>1, <1>2, <1>3, <1>4 DEF Log!Publish

LEMMA NextRefines == ASSUME ConstantsOK, IInv, [Next]_vars PROVE [Log!Next]_(Log!vars)
<1>0. TypeOK
  BY DEF IInv
<1>1. ASSUME NEW h \in Handlers, NEW t \in Topics, Subscribe(h, t) PROVE UNCHANGED Log!vars
  BY <1>1, QuietStutters DEF Subscribe
<1>2. ASSUME NEW g \in Managers, Run(g) PROVE UNCHANGED Log!vars
  <2>1. \A k \in Managers : listener'[k] = "listening" <=> listener[k] = "listening"
    BY <1>0, <1>2 DEF Run, TypeOK
  <2> QED BY <1>2, <2>1, QuietStutters DEF Run
<1>3. ASSUME NEW g \in Managers, StartListening(g) PROVE [Log!Next]_(Log!vars)
  <2>1. CASE InProcess
    <3>1. Log!Join(g)
      BY <1>3, <2>1, JoinRefines DEF StartListening
    <3> QED BY <3>1 DEF Log!Next
  <2>2. CASE ~InProcess
    <3>1. \A k \in Managers : listener'[k] = "listening" <=> listener[k] = "listening"
      BY <1>0, <1>3, <2>2 DEF StartListening, TypeOK
    <3> QED BY <1>3, <3>1, QuietStutters DEF StartListening
  <2> QED BY <2>1, <2>2
<1>4. ASSUME NEW g \in Managers, Registered(g) PROVE Log!Join(g)
  BY <1>4, JoinRefines DEF Registered
<1>5. ASSUME NEW g \in Managers, Skip(g) PROVE Log!Read(g)
  <2>1. {} \in SUBSET {h \in Handlers : ManagerOf[h] = g}
    OBVIOUS
  <2> QED BY <1>5, <2>1, ReadRefines DEF Skip, Takes
<1>6. ASSUME NEW g \in Managers, Dispatch(g) PROVE Log!Read(g)
  <2> DEFINE m == Head(channel[g])
  <2>1. Starts(g, m) \in SUBSET {h \in Handlers : ManagerOf[h] = g}
    BY DEF Starts
  <2>2. \A h \in Handlers, n \in Messages :
          handler'[h][n] # "none" <=> handler[h][n] # "none" \/ (h \in Starts(g, m) /\ n = m)
    BY <1>0, <1>6 DEF Dispatch, TypeOK
  <2> QED BY <1>6, <2>1, <2>2, ReadRefines DEF Dispatch, Takes
<1>11. ASSUME NEW g \in Managers, Break(g) PROVE Log!Read(g)
  <2> DEFINE m == Head(channel[g])
  <2>1. PICK H \in SUBSET {h \in Starts(g, m) \ Unfit : Kind[m] = "ok"} :
          handler' = [h \in Handlers |->
                        IF h \in H THEN [handler[h] EXCEPT ![m] = "running"] ELSE handler[h]]
    BY <1>11 DEF Break
  <2>2. H \in SUBSET {h \in Handlers : ManagerOf[h] = g}
    BY DEF Starts
  <2>3. \A h \in Handlers, n \in Messages :
          handler'[h][n] # "none" <=> handler[h][n] # "none" \/ (h \in H /\ n = m)
    BY <1>0, <2>1 DEF TypeOK
  <2> QED BY <1>11, <2>2, <2>3, ReadRefines DEF Break, Takes
<1>7. ASSUME NEW m \in Messages, PublishInProcess(m) \/ Arrive(m) PROVE Log!Publish(m)
  BY <1>7, PublishRefines DEF PublishInProcess, Arrive
<1>8. ASSUME NEW m \in Messages, Publish(m) \/ WakePublisher(m) PROVE UNCHANGED Log!vars
  BY <1>8, QuietStutters DEF Publish, WakePublisher
<1>9. ASSUME NEW h \in Handlers, NEW m \in Messages, HandlerDone(h, m) PROVE UNCHANGED Log!vars
  <2>1. \A k \in Handlers, n \in Messages :
          handler'[k][n] # "none" <=> handler[k][n] # "none"
    BY <1>0, <1>9 DEF HandlerDone, TypeOK
  <2> QED BY <1>9, <2>1, QuietStutters DEF HandlerDone
<1>10. CASE UNCHANGED vars
  BY <1>10, QuietStutters DEF vars
<1> QED
  BY <1>1, <1>2, <1>3, <1>4, <1>5, <1>6, <1>7, <1>8, <1>9, <1>10, <1>11, StopRefines
  DEF Next, ListenerStep, PublisherStep, Log!Next

(* Each listener reads its bus in order from where it joined, and no       *)
(* handler is started twice for a message, on any transport.               *)
THEOREM BusImplementsTopicLog == Spec => ImplementsTopicLog
<1>1. Init => Log!Init
  BY ConstantsOK, InitRefines
<1>2. IInv /\ [Next]_vars => [Log!Next]_(Log!vars)
  BY ConstantsOK, NextRefines
<1> QED BY <1>1, <1>2, Invariance, PTL DEF Spec, ImplementsTopicLog, Log!Spec

-----------------------------------------------------------------------------
(* Without AMQP, what is read is handled: the only other ways a channel    *)
(* gets shorter are a message without data, one that ends the listener,    *)
(* and stop().                                                             *)

LEMMA ChannelGrows ==
  ASSUME TypeOK, NEW m \in Messages, Broadcast(m), NEW g \in Managers
  PROVE  ~(Len(channel'[g]) < Len(channel[g]))
<1>1. channel[g] \in Seq(Messages) /\ Len(channel[g]) \in Nat
  BY DEF TypeOK
<1>2. Len(Append(channel[g], m)) = Len(channel[g]) + 1
  BY <1>1, AppendFacts
<1>3. channel'[g] = channel[g] \/ channel'[g] = Append(channel[g], m)
  BY DEF Broadcast
<1> QED BY <1>1, <1>2, <1>3

LEMMA ReadStarts ==
  ASSUME ConstantsOK, TypeOK, "amqp" \notin Backends, [Next]_vars,
         NEW g \in Managers, NEW h \in Handlers,
         Len(channel'[g]) < Len(channel[g]),
         listener'[g] = "listening",
         Kind[Head(channel[g])] = "ok",
         ManagerOf[h] = g,
         <<h, TopicOf[Head(channel[g])]>> \in subscribed
  PROVE  handler'[h][Head(channel[g])] = "running"
<1>0. channel[g] \in Seq(Messages) /\ channel \in [Managers -> Seq(Messages)]
      /\ Len(channel[g]) \in Nat
  BY DEF TypeOK
<1>1. PICK k \in Managers : Skip(k) \/ Dispatch(k) \/ Break(k) \/ Stop(k)
  <2>1. channel'[g] # channel[g]
    BY <1>0
  <2>2. ASSUME NEW m \in Messages PROVE ~Broadcast(m)
    BY <2>2, ChannelGrows
  <2> QED
    BY <2>1, <2>2 DEF Next, vars, ListenerStep, PublisherStep, Subscribe, Run,
      StartListening, Registered, PublishInProcess, Publish, WakePublisher, Arrive, HandlerDone
<1>2. k = g
  BY <1>0, <1>1 DEF Skip, Dispatch, Break, Stop
<1>3. ~Stop(g) /\ ~Break(g)
  BY DEF Stop, Break, TypeOK
<1>4. ~Skip(g)
  BY DEF Skip, Skipped, ChannelSplits, TypeOK
<1>5. Dispatch(g)
  BY <1>1, <1>2, <1>3, <1>4
<1>6. h \in Starts(g, Head(channel[g])) /\ Head(channel[g]) \in Messages
  BY <1>0, <1>5, TailFacts DEF Starts, Dispatch, Readable
<1> QED BY <1>5, <1>6 DEF Dispatch, TypeOK

(* In memory, over Redis and over ZeroMQ every function subscribed to the  *)
(* topic is started for every message with data that a live listener       *)
(* consumes and outlives.                                                  *)
THEOREM ConsumedIsStarted ==
  ASSUME "amqp" \notin Backends
  PROVE  Spec => ConsumedMeansStarted
<1>1. TypeOK /\ [Next]_vars =>
        [\A g \in Managers, h \in Handlers :
           LET m == Head(channel[g]) IN
             /\ Len(channel'[g]) < Len(channel[g])
             /\ listener'[g] = "listening"
             /\ Kind[m] = "ok"
             /\ ManagerOf[h] = g
             /\ <<h, TopicOf[m]>> \in subscribed
             => handler'[h][m] = "running"]_vars
  BY ConstantsOK, ReadStarts
<1> QED BY <1>1, TypeCorrect, PTL DEF Spec, ConsumedMeansStarted
=============================================================================
