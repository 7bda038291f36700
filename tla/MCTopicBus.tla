----------------------------- MODULE MCTopicBus -----------------------------
(* Instances of TopicBus for TLC: two managers g1 and g2.  g1 has h1 and   *)
(* h2 subscribed to t1 and h4, which cannot be called, to t2; g2 has h3,   *)
(* which listens to t2.  The third message is skipped or ends a listener.  *)
EXTENDS TopicBus, TLC

CONSTANTS g1, g2, h1, h2, h3, h4, t1, t2, m1, m2, m3

TwoManagersOf == h1 :> g1 @@ h2 :> g1 @@ h3 :> g2 @@ h4 :> g1
Wants == {<<h1, t1>>, <<h2, t1>>, <<h3, t2>>, <<h4, t2>>}
Homes == m1 :> g1 @@ m2 :> g2 @@ m3 :> g1
TopicsOf == m1 :> t1 @@ m2 :> t2 @@ m3 :> t1
EmptyKinds == m1 :> "ok" @@ m2 :> "ok" @@ m3 :> "empty"
MalformedKinds == m1 :> "ok" @@ m2 :> "ok" @@ m3 :> "malformed"
=============================================================================
