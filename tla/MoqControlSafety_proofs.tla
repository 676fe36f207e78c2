----------------------- MODULE MoqControlSafety_proofs -----------------------
(***************************************************************************)
(* No lookup of an answered request fails: the requests of a MoqControl    *)
(* session and their answers match, whatever the interleaving.             *)
(***************************************************************************)
EXTENDS MoqControl_proofs

-----------------------------------------------------------------------------
(* How queues change the request ids they carry.                           *)

\* Appending a message adds its request id to those of its type only.
LEMMA AppendIds ==
    ASSUME NEW q \in Seq(Message), NEW m \in Message, NEW types
    PROVE  /\ m.type \in types => Ids(Append(q, m), types) = Ids(q, types) \cup {m.request_id}
           /\ m.type \notin types => Ids(Append(q, m), types) = Ids(q, types)
           /\ m.type \in types /\ m.request_id \notin Ids(q, types) /\ Single(q, types)
                => Single(Append(q, m), types)
           /\ m.type \notin types /\ Single(q, types) => Single(Append(q, m), types)
<1> DEFINE r == Append(q, m)
<1>1. /\ DOMAIN r = 1..Len(q) + 1
      /\ DOMAIN q = 1..Len(q)
      /\ Len(q) \in Nat
      /\ \A i \in 1..Len(q) : r[i] = q[i]
      /\ r[Len(q) + 1] = m
  BY AppendProperties, LenProperties
<1> HIDE DEF r
<1>2. CASE m.type \in types
  <2>1. Places(r, types) = Places(q, types) \cup {Len(q) + 1}
    BY <1>1, <1>2 DEF Places
  <2>2. Ids(r, types) = Ids(q, types) \cup {m.request_id}
    BY <1>1, <2>1 DEF Ids, Places
  <2>3. ASSUME m.request_id \notin Ids(q, types), Single(q, types)
        PROVE  Single(r, types)
    BY <1>1, <2>1, <2>3 DEF Single, Ids, Places
  <2> QED
    BY <1>2, <2>2, <2>3 DEF r
<1>3. CASE m.type \notin types
  <2>1. Places(r, types) = Places(q, types)
    BY <1>1, <1>3 DEF Places
  <2>2. Ids(r, types) = Ids(q, types)
    BY <1>1, <2>1 DEF Ids, Places
  <2>3. ASSUME Single(q, types) PROVE Single(r, types)
    BY <1>1, <2>1, <2>3 DEF Single, Places
  <2> QED
    BY <1>3, <2>2, <2>3 DEF r
<1> QED
  BY <1>2, <1>3

\* Consuming the head removes its request id, if no other message has it too.
LEMMA TailIds ==
    ASSUME NEW q \in Seq(Message), q # << >>, NEW types, Single(q, types)
    PROVE  /\ Single(Tail(q), types)
           /\ Head(q).type \in types
                => /\ Head(q).request_id \in Ids(q, types)
                   /\ Ids(Tail(q), types) = Ids(q, types) \ {Head(q).request_id}
           /\ Head(q).type \notin types => Ids(Tail(q), types) = Ids(q, types)
<1> DEFINE r == Tail(q)
<1>1. /\ DOMAIN r = 1..Len(q) - 1
      /\ DOMAIN q = 1..Len(q)
      /\ Len(q) \in Nat \ {0}
      /\ \A i \in 1..Len(q) - 1 : r[i] = q[i + 1]
      /\ Head(q) = q[1]
  BY HeadTailProperties, LenProperties
<1> HIDE DEF r
<1>2. /\ \A i \in Places(r, types) : i + 1 \in Places(q, types) /\ r[i] = q[i + 1]
      /\ \A i \in Places(q, types) \ {1} : i - 1 \in Places(r, types) /\ r[i - 1] = q[i]
  BY <1>1 DEF Places
<1>3. 1 \in Places(q, types) <=> Head(q).type \in types
  BY <1>1 DEF Places
<1>4. Single(r, types)
  BY <1>1, <1>2 DEF Single, Places
<1>5. CASE Head(q).type \in types
  <2>1. Head(q).request_id \in Ids(q, types)
    BY <1>1, <1>3, <1>5 DEF Ids
  <2>2. \A i \in Places(r, types) : r[i].request_id # Head(q).request_id
    BY <1>1, <1>2, <1>3, <1>5 DEF Single, Places
  <2>3. Ids(r, types) \subseteq Ids(q, types) \ {Head(q).request_id}
    BY <1>2, <2>2 DEF Ids
  <2>4. Ids(q, types) \ {Head(q).request_id} \subseteq Ids(r, types)
    BY <1>1, <1>2 DEF Ids
  <2> QED
    BY <1>4, <1>5, <2>1, <2>3, <2>4 DEF r
<1>6. CASE Head(q).type \notin types
  <2>1. Ids(r, types) \subseteq Ids(q, types)
    BY <1>2 DEF Ids
  <2>2. Ids(q, types) \subseteq Ids(r, types)
    BY <1>2, <1>3, <1>6 DEF Ids
  <2> QED
    BY <1>4, <1>6, <2>1, <2>2 DEF r
<1> QED
  BY <1>5, <1>6

-----------------------------------------------------------------------------
(* How a send and a receive change what is on its way to each endpoint.    *)

LEMMA SendIds ==
    ASSUME TypeOK, NEW e \in Endpoint, NEW m \in Message, Send(e, m),
           NEW x \in Endpoint, NEW types
    PROVE  /\ x = Peer(e) /\ m.type \in types
                => Ids(control[x], types)' = Ids(control[x], types) \cup {m.request_id}
           /\ x = Peer(e) /\ m.type \in types /\ m.request_id \notin Ids(control[x], types)
                /\ Single(control[x], types) => Single(control[x], types)'
           /\ x # Peer(e) \/ m.type \notin types
                => /\ Ids(control[x], types)' = Ids(control[x], types)
                   /\ Single(control[x], types) => Single(control[x], types)'
<1>1. control \in [Endpoint -> Seq(Message)]
  BY DEF TypeOK
<1>2. /\ x = Peer(e) => control'[x] = Append(control[x], m)
      /\ x # Peer(e) => control'[x] = control[x]
  BY <1>1 DEF Send
<1>3. control[x] \in Seq(Message)
  BY <1>1
<1>4. CASE x = Peer(e)
  <2> DEFINE q == control[x]
  <2>1. control'[x] = Append(q, m) /\ q \in Seq(Message)
    BY <1>2, <1>3, <1>4
  <2> HIDE DEF q
  <2>2. /\ m.type \in types => Ids(control'[x], types) = Ids(q, types) \cup {m.request_id}
        /\ m.type \notin types => Ids(control'[x], types) = Ids(q, types)
        /\ m.type \in types /\ m.request_id \notin Ids(q, types) /\ Single(q, types)
             => Single(control'[x], types)
        /\ m.type \notin types /\ Single(q, types) => Single(control'[x], types)
    BY <2>1, AppendIds
  <2> QED
    BY <1>4, <2>2 DEF q
<1>5. CASE x # Peer(e)
  BY <1>2, <1>5
<1> QED
  BY <1>4, <1>5

LEMMA ConsumeIds ==
    ASSUME TypeOK, NEW e \in Endpoint, control[e] # << >>, Consume(e),
           NEW x \in Endpoint, NEW types, Single(control[x], types)
    PROVE  /\ Single(control[x], types)'
           /\ x = e /\ Head(control[e]).type \in types
                => /\ Head(control[e]).request_id \in Ids(control[x], types)
                   /\ Ids(control[x], types)'
                        = Ids(control[x], types) \ {Head(control[e]).request_id}
           /\ x # e \/ Head(control[e]).type \notin types
                => Ids(control[x], types)' = Ids(control[x], types)
<1>1. control \in [Endpoint -> Seq(Message)]
  BY DEF TypeOK
<1>2. /\ x = e => control'[x] = Tail(control[x])
      /\ x # e => control'[x] = control[x]
  BY <1>1 DEF Consume
<1>3. control[x] \in Seq(Message)
  BY <1>1
<1> QED
  BY <1>2, <1>3, TailIds

-----------------------------------------------------------------------------
(* Subscription requests.                                                  *)

RequestInv == RequestsBacked /\ RequestsKept

\* Every id an endpoint waits on was given out by it.
IdsBelowNext ==
    \A e \in Endpoint :
        \A id \in pending_subscribe[e] \cup DOMAIN pending_sent_publish_namespace[e] :
            id < next_request_id[e]

\* Nothing about the requests has changed.
LEMMA RequestUnchanged ==
    ASSUME RequestInv,
           UNCHANGED <<control, pending_subscribe, pending_received_subscriptions>>
    PROVE  RequestInv'
<1> SUFFICES ASSUME NEW x \in Endpoint
             PROVE  /\ Asked(x)' = Asked(x)
                    /\ Held(x)' = Held(x)
                    /\ Answered(x)' = Answered(x)
                    /\ Single(control[Peer(x)], {"Subscribe"})'
                    /\ Single(control[x], Answer)'
  BY DEF RequestInv, RequestsBacked, RequestsKept
<1>1. Single(control[Peer(x)], {"Subscribe"}) /\ Single(control[x], Answer)
  BY DEF RequestInv, RequestsBacked
<1>2. control'[x] = control[x] /\ control'[Peer(x)] = control[Peer(x)]
  OBVIOUS
<1>3. Single(control[Peer(x)], {"Subscribe"})' /\ Single(control[x], Answer)'
  BY <1>1, <1>2 DEF Single, Places
<1>4. Asked(x)' = Asked(x) /\ Answered(x)' = Answered(x)
  BY <1>2 DEF Asked, Answered, Ids, Places
<1> QED
  BY <1>3, <1>4 DEF Held

\* A message about something else changes nothing for the requests.
LEMMA RequestSendFrame ==
    ASSUME TypeOK, RequestInv, NEW e \in Endpoint, NEW m \in Message, Send(e, m),
           m.type \notin {"Subscribe"} \cup Answer,
           UNCHANGED <<pending_subscribe, pending_received_subscriptions>>
    PROVE  RequestInv'
<1> SUFFICES ASSUME NEW x \in Endpoint
             PROVE  /\ Asked(x)' = Asked(x)
                    /\ Held(x)' = Held(x)
                    /\ Answered(x)' = Answered(x)
                    /\ Single(control[Peer(x)], {"Subscribe"})'
                    /\ Single(control[x], Answer)'
  BY DEF RequestInv, RequestsBacked, RequestsKept
<1>1. Single(control[Peer(x)], {"Subscribe"}) /\ Single(control[x], Answer)
  BY DEF RequestInv, RequestsBacked
<1>2. Asked(x)' = Asked(x) /\ Single(control[Peer(x)], {"Subscribe"})'
  BY <1>1, SendIds, PeerType DEF Asked
<1>3. Answered(x)' = Answered(x) /\ Single(control[x], Answer)'
  BY <1>1, SendIds DEF Answered
<1> QED
  BY <1>2, <1>3 DEF Held

LEMMA RequestConsumeFrame ==
    ASSUME TypeOK, RequestInv, NEW e \in Endpoint, control[e] # << >>, Consume(e),
           Head(control[e]).type \notin {"Subscribe"} \cup Answer,
           UNCHANGED <<pending_subscribe, pending_received_subscriptions>>
    PROVE  RequestInv'
<1> SUFFICES ASSUME NEW x \in Endpoint
             PROVE  /\ Asked(x)' = Asked(x)
                    /\ Held(x)' = Held(x)
                    /\ Answered(x)' = Answered(x)
                    /\ Single(control[Peer(x)], {"Subscribe"})'
                    /\ Single(control[x], Answer)'
  BY DEF RequestInv, RequestsBacked, RequestsKept
<1>1. Single(control[Peer(x)], {"Subscribe"}) /\ Single(control[x], Answer)
  BY DEF RequestInv, RequestsBacked
<1>2. Asked(x)' = Asked(x) /\ Single(control[Peer(x)], {"Subscribe"})'
  BY <1>1, ConsumeIds, PeerType DEF Asked
<1>3. Answered(x)' = Answered(x) /\ Single(control[x], Answer)'
  BY <1>1, ConsumeIds DEF Answered
<1> QED
  BY <1>2, <1>3 DEF Held

\* subscribe() puts a fresh id on its way.
LEMMA RequestSubscribe ==
    ASSUME TypeOK, RequestInv, IdsBelowNext, NEW e \in Endpoint, SubscribeCall(e)
    PROVE  RequestInv'
<1> DEFINE id == next_request_id[e]
           m == Subscribe(id)
<1>1. id \in Nat /\ m \in Message /\ m.type = "Subscribe" /\ m.request_id = id
  <2>1. id \in Nat
    BY DEF TypeOK
  <2> QED
    BY <2>1, ConstructorsType DEF Subscribe
<1>2. id \notin pending_subscribe[e]
  BY <1>1 DEF IdsBelowNext, TypeOK
<1>3. /\ Send(e, m)
      /\ pending_subscribe' = [pending_subscribe EXCEPT ![e] = @ \cup {id}]
      /\ UNCHANGED pending_received_subscriptions
  BY DEF SubscribeCall, publisherVars
<1> HIDE DEF id, m
<1>4. ASSUME NEW x \in Endpoint
      PROVE  /\ x = e => Asked(x)' = Asked(x) \cup {id}
             /\ x # e => Asked(x)' = Asked(x)
             /\ Held(x)' = Held(x)
             /\ Answered(x)' = Answered(x)
             /\ x = e => pending_subscribe'[x] = pending_subscribe[x] \cup {id}
             /\ x # e => pending_subscribe'[x] = pending_subscribe[x]
             /\ Single(control[Peer(x)], {"Subscribe"})'
             /\ Single(control[x], Answer)'
  <2>1. Single(control[Peer(x)], {"Subscribe"}) /\ Single(control[x], Answer)
    BY DEF RequestInv, RequestsBacked
  <2>2. x = e => id \notin Ids(control[Peer(x)], {"Subscribe"})
    BY <1>2 DEF RequestInv, RequestsBacked, Asked
  <2>3. /\ x = e => Asked(x)' = Asked(x) \cup {id}
        /\ x # e => Asked(x)' = Asked(x)
        /\ Single(control[Peer(x)], {"Subscribe"})'
    BY <1>1, <1>3, <2>1, <2>2, SendIds, PeerType DEF Asked
  <2>4. Answered(x)' = Answered(x) /\ Single(control[x], Answer)'
    <3>1. m.type \notin Answer
      BY <1>1 DEF Answer
    <3> QED
      BY <1>1, <1>3, <2>1, <3>1, SendIds DEF Answered
  <2> QED
    BY <1>3, <2>3, <2>4 DEF Held, TypeOK
<1> QED
  BY <1>2, <1>4 DEF RequestInv, RequestsBacked, RequestsKept

\* A received request moves from the stream into the inbox.
LEMMA RequestReceived ==
    ASSUME TypeOK, RequestInv, NEW e \in Endpoint, RecvSubscribe(e)
    PROVE  RequestInv'
<1> DEFINE id == Head(control[e]).request_id
<1>1. /\ control[e] # << >>
      /\ Head(control[e]).type = "Subscribe"
      /\ Consume(e)
      /\ pending_received_subscriptions'
            = [pending_received_subscriptions EXCEPT ![e] = @ \cup {id}]
      /\ UNCHANGED pending_subscribe
  BY DEF RecvSubscribe, Arrived, Inbox, subscriberVars
<1> HIDE DEF id
<1>2. ASSUME NEW x \in Endpoint
      PROVE  /\ x = Peer(e) => Asked(x)' = Asked(x) \ {id}
             /\ x # Peer(e) => Asked(x)' = Asked(x)
             /\ x = Peer(e) => Held(x)' = Held(x) \cup {id}
             /\ x # Peer(e) => Held(x)' = Held(x)
             /\ x = Peer(e) => id \in Asked(x)
             /\ Answered(x)' = Answered(x)
             /\ Single(control[Peer(x)], {"Subscribe"})'
             /\ Single(control[x], Answer)'
  <2>1. Single(control[Peer(x)], {"Subscribe"}) /\ Single(control[x], Answer)
    BY DEF RequestInv, RequestsBacked
  <2>2. /\ x = Peer(e) => Asked(x)' = Asked(x) \ {id}
        /\ x # Peer(e) => Asked(x)' = Asked(x)
        /\ x = Peer(e) => id \in Asked(x)
        /\ Single(control[Peer(x)], {"Subscribe"})'
    BY <1>1, <2>1, ConsumeIds, PeerType DEF Asked, id
  <2>3. Answered(x)' = Answered(x) /\ Single(control[x], Answer)'
    <3>1. Head(control[e]).type \notin Answer
      BY <1>1 DEF Answer
    <3> QED
      BY <1>1, <2>1, <3>1, ConsumeIds DEF Answered
  <2>4. /\ x = Peer(e) => Held(x)' = Held(x) \cup {id}
        /\ x # Peer(e) => Held(x)' = Held(x)
    BY <1>1, PeerType DEF Held, TypeOK
  <2> QED
    BY <2>2, <2>3, <2>4
<1> QED
  BY <1>1, <1>2 DEF RequestInv, RequestsBacked, RequestsKept

\* Answering, in either way, moves a request from the inbox to the stream.
LEMMA RequestAnswered ==
    ASSUME TypeOK, RequestInv, NEW e \in Endpoint, NEW m \in Message, Send(e, m),
           m.type \in Answer, m.request_id \in pending_received_subscriptions[e],
           pending_received_subscriptions'
               = [pending_received_subscriptions EXCEPT ![e] = @ \ {m.request_id}],
           UNCHANGED pending_subscribe
    PROVE  RequestInv'
<1> DEFINE id == m.request_id
<1>1. ASSUME NEW x \in Endpoint
      PROVE  /\ x = Peer(e) => Answered(x)' = Answered(x) \cup {id}
             /\ x # Peer(e) => Answered(x)' = Answered(x)
             /\ x = Peer(e) => Held(x)' = Held(x) \ {id}
             /\ x # Peer(e) => Held(x)' = Held(x)
             /\ x = Peer(e) => id \in Held(x)
             /\ Asked(x)' = Asked(x)
             /\ Single(control[Peer(x)], {"Subscribe"})'
             /\ Single(control[x], Answer)'
  <2>1. Single(control[Peer(x)], {"Subscribe"}) /\ Single(control[x], Answer)
    BY DEF RequestInv, RequestsBacked
  <2>2. x = Peer(e) => id \in Held(x)
    BY PeerType DEF Held
  <2>3. x = Peer(e) => id \notin Ids(control[x], Answer)
    BY <2>2 DEF RequestInv, RequestsBacked, Answered
  <2>4. /\ x = Peer(e) => Answered(x)' = Answered(x) \cup {id}
        /\ x # Peer(e) => Answered(x)' = Answered(x)
        /\ Single(control[x], Answer)'
    BY <2>1, <2>3, SendIds DEF Answered
  <2>5. Asked(x)' = Asked(x) /\ Single(control[Peer(x)], {"Subscribe"})'
    <3>1. m.type \notin {"Subscribe"}
      BY DEF Answer
    <3> QED
      BY <2>1, <3>1, SendIds, PeerType DEF Asked
  <2>6. /\ x = Peer(e) => Held(x)' = Held(x) \ {id}
        /\ x # Peer(e) => Held(x)' = Held(x)
    BY PeerType DEF Held, TypeOK
  <2> QED
    BY <2>2, <2>4, <2>5, <2>6
<1> HIDE DEF id
<1> QED
  BY <1>1 DEF RequestInv, RequestsBacked, RequestsKept

\* A received answer settles its request: the lookup succeeds, the id is freed.
LEMMA RequestSettled ==
    ASSUME TypeOK, RequestInv, NEW e \in Endpoint, control[e] # << >>,
           Head(control[e]).type \in Answer
    PROVE  /\ Head(control[e]).request_id \in pending_subscribe[e]
           /\ /\ Consume(e)
              /\ pending_subscribe'
                    = [pending_subscribe EXCEPT ![e] = @ \ {Head(control[e]).request_id}]
              /\ UNCHANGED pending_received_subscriptions
              => RequestInv'
<1> DEFINE id == Head(control[e]).request_id
<1>1. \A x \in Endpoint : Single(control[Peer(x)], {"Subscribe"}) /\ Single(control[x], Answer)
  BY DEF RequestInv, RequestsBacked
<1>2. id \in Answered(e)
  <2>1. control[e] \in Seq(Message)
    BY DEF TypeOK
  <2> QED
    BY <1>1, <2>1, TailIds DEF Answered
<1>3. id \in pending_subscribe[e]
  BY <1>2 DEF RequestInv, RequestsBacked
<1>4. ASSUME Consume(e),
             pending_subscribe' = [pending_subscribe EXCEPT ![e] = @ \ {id}],
             UNCHANGED pending_received_subscriptions
      PROVE  RequestInv'
  <2> HIDE DEF id
  <2>1. ASSUME NEW x \in Endpoint
        PROVE  /\ x = e => Answered(x)' = Answered(x) \ {id}
               /\ x # e => Answered(x)' = Answered(x)
               /\ Single(control[x], Answer)'
    BY <1>1, <1>4, ConsumeIds DEF Answered, id
  <2>2. ASSUME NEW x \in Endpoint
        PROVE  /\ Asked(x)' = Asked(x)
               /\ Single(control[Peer(x)], {"Subscribe"})'
    <3>1. Head(control[e]).type \notin {"Subscribe"}
      BY DEF Answer
    <3>2. Peer(x) \in Endpoint /\ Single(control[Peer(x)], {"Subscribe"})
      BY <1>1, PeerType
    <3> QED
      BY <1>4, <3>1, <3>2, ConsumeIds DEF Asked
  <2>3. ASSUME NEW x \in Endpoint
        PROVE  /\ Held(x)' = Held(x)
               /\ x = e => pending_subscribe'[x] = pending_subscribe[x] \ {id}
               /\ x # e => pending_subscribe'[x] = pending_subscribe[x]
    BY <1>4 DEF Held, TypeOK
  <2> QED
    BY <1>2, <2>1, <2>2, <2>3 DEF RequestInv, RequestsBacked, RequestsKept
<1> QED
  BY <1>3, <1>4

-----------------------------------------------------------------------------
(* Announcements.                                                          *)

\* From draft 11 on announcements have ids and are conserved; before, the first
\* one ends the receiver, so none is ever offered or welcomed.
AnnounceInv ==
    /\ AnnouncementsBacked
    /\ Draft <= 10 => \A e \in Endpoint : Offers(e) = {} /\ Welcomed(e) = {}
    /\ \A e \in Endpoint : \A id \in Offers(e) : id < 65536

AnnounceSingle(x) ==
    /\ Draft > 10 => Single(control[Peer(x)], {"PublishNamespace"})
    /\ Single(control[x], {"PublishOk"})

LEMMA AnnouncementsSingle ==
    ASSUME AnnounceInv, NEW x \in Endpoint
    PROVE  AnnounceSingle(x)
<1>1. CASE Draft > 10
  BY <1>1 DEF AnnounceInv, AnnouncementsBacked, AnnounceSingle
<1>2. CASE Draft <= 10
  <2>1. Ids(control[x], {"PublishOk"}) = {}
    BY <1>2 DEF AnnounceInv, Welcomed
  <2>2. Single(control[x], {"PublishOk"})
    BY <2>1 DEF Single, Ids
  <2> QED
    BY <1>2, <2>2, DraftAssumption DEF AnnounceSingle
<1> QED
  BY <1>1, <1>2, DraftAssumption

\* Nothing about the announcements has changed.
LEMMA AnnounceUnchanged ==
    ASSUME AnnounceInv,
           UNCHANGED <<control, pending_sent_publish_namespace,
                       pending_received_publish_namespace>>
    PROVE  AnnounceInv'
<1>1. ASSUME NEW x \in Endpoint
      PROVE  /\ Announced(x)' = Announced(x)
             /\ Offers(x)' = Offers(x)
             /\ Welcomed(x)' = Welcomed(x)
             /\ AnnounceSingle(x)'
  <2>1. AnnounceSingle(x)
    BY AnnouncementsSingle
  <2>2. control'[x] = control[x] /\ control'[Peer(x)] = control[Peer(x)]
    OBVIOUS
  <2>3. AnnounceSingle(x)'
    BY <2>1, <2>2 DEF AnnounceSingle, Single, Places
  <2>4. Announced(x)' = Announced(x) /\ Welcomed(x)' = Welcomed(x)
    BY <2>2 DEF Announced, Welcomed, Ids, Places
  <2> QED
    BY <2>3, <2>4 DEF Offers
<1> QED
  BY <1>1 DEF AnnounceInv, AnnouncementsBacked, AnnounceSingle

\* A message about something else changes nothing for the announcements.
LEMMA AnnounceSendFrame ==
    ASSUME TypeOK, AnnounceInv, NEW e \in Endpoint, NEW m \in Message, Send(e, m),
           m.type \notin {"PublishNamespace", "PublishOk"},
           UNCHANGED <<pending_sent_publish_namespace, pending_received_publish_namespace>>
    PROVE  AnnounceInv'
<1>1. ASSUME NEW x \in Endpoint
      PROVE  /\ Announced(x)' = Announced(x)
             /\ Offers(x)' = Offers(x)
             /\ Welcomed(x)' = Welcomed(x)
             /\ AnnounceSingle(x)'
  <2>1. AnnounceSingle(x)
    BY AnnouncementsSingle
  <2>2. Peer(x) \in Endpoint
    BY PeerType
  <2>3. /\ Announced(x)' = Announced(x)
        /\ Draft > 10 => Single(control[Peer(x)], {"PublishNamespace"})'
    BY <2>1, <2>2, SendIds DEF Announced, AnnounceSingle
  <2>4. Welcomed(x)' = Welcomed(x) /\ Single(control[x], {"PublishOk"})'
    BY <2>1, SendIds DEF Welcomed, AnnounceSingle
  <2> QED
    BY <2>3, <2>4 DEF Offers, AnnounceSingle
<1> QED
  BY <1>1 DEF AnnounceInv, AnnouncementsBacked, AnnounceSingle

LEMMA AnnounceConsumeFrame ==
    ASSUME TypeOK, AnnounceInv, NEW e \in Endpoint, control[e] # << >>, Consume(e),
           Head(control[e]).type \notin {"PublishNamespace", "PublishOk"},
           UNCHANGED <<pending_sent_publish_namespace, pending_received_publish_namespace>>
    PROVE  AnnounceInv'
<1>1. ASSUME NEW x \in Endpoint
      PROVE  /\ Draft > 10 => Announced(x)' = Announced(x)
             /\ Offers(x)' = Offers(x)
             /\ Welcomed(x)' = Welcomed(x)
             /\ AnnounceSingle(x)'
  <2>1. AnnounceSingle(x)
    BY AnnouncementsSingle
  <2>2. Peer(x) \in Endpoint
    BY PeerType
  <2>3. Draft > 10 => /\ Announced(x)' = Announced(x)
                      /\ Single(control[Peer(x)], {"PublishNamespace"})'
    <3>1. Head(control[e]).type \notin {"PublishNamespace"}
      OBVIOUS
    <3>2. ASSUME Single(control[Peer(x)], {"PublishNamespace"})
          PROVE  /\ Single(control[Peer(x)], {"PublishNamespace"})'
                 /\ Ids(control[Peer(x)], {"PublishNamespace"})'
                        = Ids(control[Peer(x)], {"PublishNamespace"})
      BY <2>2, <3>1, <3>2, ConsumeIds
    <3> QED
      BY <2>1, <3>2 DEF Announced, AnnounceSingle
  <2>4. Welcomed(x)' = Welcomed(x) /\ Single(control[x], {"PublishOk"})'
    BY <2>1, ConsumeIds DEF Welcomed, AnnounceSingle
  <2> QED
    BY <2>3, <2>4 DEF Offers, AnnounceSingle
<1> QED
  BY <1>1 DEF AnnounceInv, AnnouncementsBacked, AnnounceSingle

\* publish_namespace() puts a fresh id on its way.
LEMMA AnnounceCalled ==
    ASSUME TypeOK, AnnounceInv, IdsBelowNext, NEW e \in Endpoint, NEW ns \in Namespace,
           PublishNamespaceCall(e, ns)
    PROVE  AnnounceInv'
<1> DEFINE id == next_request_id[e]
           m == PublishNamespace(id, ns)
<1>1. /\ m \in Message
      /\ m.type = "PublishNamespace"
      /\ Draft > 10 => m.request_id = id
  <2>1. id \in Nat
    BY DEF TypeOK
  <2> QED
    BY <2>1, ConstructorsType, DraftAssumption DEF PublishNamespace
<1>2. id \notin DOMAIN pending_sent_publish_namespace[e]
  BY DEF IdsBelowNext, TypeOK
<1>3. /\ Send(e, m)
      /\ pending_sent_publish_namespace' =
             [pending_sent_publish_namespace EXCEPT ![e] = Put(@, id, ns)]
      /\ UNCHANGED pending_received_publish_namespace
  BY DEF PublishNamespaceCall, listenerVars
<1> HIDE DEF id, m
<1>4. ASSUME NEW x \in Endpoint
      PROVE  /\ Offers(x)' = Offers(x)
             /\ Welcomed(x)' = Welcomed(x)
             /\ Single(control[x], {"PublishOk"})'
  <2>1. AnnounceSingle(x)
    BY AnnouncementsSingle
  <2>2. m.type \notin {"PublishOk"}
    BY <1>1
  <2>3. Welcomed(x)' = Welcomed(x) /\ Single(control[x], {"PublishOk"})'
    BY <1>1, <1>3, <2>1, <2>2, SendIds DEF Welcomed, AnnounceSingle
  <2> QED
    BY <1>3, <2>3 DEF Offers
<1>5. ASSUME NEW x \in Endpoint, Draft > 10
      PROVE  /\ x = e => Announced(x)' = Announced(x) \cup {id}
             /\ x # e => Announced(x)' = Announced(x)
             /\ Single(control[Peer(x)], {"PublishNamespace"})'
  <2>1. Single(control[Peer(x)], {"PublishNamespace"}) /\ Peer(x) \in Endpoint
    BY <1>5, AnnouncementsSingle, PeerType DEF AnnounceSingle
  <2>2. x = e => id \notin Ids(control[Peer(x)], {"PublishNamespace"})
    BY <1>2, <1>5 DEF AnnounceInv, AnnouncementsBacked, Announced
  <2>3. x = e <=> Peer(x) = Peer(e)
    BY PeerType
  <2> QED
    BY <1>1, <1>3, <1>5, <2>1, <2>2, <2>3, SendIds DEF Announced
<1>6. ASSUME NEW x \in Endpoint
      PROVE  /\ x = e => DOMAIN pending_sent_publish_namespace'[x]
                             = DOMAIN pending_sent_publish_namespace[x] \cup {id}
             /\ x # e => pending_sent_publish_namespace'[x] = pending_sent_publish_namespace[x]
  BY <1>3 DEF Put, TypeOK, Maps
<1> QED
  BY <1>2, <1>4, <1>5, <1>6 DEF AnnounceInv, AnnouncementsBacked

\* An announcement in order moves from the stream into the inbox.
LEMMA AnnounceReceived ==
    ASSUME TypeOK, AnnounceInv, NEW e \in Endpoint, Arrived(e, "PublishNamespace"),
           PublishNamespaceFault(e, Head(control[e])) = "no",
           Consume(e),
           pending_received_publish_namespace' =
               [pending_received_publish_namespace EXCEPT
                  ![e] = Put(@, Head(control[e]).request_id, Head(control[e]).namespace)],
           UNCHANGED pending_sent_publish_namespace
    PROVE  AnnounceInv'
<1> DEFINE id == Head(control[e]).request_id
<1>1. control[e] # << >> /\ Head(control[e]).type = "PublishNamespace"
  BY DEF Arrived
<1>2. Head(control[e]) \in Message
  BY <1>1, HeadType DEF TypeOK
<1>3. id \in Nat /\ id < 65536
  <2>1. id \in Nat /\ ~(id > OutMaxRequestId[e])
    BY <1>1, <1>2, MessageFields DEF PublishNamespaceFault
  <2> QED
    BY <2>1, OutMaxAssumption
<1>4. Draft > 10
  BY <1>1, <1>2, <1>3, MessageFields, DraftAssumption DEF None
<1> HIDE DEF id
<1>5. ASSUME NEW x \in Endpoint
      PROVE  /\ x = Peer(e) => /\ Announced(x)' = Announced(x) \ {id}
                               /\ Offers(x)' = Offers(x) \cup {id}
                               /\ id \in Announced(x)
             /\ x # Peer(e) => /\ Announced(x)' = Announced(x)
                               /\ Offers(x)' = Offers(x)
             /\ Welcomed(x)' = Welcomed(x)
             /\ AnnounceSingle(x)'
  <2>1. AnnounceSingle(x)
    BY AnnouncementsSingle
  <2>2. Peer(x) \in Endpoint /\ (x = Peer(e) <=> Peer(x) = e)
    BY PeerType
  <2>3. /\ x = Peer(e) => /\ Announced(x)' = Announced(x) \ {id}
                          /\ id \in Announced(x)
        /\ x # Peer(e) => Announced(x)' = Announced(x)
        /\ Single(control[Peer(x)], {"PublishNamespace"})'
    <3>1. Single(control[Peer(x)], {"PublishNamespace"})
      BY <1>4, <2>1 DEF AnnounceSingle
    <3>2. Single(control[Peer(x)], {"PublishNamespace"})'
      BY <1>1, <2>2, <3>1, ConsumeIds
    <3>3. CASE x = Peer(e)
      <4>1. Peer(x) = e /\ Head(control[e]).type \in {"PublishNamespace"}
        BY <1>1, <2>2, <3>3
      <4>2. /\ Head(control[e]).request_id \in Ids(control[Peer(x)], {"PublishNamespace"})
            /\ Ids(control[Peer(x)], {"PublishNamespace"})'
                   = Ids(control[Peer(x)], {"PublishNamespace"})
                     \ {Head(control[e]).request_id}
        BY <1>1, <2>2, <3>1, <4>1, ConsumeIds
      <4> QED
        BY <3>2, <3>3, <4>2 DEF Announced, id
    <3>4. CASE x # Peer(e)
      <4>1. Peer(x) # e
        BY <2>2, <3>4
      <4>2. Ids(control[Peer(x)], {"PublishNamespace"})'
                = Ids(control[Peer(x)], {"PublishNamespace"})
        BY <1>1, <2>2, <3>1, <4>1, ConsumeIds
      <4> QED
        BY <3>2, <3>4, <4>2 DEF Announced
    <3> QED
      BY <3>3, <3>4
  <2>4. Welcomed(x)' = Welcomed(x) /\ Single(control[x], {"PublishOk"})'
    <3>1. Head(control[e]).type \notin {"PublishOk"}
      BY <1>1
    <3> QED
      BY <1>1, <2>1, <3>1, ConsumeIds DEF Welcomed, AnnounceSingle
  <2>5. /\ x = Peer(e) => Offers(x)' = Offers(x) \cup {id}
        /\ x # Peer(e) => Offers(x)' = Offers(x)
    BY <2>2 DEF Offers, Put, TypeOK, Maps, id
  <2> QED
    BY <2>3, <2>4, <2>5 DEF AnnounceSingle
<1> QED
  BY <1>3, <1>4, <1>5, DraftAssumption DEF AnnounceInv, AnnouncementsBacked, AnnounceSingle

\* accept_namespace_publish() moves an offer onto the stream as PUBLISH_OK, whose
\* 16 bits hold its id.
LEMMA AnnounceAccepted ==
    ASSUME TypeOK, AnnounceInv, NEW e \in Endpoint, NEW id, AcceptNamespacePublish(e, id)
    PROVE  AnnounceInv'
<1>1. /\ id \in DOMAIN pending_received_publish_namespace[e]
      /\ Send(e, PublishOk(id))
      /\ pending_received_publish_namespace' =
             [pending_received_publish_namespace EXCEPT ![e] = Without(@, {id})]
      /\ UNCHANGED pending_sent_publish_namespace
  BY DEF AcceptNamespacePublish, Offered, announcerVars
<1>2. id \in Offers(Peer(e))
  BY <1>1, PeerType DEF Offers
<1>3. id \in Nat /\ id < 65536 /\ Draft > 10
  <2>1. id < 65536 /\ ~(Draft <= 10)
    BY <1>2, PeerType DEF AnnounceInv
  <2>2. id \in Nat
    BY <1>1 DEF TypeOK, Maps
  <2> QED
    BY <2>1, <2>2, DraftAssumption
<1> DEFINE m == PublishOk(id)
<1>4. m \in Message /\ m.type = "PublishOk" /\ m.request_id = id
  BY <1>3, ConstructorsType DEF PublishOk, AsU16
<1> HIDE DEF m
<1>5. ASSUME NEW x \in Endpoint
      PROVE  /\ x = Peer(e) => /\ Welcomed(x)' = Welcomed(x) \cup {id}
                               /\ Offers(x)' = Offers(x) \ {id}
                               /\ id \in Offers(x)
             /\ x # Peer(e) => /\ Welcomed(x)' = Welcomed(x)
                               /\ Offers(x)' = Offers(x)
             /\ Announced(x)' = Announced(x)
             /\ AnnounceSingle(x)'
  <2>1. AnnounceSingle(x)
    BY AnnouncementsSingle
  <2>2. Peer(x) \in Endpoint /\ (x = Peer(e) <=> Peer(x) = e)
    BY PeerType
  <2>3. x = Peer(e) => id \notin Ids(control[x], {"PublishOk"})
    BY <1>2, <1>3, PeerType DEF AnnounceInv, AnnouncementsBacked, Welcomed
  <2>4. /\ x = Peer(e) => Welcomed(x)' = Welcomed(x) \cup {id}
        /\ x # Peer(e) => Welcomed(x)' = Welcomed(x)
        /\ Single(control[x], {"PublishOk"})'
    BY <1>1, <1>4, <2>1, <2>3, SendIds DEF Welcomed, AnnounceSingle, m
  <2>5. /\ Announced(x)' = Announced(x)
        /\ Single(control[Peer(x)], {"PublishNamespace"})'
    <3>1. m.type \notin {"PublishNamespace"}
      BY <1>4
    <3> QED
      BY <1>1, <1>3, <1>4, <2>1, <2>2, <3>1, SendIds DEF Announced, AnnounceSingle, m
  <2>6. /\ x = Peer(e) => Offers(x)' = Offers(x) \ {id}
        /\ x # Peer(e) => Offers(x)' = Offers(x)
    BY <1>1, <2>2 DEF Offers, Without, TypeOK, Maps
  <2> QED
    BY <1>2, <2>4, <2>5, <2>6 DEF AnnounceSingle
<1>6. pending_sent_publish_namespace' = pending_sent_publish_namespace
  BY <1>1
<1>7. AnnouncementsBacked'
  BY <1>3, <1>5, <1>6 DEF AnnounceInv, AnnouncementsBacked, AnnounceSingle
<1> QED
  BY <1>3, <1>5, <1>7, DraftAssumption DEF AnnounceInv

\* A received PUBLISH_OK settles its announcement: the lookup succeeds.
LEMMA AnnounceSettled ==
    ASSUME TypeOK, AnnounceInv, NEW e \in Endpoint, Arrived(e, "PublishOk")
    PROVE  /\ Head(control[e]).request_id \in DOMAIN pending_sent_publish_namespace[e]
           /\ /\ Consume(e)
              /\ pending_sent_publish_namespace' =
                     [pending_sent_publish_namespace EXCEPT
                        ![e] = Without(@, {Head(control[e]).request_id})]
              /\ UNCHANGED pending_received_publish_namespace
              => AnnounceInv'
<1> DEFINE id == Head(control[e]).request_id
<1>1. control[e] # << >> /\ Head(control[e]).type \in {"PublishOk"}
  BY DEF Arrived
<1>2. id \in Welcomed(e)
  <2>1. control[e] \in Seq(Message)
    BY DEF TypeOK
  <2> QED
    BY <1>1, <2>1, AnnouncementsSingle, TailIds DEF Welcomed, AnnounceSingle
<1>3. Draft > 10
  BY <1>2, DraftAssumption DEF AnnounceInv
<1>4. id \in DOMAIN pending_sent_publish_namespace[e]
  BY <1>2, <1>3 DEF AnnounceInv, AnnouncementsBacked
<1>5. ASSUME Consume(e),
             pending_sent_publish_namespace' =
                 [pending_sent_publish_namespace EXCEPT ![e] = Without(@, {id})],
             UNCHANGED pending_received_publish_namespace
      PROVE  AnnounceInv'
  <2> HIDE DEF id
  <2>1. ASSUME NEW x \in Endpoint
        PROVE  /\ x = e => Welcomed(x)' = Welcomed(x) \ {id}
               /\ x # e => Welcomed(x)' = Welcomed(x)
               /\ Announced(x)' = Announced(x)
               /\ Offers(x)' = Offers(x)
               /\ AnnounceSingle(x)'
    <3>1. AnnounceSingle(x) /\ Peer(x) \in Endpoint
      BY AnnouncementsSingle, PeerType
    <3>2. /\ x = e => Welcomed(x)' = Welcomed(x) \ {id}
          /\ x # e => Welcomed(x)' = Welcomed(x)
          /\ Single(control[x], {"PublishOk"})'
      BY <1>1, <1>5, <3>1, ConsumeIds DEF Welcomed, AnnounceSingle, id
    <3>3. /\ Announced(x)' = Announced(x)
          /\ Single(control[Peer(x)], {"PublishNamespace"})'
      <4>1. Head(control[e]).type \notin {"PublishNamespace"}
        BY <1>1
      <4> QED
        <5>1. Single(control[Peer(x)], {"PublishNamespace"})
          BY <1>3, <3>1 DEF AnnounceSingle
        <5>2. /\ Single(control[Peer(x)], {"PublishNamespace"})'
              /\ Ids(control[Peer(x)], {"PublishNamespace"})'
                     = Ids(control[Peer(x)], {"PublishNamespace"})
          BY <1>1, <1>5, <3>1, <4>1, <5>1, ConsumeIds
        <5> QED
          BY <5>2 DEF Announced
    <3> QED
      BY <1>5, <3>2, <3>3 DEF Offers, AnnounceSingle
  <2>2. ASSUME NEW x \in Endpoint
        PROVE  /\ x = e => DOMAIN pending_sent_publish_namespace'[x]
                               = DOMAIN pending_sent_publish_namespace[x] \ {id}
               /\ x # e => pending_sent_publish_namespace'[x]
                               = pending_sent_publish_namespace[x]
    BY <1>5 DEF Without, TypeOK, Maps
  <2> QED
    BY <1>2, <1>3, <2>1, <2>2, DraftAssumption
    DEF AnnounceInv, AnnouncementsBacked, AnnounceSingle
<1> QED
  BY <1>4, <1>5

-----------------------------------------------------------------------------
(* The setup exchange, the counters and the whole invariant.               *)

\* Only the client sends CLIENT_SETUP and only the server SERVER_SETUP.
SetupInv ==
    /\ Places(control["client"], {"ClientSetup"}) = {}
    /\ Places(control["server"], {"ServerSetup"}) = {}

\* What each step preserves, given TypeOK.
Rest == RequestInv /\ IdsBelowNext /\ AnnounceInv /\ SetupInv /\ UnwrapsHold

LEMMA PlacesAppend ==
    ASSUME NEW q \in Seq(Message), NEW m \in Message, NEW types,
           m.type \notin types, Places(q, types) = {}
    PROVE  Places(Append(q, m), types) = {}
<1> DEFINE r == Append(q, m)
<1>1. /\ DOMAIN r = 1..Len(q) + 1
      /\ DOMAIN q = 1..Len(q)
      /\ Len(q) \in Nat
      /\ \A i \in 1..Len(q) : r[i] = q[i]
      /\ r[Len(q) + 1] = m
  BY AppendProperties, LenProperties
<1> HIDE DEF r
<1>2. Places(r, types) = {}
  BY <1>1 DEF Places
<1> QED
  BY <1>2 DEF r

LEMMA PlacesTail ==
    ASSUME NEW q \in Seq(Message), q # << >>, NEW types, Places(q, types) = {}
    PROVE  Places(Tail(q), types) = {} /\ Head(q).type \notin types
<1> DEFINE r == Tail(q)
<1>1. /\ DOMAIN r = 1..Len(q) - 1
      /\ DOMAIN q = 1..Len(q)
      /\ Len(q) \in Nat \ {0}
      /\ \A i \in 1..Len(q) - 1 : r[i] = q[i + 1]
      /\ Head(q) = q[1]
  BY HeadTailProperties, LenProperties
<1> HIDE DEF r
<1>2. Places(r, types) = {}
  BY <1>1 DEF Places
<1>3. Head(q).type \notin types
  BY <1>1 DEF Places
<1> QED
  BY <1>2, <1>3 DEF r

LEMMA SetupSend ==
    ASSUME TypeOK, SetupInv, NEW e \in Endpoint, NEW m \in Message, Send(e, m),
           m.type \notin {"ClientSetup", "ServerSetup"}
    PROVE  SetupInv'
<1>1. ASSUME NEW x \in Endpoint, NEW type \in {"ClientSetup", "ServerSetup"},
             Places(control[x], {type}) = {}
      PROVE  Places(control'[x], {type}) = {}
  <2>1. control[x] \in Seq(Message) /\ m.type \notin {type}
    BY DEF TypeOK
  <2>2. control'[x] = control[x] \/ control'[x] = Append(control[x], m)
    BY DEF Send, TypeOK
  <2> QED
    BY <1>1, <2>1, <2>2, PlacesAppend
<1> QED
  BY <1>1 DEF SetupInv, Endpoint

LEMMA SetupConsume ==
    ASSUME TypeOK, SetupInv, NEW e \in Endpoint, control[e] # << >>, Consume(e)
    PROVE  SetupInv'
<1>1. ASSUME NEW x \in Endpoint, NEW type, Places(control[x], {type}) = {}
      PROVE  Places(control'[x], {type}) = {}
  <2>1. control[x] \in Seq(Message)
    BY DEF TypeOK
  <2>2. control'[x] = control[x] \/ (x = e /\ control'[x] = Tail(control[x]))
    BY DEF Consume, TypeOK
  <2> QED
    BY <1>1, <2>1, <2>2, PlacesTail
<1> QED
  BY <1>1 DEF SetupInv, Endpoint

\* Each setup message reaches the endpoint it is meant for.
LEMMA SetupRoles ==
    ASSUME TypeOK, SetupInv, NEW e \in Endpoint
    PROVE  /\ Arrived(e, "ClientSetup") => e = "server"
           /\ Arrived(e, "ServerSetup") => e = "client"
<1>1. control[e] \in Seq(Message)
  BY DEF TypeOK
<1> QED
  BY <1>1, PlacesTail DEF SetupInv, Arrived, Endpoint

\* An assertion that none of the guarded lookups is about: nothing else changes.
LEMMA PanicKeeps ==
    ASSUME Rest, NEW e \in Endpoint, NEW why,
           why \notin {"SUBSCRIBE_OK unwrap", "REQUEST_ERROR unwrap", "PUBLISH_OK unwrap",
                      "client received CLIENT_SETUP", "server received SERVER_SETUP"},
           Panic(e, why), TypeOK
    PROVE  Rest'
<1>1. UNCHANGED <<control, pending_subscribe, pending_received_subscriptions,
                  pending_sent_publish_namespace, pending_received_publish_namespace,
                  next_request_id>>
  BY DEF Panic, subscriberVars, publisherVars, announcerVars, listenerVars
<1>2. RequestInv'
  BY <1>1, RequestUnchanged DEF Rest
<1>3. AnnounceInv'
  BY <1>1, AnnounceUnchanged DEF Rest
<1>4. UnwrapsHold'
  BY DEF Rest, UnwrapsHold, Panic, TypeOK
<1>5. IdsBelowNext' /\ SetupInv'
  BY <1>1 DEF Rest, IdsBelowNext, SetupInv, Places
<1> QED
  BY <1>2, <1>3, <1>4, <1>5 DEF Rest

\* The server's answer to CLIENT_SETUP leaves all requests where they are.
LEMMA ClientSetupKeeps ==
    ASSUME TypeOK, Rest, NEW e \in Endpoint, RecvClientSetup(e)
    PROVE  Rest'
<1> DEFINE m == ServerSetup(OutMaxRequestId[e])
<1>1. e = "server" /\ control[e] # << >> /\ Head(control[e]).type = "ClientSetup"
  BY SetupRoles DEF RecvClientSetup, Rest, Arrived
<1>2. m \in Message /\ m.type = "ServerSetup"
  <2>1. OutMaxRequestId[e] \in Nat
    BY OutMaxAssumption
  <2> QED
    BY <2>1, ConstructorsType DEF ServerSetup
<1>3. /\ control' = [control EXCEPT ![e] = Tail(@), ![Peer(e)] = Append(@, m)]
      /\ UNCHANGED <<pending_subscribe, pending_received_subscriptions,
                     pending_sent_publish_namespace, pending_received_publish_namespace,
                     next_request_id, panicked>>
  BY <1>1 DEF RecvClientSetup, subscriberVars, publisherVars, announcerVars, listenerVars
<1> HIDE DEF m
<1>4. ASSUME NEW x \in Endpoint, NEW types, "ClientSetup" \notin types,
             "ServerSetup" \notin types
      PROVE  Single(control[x], types) => /\ Single(control[x], types)'
                                          /\ Ids(control[x], types)' = Ids(control[x], types)
  <2>1. control[x] \in Seq(Message)
    BY DEF TypeOK
  <2>2. \/ x = e /\ control'[x] = Tail(control[x])
        \/ x = Peer(e) /\ control'[x] = Append(control[x], m)
    BY <1>3, PeerType DEF TypeOK, Endpoint, Peer
  <2>3. CASE x = e /\ control'[x] = Tail(control[x])
    BY <1>1, <1>4, <2>1, <2>3, TailIds
  <2>4. CASE x = Peer(e) /\ control'[x] = Append(control[x], m)
    BY <1>2, <1>4, <2>1, <2>4, AppendIds
  <2> QED
    BY <2>2, <2>3, <2>4
<1>5. \A x \in Endpoint :
         /\ Single(control[Peer(x)], {"Subscribe"}) /\ Single(control[x], Answer)
         /\ AnnounceSingle(x)
         /\ Peer(x) \in Endpoint
  BY AnnouncementsSingle, PeerType DEF Rest, RequestInv, RequestsBacked
<1>6. RequestInv'
  <2>1. ASSUME NEW x \in Endpoint
        PROVE  /\ Asked(x)' = Asked(x)
               /\ Held(x)' = Held(x)
               /\ Answered(x)' = Answered(x)
               /\ Single(control[Peer(x)], {"Subscribe"})'
               /\ Single(control[x], Answer)'
    <3>1. "ClientSetup" \notin Answer /\ "ServerSetup" \notin Answer
      BY DEF Answer
    <3>2. Answered(x)' = Answered(x) /\ Single(control[x], Answer)'
      BY <1>4, <1>5, <3>1 DEF Answered
    <3>3. Asked(x)' = Asked(x) /\ Single(control[Peer(x)], {"Subscribe"})'
      BY <1>4, <1>5 DEF Asked
    <3> QED
      BY <1>3, <3>2, <3>3 DEF Held
  <2> QED
    BY <1>3, <2>1 DEF Rest, RequestInv, RequestsBacked, RequestsKept
<1>7. AnnounceInv'
  <2>1. ASSUME NEW x \in Endpoint
        PROVE  /\ Draft > 10 => Announced(x)' = Announced(x)
               /\ Offers(x)' = Offers(x)
               /\ Welcomed(x)' = Welcomed(x)
               /\ AnnounceSingle(x)'
    <3>1. Welcomed(x)' = Welcomed(x) /\ Single(control[x], {"PublishOk"})'
      BY <1>4, <1>5 DEF Welcomed, AnnounceSingle
    <3>2. Draft > 10 => /\ Announced(x)' = Announced(x)
                        /\ Single(control[Peer(x)], {"PublishNamespace"})'
      BY <1>4, <1>5 DEF Announced, AnnounceSingle
    <3> QED
      BY <1>3, <3>1, <3>2 DEF Offers, AnnounceSingle
  <2>2. AnnounceInv /\ UNCHANGED pending_sent_publish_namespace
    BY <1>3 DEF Rest
  <2> QED
    BY <2>1, <2>2 DEF AnnounceInv, AnnouncementsBacked, AnnounceSingle
<1>8. SetupInv'
  <2>1. /\ control'["server"] = Tail(control["server"])
        /\ control'["client"] = Append(control["client"], m)
    BY <1>1, <1>3 DEF TypeOK, Endpoint, Peer
  <2>2. /\ control["server"] \in Seq(Message) /\ control["server"] # << >>
        /\ control["client"] \in Seq(Message)
    BY <1>1 DEF TypeOK, Endpoint
  <2>3. Places(control'["server"], {"ServerSetup"}) = {}
    BY <2>1, <2>2, PlacesTail DEF Rest, SetupInv
  <2>4. Places(control'["client"], {"ClientSetup"}) = {}
    BY <1>2, <2>1, <2>2, PlacesAppend DEF Rest, SetupInv
  <2> QED
    BY <2>3, <2>4 DEF SetupInv
<1>9. IdsBelowNext' /\ UnwrapsHold'
  BY <1>3 DEF Rest, IdsBelowNext, UnwrapsHold
<1> QED
  BY <1>6, <1>7, <1>8, <1>9 DEF Rest

\* The messages that the invariant is about; any other one leaves it alone.
Tracked == {"Subscribe", "PublishNamespace", "PublishOk", "ClientSetup", "ServerSetup"}
               \cup Answer

LEMMA UnrelatedSend ==
    ASSUME TypeOK, Rest, NEW e \in Endpoint, NEW m \in Message, Send(e, m),
           m.type \notin Tracked,
           UNCHANGED <<pending_subscribe, pending_received_subscriptions,
                       pending_sent_publish_namespace, pending_received_publish_namespace,
                       next_request_id, panicked>>
    PROVE  Rest'
<1>1. /\ m.type \notin {"Subscribe"} \cup Answer
      /\ m.type \notin {"PublishNamespace", "PublishOk"}
      /\ m.type \notin {"ClientSetup", "ServerSetup"}
  BY DEF Tracked
<1>2. RequestInv'
  BY <1>1, RequestSendFrame DEF Rest
<1>3. AnnounceInv'
  BY <1>1, AnnounceSendFrame DEF Rest
<1>4. SetupInv'
  BY <1>1, SetupSend DEF Rest
<1>5. IdsBelowNext' /\ UnwrapsHold'
  BY DEF Rest, IdsBelowNext, UnwrapsHold
<1> QED
  BY <1>2, <1>3, <1>4, <1>5 DEF Rest

LEMMA UnrelatedReceived ==
    ASSUME TypeOK, Rest, NEW e \in Endpoint, control[e] # << >>, Consume(e),
           Head(control[e]).type \notin Tracked \ {"ServerSetup"},
           UNCHANGED <<pending_subscribe, pending_received_subscriptions,
                       pending_sent_publish_namespace, pending_received_publish_namespace,
                       next_request_id, panicked>>
    PROVE  Rest'
<1>1. /\ Head(control[e]).type \notin {"Subscribe"} \cup Answer
      /\ Head(control[e]).type \notin {"PublishNamespace", "PublishOk"}
  BY DEF Tracked, Answer
<1>2. RequestInv'
  BY <1>1, RequestConsumeFrame DEF Rest
<1>3. AnnounceInv'
  BY <1>1, AnnounceConsumeFrame DEF Rest
<1>4. SetupInv'
  BY <1>1, SetupConsume DEF Rest
<1>5. IdsBelowNext' /\ UnwrapsHold'
  BY DEF Rest, IdsBelowNext, UnwrapsHold
<1> QED
  BY <1>2, <1>3, <1>4, <1>5 DEF Rest

LEMMA PollKeeps ==
    ASSUME TypeOK, Rest, NEW e \in Endpoint, Poll(e)
    PROVE  Rest'
<1> USE DEF setupVars, subscriberVars, publisherVars, announcerVars, listenerVars
<1> DEFINE id == Head(control[e]).request_id
<1>1. CASE RecvClientSetup(e)
  BY <1>1, ClientSetupKeeps
<1>2. CASE RecvServerSetup(e)
  <2>1. e = "client"
    BY <1>2, SetupRoles DEF RecvServerSetup, Rest
  <2>2. Head(control[e]).type = "ServerSetup"
    BY <1>2 DEF RecvServerSetup, Arrived
  <2>3. Head(control[e]).type \notin Tracked \ {"ServerSetup"}
    BY <2>2
  <2> QED
    BY <1>2, <2>1, <2>3, UnrelatedReceived DEF RecvServerSetup, Arrived
<1>3. CASE RecvSubscribe(e)
  <2>1. control[e] # << >> /\ Consume(e) /\ Head(control[e]).type = "Subscribe"
    BY <1>3 DEF RecvSubscribe, Arrived
  <2>2. RequestInv'
    BY <1>3, RequestReceived DEF Rest
  <2>3. AnnounceInv'
    BY <1>3, <2>1, AnnounceConsumeFrame DEF RecvSubscribe, Rest
  <2>4. SetupInv'
    BY <2>1, SetupConsume DEF Rest
  <2>5. IdsBelowNext' /\ UnwrapsHold'
    BY <1>3 DEF RecvSubscribe, Rest, IdsBelowNext, UnwrapsHold
  <2> QED
    BY <2>2, <2>3, <2>4, <2>5 DEF Rest
<1>4. CASE RecvSubscribeOk(e) \/ RecvRequestError(e)
  <2>1. /\ control[e] # << >>
        /\ Head(control[e]).type \in Answer
        /\ Head(control[e]).type \notin {"PublishNamespace", "PublishOk"}
    BY <1>4 DEF RecvSubscribeOk, RecvRequestError, Arrived, Answer
  <2>2. id \in pending_subscribe[e]
    BY <2>1, RequestSettled DEF Rest
  <2>3. /\ Consume(e)
        /\ pending_subscribe' = [pending_subscribe EXCEPT ![e] = @ \ {id}]
        /\ UNCHANGED <<pending_received_subscriptions, pending_sent_publish_namespace,
                       pending_received_publish_namespace, next_request_id, panicked>>
    BY <1>4, <2>2 DEF RecvSubscribeOk, RecvRequestError
  <2>4. RequestInv'
    BY <2>1, <2>3, RequestSettled DEF Rest
  <2>5. AnnounceInv'
    BY <2>1, <2>3, AnnounceConsumeFrame DEF Rest
  <2>6. SetupInv'
    BY <2>1, <2>3, SetupConsume DEF Rest
  <2>7. IdsBelowNext' /\ UnwrapsHold'
    BY <2>3 DEF Rest, IdsBelowNext, UnwrapsHold, TypeOK
  <2> QED
    BY <2>4, <2>5, <2>6, <2>7 DEF Rest
<1>5. CASE RecvPublishDone(e)
  <2>1. Head(control[e]).type = "PublishDone"
    BY <1>5 DEF RecvPublishDone, Arrived
  <2>2. Head(control[e]).type \notin Tracked
    BY <2>1 DEF Tracked, Answer
  <2> QED
    BY <1>5, <2>2, UnrelatedReceived DEF RecvPublishDone, Arrived
<1>6. CASE RecvPublishNamespace(e)
  <2> DEFINE fault == PublishNamespaceFault(e, Head(control[e]))
  <2>1. CASE fault = "no"
    <3>1. /\ Consume(e) /\ control[e] # << >>
          /\ Head(control[e]).type = "PublishNamespace"
          /\ pending_received_publish_namespace' =
                 [pending_received_publish_namespace EXCEPT
                    ![e] = Put(@, id, Head(control[e]).namespace)]
          /\ UNCHANGED <<pending_subscribe, pending_received_subscriptions,
                         pending_sent_publish_namespace, next_request_id, panicked>>
      BY <1>6, <2>1 DEF RecvPublishNamespace, Arrived
    <3>2. AnnounceInv'
      BY <1>6, <2>1, <3>1, AnnounceReceived DEF RecvPublishNamespace, Rest
    <3>3. Head(control[e]).type \notin {"Subscribe"} \cup Answer
      BY <3>1 DEF Answer
    <3>4. RequestInv'
      BY <3>1, <3>3, RequestConsumeFrame DEF Rest
    <3>5. SetupInv'
      BY <3>1, SetupConsume DEF Rest
    <3>6. IdsBelowNext' /\ UnwrapsHold'
      BY <3>1 DEF Rest, IdsBelowNext, UnwrapsHold
    <3> QED
      BY <3>2, <3>4, <3>5, <3>6 DEF Rest
  <2>2. CASE fault # "no"
    <3>1. Panic(e, fault)
      BY <1>6, <2>2 DEF RecvPublishNamespace
    <3>2. fault \in {"PUBLISH_NAMESPACE without request id", "INVALID_REQUEST_ID quota",
                     "INVALID_REQUEST_ID order", "no"}
      BY DEF PublishNamespaceFault
    <3> HIDE DEF fault
    <3> QED
      BY <3>1, <3>2, PanicKeeps
  <2> QED
    BY <2>1, <2>2
<1>7. CASE RecvPublishOk(e)
  <2>1. Arrived(e, "PublishOk")
    BY <1>7 DEF RecvPublishOk
  <2>2. /\ control[e] # << >>
        /\ Head(control[e]).type \notin {"Subscribe"} \cup Answer
    BY <2>1 DEF Arrived, Answer
  <2>3. id \in DOMAIN pending_sent_publish_namespace[e]
    BY <2>1, AnnounceSettled DEF Rest
  <2>4. /\ Consume(e)
        /\ pending_sent_publish_namespace' =
               [pending_sent_publish_namespace EXCEPT ![e] = Without(@, {id})]
        /\ UNCHANGED <<pending_subscribe, pending_received_subscriptions,
                       pending_received_publish_namespace, next_request_id, panicked>>
    BY <1>7, <2>3 DEF RecvPublishOk
  <2>5. AnnounceInv'
    BY <2>1, <2>4, AnnounceSettled DEF Rest
  <2>6. RequestInv'
    BY <2>2, <2>4, RequestConsumeFrame DEF Rest
  <2>7. SetupInv'
    BY <2>2, <2>4, SetupConsume DEF Rest
  <2>8. IdsBelowNext' /\ UnwrapsHold'
    BY <2>4 DEF Rest, IdsBelowNext, UnwrapsHold, TypeOK, Maps, Without
  <2> QED
    BY <2>5, <2>6, <2>7, <2>8 DEF Rest
<1>8. CASE RecvPublishNamespaceDone(e)
  <2>1. Head(control[e]).type = "PublishNamespaceDone"
    BY <1>8 DEF RecvPublishNamespaceDone, Arrived
  <2>2. Head(control[e]).type \notin Tracked
    BY <2>1 DEF Tracked, Answer
  <2> QED
    BY <1>8, <2>2, UnrelatedReceived DEF RecvPublishNamespaceDone, Arrived
<1> QED
  BY <1>1, <1>2, <1>3, <1>4, <1>5, <1>6, <1>7, <1>8 DEF Poll

LEMMA CallKeeps ==
    ASSUME TypeOK, Rest, NEW e \in Endpoint, Call(e)
    PROVE  Rest'
<1> USE DEF setupVars, subscriberVars, publisherVars, announcerVars, listenerVars
<1>1. CASE SubscribeCall(e)
  <2> DEFINE m == Subscribe(next_request_id[e])
  <2>1. next_request_id[e] \in Nat
    BY DEF TypeOK
  <2>2. m \in Message /\ m.type = "Subscribe"
    BY <2>1, ConstructorsType DEF Subscribe
  <2>3. Send(e, m)
    BY <1>1 DEF SubscribeCall
  <2> HIDE DEF m
  <2>4. RequestInv'
    BY <1>1, RequestSubscribe DEF Rest
  <2>5. AnnounceInv'
    <3>1. m.type \notin {"PublishNamespace", "PublishOk"}
      BY <2>2
    <3> QED
      BY <1>1, <2>2, <2>3, <3>1, AnnounceSendFrame DEF SubscribeCall, Rest
  <2>6. SetupInv'
    <3>1. m.type \notin {"ClientSetup", "ServerSetup"}
      BY <2>2
    <3> QED
      BY <2>2, <2>3, <3>1, SetupSend DEF Rest
  <2>7. IdsBelowNext'
    BY <1>1, <2>1 DEF SubscribeCall, Rest, IdsBelowNext, TypeOK, Maps
  <2>8. UnwrapsHold'
    BY <1>1 DEF SubscribeCall, Rest, UnwrapsHold
  <2> QED
    BY <2>4, <2>5, <2>6, <2>7, <2>8 DEF Rest
<1>2. ASSUME NEW ns \in Namespace, PublishNamespaceCall(e, ns)
      PROVE  Rest'
  <2> DEFINE m == PublishNamespace(next_request_id[e], ns)
  <2>1. next_request_id[e] \in Nat
    BY DEF TypeOK
  <2>2. m \in Message /\ m.type = "PublishNamespace"
    BY <2>1, ConstructorsType DEF PublishNamespace
  <2>3. Send(e, m)
    BY <1>2 DEF PublishNamespaceCall
  <2> HIDE DEF m
  <2>4. AnnounceInv'
    BY <1>2, AnnounceCalled DEF Rest
  <2>5. RequestInv'
    <3>1. m.type \notin {"Subscribe"} \cup Answer
      BY <2>2 DEF Answer
    <3> QED
      BY <1>2, <2>2, <2>3, <3>1, RequestSendFrame DEF PublishNamespaceCall, Rest
  <2>6. SetupInv'
    <3>1. m.type \notin {"ClientSetup", "ServerSetup"}
      BY <2>2
    <3> QED
      BY <2>2, <2>3, <3>1, SetupSend DEF Rest
  <2>7. IdsBelowNext'
    BY <1>2, <2>1 DEF PublishNamespaceCall, Rest, IdsBelowNext, TypeOK, Maps, Put
  <2>8. UnwrapsHold'
    BY <1>2 DEF PublishNamespaceCall, Rest, UnwrapsHold
  <2> QED
    BY <2>4, <2>5, <2>6, <2>7, <2>8 DEF Rest
<1>3. ASSUME NEW id \in pending_received_subscriptions[e], NEW m \in Message, Send(e, m),
             m.type \in Answer, m.request_id = id,
             pending_received_subscriptions' =
                 [pending_received_subscriptions EXCEPT ![e] = @ \ {id}],
             UNCHANGED <<pending_subscribe, pending_sent_publish_namespace,
                         pending_received_publish_namespace, next_request_id, panicked>>
      PROVE  Rest'
  <2>1. /\ m.type \notin {"PublishNamespace", "PublishOk"}
        /\ m.type \notin {"ClientSetup", "ServerSetup"}
    BY <1>3 DEF Answer
  <2>2. RequestInv'
    BY <1>3, RequestAnswered DEF Rest
  <2>3. AnnounceInv'
    BY <1>3, <2>1, AnnounceSendFrame DEF Rest
  <2>4. SetupInv'
    BY <1>3, <2>1, SetupSend DEF Rest
  <2>5. IdsBelowNext' /\ UnwrapsHold'
    BY <1>3 DEF Rest, IdsBelowNext, UnwrapsHold
  <2> QED
    BY <2>2, <2>3, <2>4, <2>5 DEF Rest
<1>4. ASSUME NEW id \in pending_received_subscriptions[e], AcceptSubscription(e, id)
      PROVE  Rest'
  <2> DEFINE m == SubscribeOk(id, GrantedAlias(e, id))
  <2>1. id \in Nat /\ GrantedAlias(e, id) \in Nat
    BY DEF TypeOK, GrantedAlias
  <2>2. m \in Message /\ m.type \in Answer /\ m.request_id = id
    BY <2>1, ConstructorsType DEF SubscribeOk, Answer
  <2>3. Send(e, m)
    BY <1>4 DEF AcceptSubscription
  <2> HIDE DEF m
  <2> QED
    BY <1>4, <2>2, <2>3, <1>3 DEF AcceptSubscription, Unanswered
<1>5. ASSUME NEW id \in pending_received_subscriptions[e], RejectSubscription(e, id)
      PROVE  Rest'
  <2>1. CASE RequestErrorSupported
    <3> DEFINE m == RequestError(id)
    <3>1. id \in Nat
      BY DEF TypeOK
    <3>2. m \in Message /\ m.type \in Answer /\ m.request_id = id
      BY <3>1, ConstructorsType DEF RequestError, Answer
    <3>3. Send(e, m)
      BY <1>5, <2>1 DEF RejectSubscription
    <3> HIDE DEF m
    <3> QED
      BY <1>5, <2>1, <3>2, <3>3, <1>3 DEF RejectSubscription, Unanswered
  <2>2. CASE ~RequestErrorSupported
    BY <1>5, <2>2, PanicKeeps DEF RejectSubscription
  <2> QED
    BY <2>1, <2>2
<1>6. ASSUME NEW id \in DOMAIN pending_received_publish_namespace[e],
             AcceptNamespacePublish(e, id)
      PROVE  Rest'
  <2> DEFINE m == PublishOk(id)
  <2>1. id \in Nat
    BY DEF TypeOK, Maps
  <2>2. m \in Message /\ m.type = "PublishOk"
    BY <2>1, ConstructorsType DEF PublishOk
  <2>3. Send(e, m)
    BY <1>6 DEF AcceptNamespacePublish
  <2> HIDE DEF m
  <2>4. AnnounceInv'
    BY <1>6, AnnounceAccepted DEF Rest
  <2>5. RequestInv'
    <3>1. m.type \notin {"Subscribe"} \cup Answer
      BY <2>2 DEF Answer
    <3> QED
      BY <1>6, <2>2, <2>3, <3>1, RequestSendFrame DEF AcceptNamespacePublish, Rest
  <2>6. SetupInv'
    <3>1. m.type \notin {"ClientSetup", "ServerSetup"}
      BY <2>2
    <3> QED
      BY <2>2, <2>3, <3>1, SetupSend DEF Rest
  <2>7. IdsBelowNext' /\ UnwrapsHold'
    BY <1>6 DEF AcceptNamespacePublish, Rest, IdsBelowNext, UnwrapsHold
  <2> QED
    BY <2>4, <2>5, <2>6, <2>7 DEF Rest
<1>7. ASSUME NEW id, PollSubscribeResponse(e, id)
      PROVE  Rest'
  <2>1. UNCHANGED <<control, pending_subscribe, pending_received_subscriptions,
                    pending_sent_publish_namespace, pending_received_publish_namespace,
                    next_request_id, panicked>>
    BY <1>7 DEF PollSubscribeResponse
  <2>2. RequestInv' /\ SetupInv'
    BY <2>1, RequestUnchanged DEF Rest, SetupInv, Places
  <2>3. AnnounceInv'
    BY <2>1, AnnounceUnchanged DEF Rest
  <2> QED
    BY <2>1, <2>2, <2>3 DEF Rest, IdsBelowNext, UnwrapsHold
<1>8. ASSUME NEW id \in DOMAIN accepted[e], PublishDoneCall(e, id)
      PROVE  Rest'
  <2> DEFINE m == PublishDone(id)
  <2>1. id \in Nat
    BY DEF TypeOK, Maps
  <2>2. m \in Message /\ m.type \notin Tracked
    BY <2>1, ConstructorsType DEF PublishDone, Tracked, Answer
  <2>3. Send(e, m)
    BY <1>8 DEF PublishDoneCall
  <2> HIDE DEF m
  <2> QED
    BY <1>8, <2>2, <2>3, UnrelatedSend DEF PublishDoneCall
<1>9. ASSUME NEW id \in DOMAIN sent_namespaces[e], PublishNamespaceDoneCall(e, id)
      PROVE  Rest'
  <2> DEFINE m == PublishNamespaceDone(id, sent_namespaces[e][id])
  <2>1. id \in Nat /\ sent_namespaces[e][id] \in Namespace
    BY DEF TypeOK, Maps
  <2>2. m \in Message /\ m.type \notin Tracked
    BY <2>1, ConstructorsType DEF PublishNamespaceDone, Tracked, Answer
  <2>3. Send(e, m)
    BY <1>9 DEF PublishNamespaceDoneCall
  <2> HIDE DEF m
  <2> QED
    BY <1>9, <2>2, <2>3, UnrelatedSend DEF PublishNamespaceDoneCall
<1> QED
  BY <1>1, <1>2, <1>4, <1>5, <1>6, <1>7, <1>8, <1>9
  DEF Call, AnswerSubscription, AnswerNamespace

LEMMA InitRest == Init => Rest
<1> SUFFICES ASSUME Init PROVE Rest
  OBVIOUS
<1> DEFINE setup == ClientSetup(OutMaxRequestId["client"])
<1>1. control["client"] = << >> /\ control["server"] = << setup >>
  BY DEF Init, Endpoint
<1>2. setup.type = "ClientSetup"
  BY DEF ClientSetup
<1> HIDE DEF setup
<1>3. ASSUME NEW x \in Endpoint, NEW types, "ClientSetup" \notin types
      PROVE  Places(control[x], types) = {}
  BY <1>1, <1>2, <1>3 DEF Places, Endpoint
<1>4. ASSUME NEW x \in Endpoint, NEW types, "ClientSetup" \notin types
      PROVE  Ids(control[x], types) = {} /\ Single(control[x], types)
  BY <1>3, <1>4 DEF Ids, Single
<1>5. \A x \in Endpoint :
         /\ Asked(x) = {} /\ Held(x) = {} /\ Answered(x) = {}
         /\ Announced(x) = {} /\ Welcomed(x) = {} /\ Offers(x) = {}
         /\ Single(control[Peer(x)], {"Subscribe"}) /\ Single(control[x], Answer)
         /\ Single(control[Peer(x)], {"PublishNamespace"})
         /\ Single(control[x], {"PublishOk"})
  <2>1. "ClientSetup" \notin Answer
    BY DEF Answer
  <2> QED
    BY <1>4, <2>1, PeerType
    DEF Init, EmptyMap, Asked, Held, Answered, Announced, Welcomed, Offers
<1>6. \A x \in Endpoint : /\ pending_subscribe[x] = {}
                          /\ DOMAIN pending_sent_publish_namespace[x] = {}
                          /\ panicked[x] = "no"
  BY DEF Init, EmptyMap
<1>7. RequestInv /\ AnnounceInv
  BY <1>5, <1>6 DEF RequestInv, RequestsBacked, RequestsKept, AnnounceInv, AnnouncementsBacked
<1>8. SetupInv
  BY <1>1, <1>2 DEF SetupInv, Places
<1> QED
  BY <1>6, <1>7, <1>8 DEF Rest, IdsBelowNext, UnwrapsHold

-----------------------------------------------------------------------------
(* The theorems.                                                           *)

\* The inductive invariant: the properties, and what they need to be inductive.
LEMMA InductiveInvariant == Spec => [](TypeOK /\ Rest)
<1>1. TypeOK /\ Rest /\ [Next]_vars => Rest'
  <2> SUFFICES ASSUME TypeOK, Rest, [Next]_vars PROVE Rest'
    OBVIOUS
  <2>1. CASE Next
    BY <2>1, PollKeeps, CallKeeps DEF Next
  <2>2. CASE UNCHANGED vars
    <3>1. UNCHANGED <<control, pending_subscribe, pending_received_subscriptions,
                      pending_sent_publish_namespace, pending_received_publish_namespace,
                      next_request_id, panicked>>
      BY <2>2 DEF vars, subscriberVars, publisherVars, announcerVars, listenerVars
    <3>2. RequestInv' /\ SetupInv'
      BY <3>1, RequestUnchanged DEF Rest, SetupInv, Places
    <3>3. AnnounceInv'
      BY <3>1, AnnounceUnchanged DEF Rest
    <3> QED
      BY <3>1, <3>2, <3>3 DEF Rest, IdsBelowNext, UnwrapsHold
  <2> QED
    BY <2>1, <2>2
<1> QED
  BY TypeCorrect, InitRest, <1>1, PTL DEF Spec

\* A request held or answered by the publisher is one that its subscriber waits
\* for, in one place only.
THEOREM RequestsAlwaysBacked == Spec => []RequestsBacked
<1>1. Rest => RequestsBacked
  BY DEF Rest, RequestInv
<1> QED
  BY InductiveInvariant, <1>1, PTL

\* No request that a subscriber waits for gets lost.
THEOREM RequestsAlwaysKept == Spec => []RequestsKept
<1>1. Rest => RequestsKept
  BY DEF Rest, RequestInv
<1> QED
  BY InductiveInvariant, <1>1, PTL

\* Every announcement that waits for PUBLISH_OK is in exactly one place.
THEOREM AnnouncementsAlwaysBacked == Spec => []AnnouncementsBacked
<1>1. Rest => AnnouncementsBacked
  BY DEF Rest, AnnounceInv
<1> QED
  BY InductiveInvariant, <1>1, PTL

\* The unwraps and role assertions of poll() that trust the peer never fail.
THEOREM UnwrapsAlwaysHold == Spec => []UnwrapsHold
<1>1. Rest => UnwrapsHold
  BY DEF Rest
<1> QED
  BY InductiveInvariant, <1>1, PTL
=============================================================================
