-------------------------- MODULE MoqControl_proofs --------------------------
(***************************************************************************)
(* Theorems about MoqControl, for every draft, quota and number of         *)
(* requests.                                                               *)
(***************************************************************************)
EXTENDS MoqControl, SequenceTheorems, TLAPS

-----------------------------------------------------------------------------
(* Messages.                                                               *)

\* What the sessions put on the control stream is a message.
LEMMA ConstructorsType ==
    /\ \A id \in Nat :
         /\ ClientSetup(id) \in Message
         /\ ServerSetup(id) \in Message
         /\ Subscribe(id) \in Message
         /\ RequestError(id) \in Message
         /\ PublishDone(id) \in Message
         /\ PublishOk(id) \in Message
    /\ \A id, alias \in Nat : SubscribeOk(id, alias) \in Message
    /\ \A id \in Nat : \A ns \in Namespace :
         /\ PublishNamespace(id, ns) \in Message
         /\ PublishNamespaceDone(id, ns) \in Message
<1>1. ASSUME NEW id \in Nat
      PROVE  /\ ClientSetup(id) \in Message
             /\ ServerSetup(id) \in Message
  BY DEF ClientSetup, ServerSetup, Message
<1>2. ASSUME NEW id \in Nat PROVE Subscribe(id) \in Message
  BY DEF Subscribe, Message
<1>3. ASSUME NEW id \in Nat, NEW alias \in Nat PROVE SubscribeOk(id, alias) \in Message
  BY DEF SubscribeOk, Message
<1>4. ASSUME NEW id \in Nat PROVE RequestError(id) \in Message
  BY DEF RequestError, Message
<1>5. ASSUME NEW id \in Nat PROVE PublishDone(id) \in Message
  BY DEF PublishDone, Message
<1>6. ASSUME NEW id \in Nat PROVE PublishOk(id) \in Message
  BY DEF PublishOk, AsU16, Message
<1>7. ASSUME NEW id \in Nat, NEW ns \in Namespace
      PROVE  PublishNamespace(id, ns) \in Message
  BY DEF PublishNamespace, Message
<1>8. ASSUME NEW id \in Nat, NEW ns \in Namespace
      PROVE  PublishNamespaceDone(id, ns) \in Message
  BY DEF PublishNamespaceDone, Message
<1> QED
  BY <1>1, <1>2, <1>3, <1>4, <1>5, <1>6, <1>7, <1>8

\* The fields a message of each type has.
LEMMA MessageFields ==
    ASSUME NEW m \in Message
    PROVE  /\ m.type \in {"ClientSetup", "ServerSetup"} => m.max_request_id \in Nat
           /\ m.type \in {"Subscribe", "SubscribeOk", "RequestError", "PublishOk", "PublishDone"}
                => m.request_id \in Nat
           /\ m.type = "SubscribeOk" => AgreedAlias(m) \in Nat
           /\ m.type = "PublishNamespace" => /\ m.request_id \in Nat \cup {None}
                                             /\ Draft <= 10 => m.request_id = None
                                             /\ m.namespace \in Namespace
  BY DEF Message, AgreedAlias

-----------------------------------------------------------------------------
(* Queues.                                                                 *)

LEMMA PeerType ==
    ASSUME NEW e \in Endpoint
    PROVE  Peer(e) \in Endpoint /\ Peer(e) # e /\ Peer(Peer(e)) = e
  BY DEF Endpoint, Peer

\* Sending and consuming leave queues of messages.
LEMMA SendType ==
    ASSUME control \in [Endpoint -> Seq(Message)], NEW e \in Endpoint,
           NEW m \in Message, Send(e, m)
    PROVE  control' \in [Endpoint -> Seq(Message)]
<1>1. Append(control[Peer(e)], m) \in Seq(Message)
  BY PeerType, AppendProperties
<1> QED
  BY <1>1, PeerType DEF Send

LEMMA HeadType ==
    ASSUME control \in [Endpoint -> Seq(Message)], NEW e \in Endpoint, control[e] # << >>
    PROVE  Head(control[e]) \in Message /\ Tail(control[e]) \in Seq(Message)
  BY HeadTailProperties

LEMMA ConsumeType ==
    ASSUME control \in [Endpoint -> Seq(Message)], NEW e \in Endpoint,
           control[e] # << >>, Consume(e)
    PROVE  control' \in [Endpoint -> Seq(Message)]
  BY HeadType DEF Consume

-----------------------------------------------------------------------------
(* Type correctness.                                                       *)

\* Inserting into one HashMap and removing from it keep it well typed.
LEMMA MapsPut ==
    ASSUME NEW K, NEW V, NEW f, Maps(f, K, V), NEW e \in Endpoint,
           NEW k \in K, NEW v \in V
    PROVE  Maps([f EXCEPT ![e] = Put(@, k, v)], K, V)
  BY DEF Maps, Put

LEMMA MapsReplace ==
    ASSUME NEW K, NEW V, NEW f, Maps(f, K, V), NEW e \in Endpoint, NEW g,
           DOMAIN g \subseteq K, \A k \in DOMAIN g : g[k] \in V,
           g = [k \in DOMAIN g |-> g[k]]
    PROVE  Maps([f EXCEPT ![e] = g], K, V)
<1> DEFINE h == [f EXCEPT ![e] = g]
<1>1. h[e] = g /\ \A x \in Endpoint \ {e} : h[x] = f[x]
  BY DEF Maps
<1>2. \A x \in Endpoint : h[x] = [k \in DOMAIN h[x] |-> h[x][k]]
  BY <1>1 DEF Maps
<1>3. h = [x \in Endpoint |-> h[x]]
  BY DEF Maps
<1>4. h = [x \in Endpoint |-> [k \in DOMAIN h[x] |-> h[x][k]]]
  BY <1>2, <1>3
<1>5. \A x \in Endpoint : DOMAIN h[x] \subseteq K /\ \A k \in DOMAIN h[x] : h[x][k] \in V
  BY <1>1 DEF Maps
<1> QED
  BY <1>4, <1>5 DEF Maps

LEMMA MapsWithout ==
    ASSUME NEW K, NEW V, NEW f, Maps(f, K, V), NEW e \in Endpoint, NEW S
    PROVE  Maps([f EXCEPT ![e] = Without(@, S)], K, V)
  BY DEF Maps, Without

LEMMA InitType == Init => TypeOK
<1> SUFFICES ASSUME Init PROVE TypeOK
  OBVIOUS
<1>1. \A K, V : Maps([e \in Endpoint |-> EmptyMap], K, V)
  BY DEF Maps, EmptyMap
<1>2. /\ OutMaxRequestId["client"] \in Nat
      /\ Endpoint = {"client", "server"}
  BY OutMaxAssumption DEF Endpoint
<1>3. control \in [Endpoint -> Seq(Message)]
  <2>1. /\ << ClientSetup(OutMaxRequestId["client"]) >> \in Seq(Message)
        /\ << >> \in Seq(Message)
    <3>1. ClientSetup(OutMaxRequestId["client"]) \in Message
      BY <1>2 DEF ClientSetup, Message
    <3> QED
      BY <3>1
  <2> QED
    BY <2>1 DEF Init
<1> QED
  BY <1>1, <1>3 DEF Init, TypeOK, InitialRequestId, NoVersion, PanicReason

LEMMA PanicType ==
    ASSUME TypeOK, NEW e \in Endpoint, NEW why \in PanicReason, Panic(e, why)
    PROVE  TypeOK'
  BY DEF TypeOK, Panic, setupVars, subscriberVars, publisherVars,
         announcerVars, listenerVars

LEMMA PollType ==
    ASSUME TypeOK, NEW e \in Endpoint, Poll(e)
    PROVE  TypeOK'
<1> USE DEF setupVars, subscriberVars, publisherVars, announcerVars, listenerVars
<1>a. ASSUME control[e] # << >>, Consume(e)
      PROVE  control' \in [Endpoint -> Seq(Message)]
  BY <1>a, ConsumeType DEF TypeOK
<1>b. ASSUME control[e] # << >>
      PROVE  Head(control[e]) \in Message
  BY <1>b, HeadType DEF TypeOK
<1>1. CASE RecvClientSetup(e)
  <2>1. CASE e = "server"
    <3>1. /\ Head(control[e]).max_request_id \in Nat
          /\ control[e] # << >>
      BY <1>1, <1>b, MessageFields DEF RecvClientSetup, Arrived
    <3>2. ServerSetup(OutMaxRequestId[e]) \in Message
      BY OutMaxAssumption DEF ServerSetup, Message
    <3>3. control' \in [Endpoint -> Seq(Message)]
      <4>1. /\ Tail(control[e]) \in Seq(Message)
            /\ Append(control[Peer(e)], ServerSetup(OutMaxRequestId[e])) \in Seq(Message)
        BY <3>1, <3>2, PeerType, HeadType, AppendProperties DEF TypeOK
      <4>2. control' = [x \in Endpoint |->
                          IF x = e THEN Tail(control[e])
                          ELSE Append(control[Peer(e)], ServerSetup(OutMaxRequestId[e]))]
        BY <1>1, <2>1 DEF RecvClientSetup, TypeOK, Endpoint, Peer
      <4> QED
        BY <4>1, <4>2
    <3>4. /\ selected_version' \in [Endpoint -> {NoVersion, Draft}]
          /\ max_request_id' \in [Endpoint -> Nat]
      BY <1>1, <2>1, <3>1 DEF RecvClientSetup, TypeOK
    <3> QED
      BY <1>1, <2>1, <3>3, <3>4 DEF RecvClientSetup, TypeOK
  <2>2. CASE e # "server"
    BY <1>1, <2>2, PanicType DEF RecvClientSetup, PanicReason
  <2> QED
    BY <2>1, <2>2
<1>2. CASE RecvServerSetup(e)
  <2>1. CASE e = "client"
    <3>1. /\ Head(control[e]).max_request_id \in Nat
          /\ control[e] # << >>
      BY <1>2, <1>b, MessageFields DEF RecvServerSetup, Arrived
    <3>2. control' \in [Endpoint -> Seq(Message)]
      BY <1>2, <2>1, <3>1, <1>a DEF RecvServerSetup
    <3>3. /\ selected_version' \in [Endpoint -> {NoVersion, Draft}]
          /\ max_request_id' \in [Endpoint -> Nat]
      BY <1>2, <2>1, <3>1 DEF RecvServerSetup, TypeOK
    <3> QED
      BY <1>2, <2>1, <3>2, <3>3 DEF RecvServerSetup, TypeOK
  <2>2. CASE e # "client"
    BY <1>2, <2>2, PanicType DEF RecvServerSetup, PanicReason
  <2> QED
    BY <2>1, <2>2
<1>3. CASE RecvSubscribe(e)
  <2>1. Head(control[e]).request_id \in Nat
    BY <1>3, <1>b, MessageFields DEF RecvSubscribe, Arrived
  <2>2. pending_received_subscriptions' \in [Endpoint -> SUBSET Nat]
    BY <1>3, <2>1 DEF RecvSubscribe, TypeOK, Inbox
  <2>3. control' \in [Endpoint -> Seq(Message)]
    BY <1>3, <1>a DEF RecvSubscribe, Arrived
  <2> QED
    BY <1>3, <2>2, <2>3 DEF RecvSubscribe, TypeOK
<1>4. CASE RecvSubscribeOk(e)
  <2> DEFINE m == Head(control[e])
  <2>0. /\ m.request_id \in Nat
        /\ AgreedAlias(m) \in Nat
        /\ control[e] # << >>
    BY <1>4, <1>b, MessageFields DEF RecvSubscribeOk, Arrived
  <2> HIDE DEF m
  <2>1. CASE m.request_id \in pending_subscribe[e]
    <3>1. /\ pending_subscribe' = [pending_subscribe EXCEPT ![e] = @ \ {m.request_id}]
          /\ in_tracks' = [in_tracks EXCEPT ![e] = Put(@, AgreedAlias(m), "open")]
          /\ active_subscriptions' =
                 [active_subscriptions EXCEPT ![e] = Put(@, m.request_id, AgreedAlias(m))]
          /\ pending_subscribe_responses' =
                 [pending_subscribe_responses EXCEPT ![e] = Put(@, m.request_id, AgreedAlias(m))]
          /\ Consume(e)
          /\ UNCHANGED <<setupVars, next_request_id, publisherVars, announcerVars,
                         listenerVars, panicked>>
      BY <1>4, <2>1 DEF RecvSubscribeOk, m
    <3>2. control' \in [Endpoint -> Seq(Message)]
      BY <3>1, <2>0, <1>a
    <3>3. Maps(in_tracks', Nat, {"open", "done"})
      BY <3>1, <2>0, MapsPut DEF TypeOK
    <3>4. Maps(active_subscriptions', Nat, Nat)
      BY <3>1, <2>0, MapsPut DEF TypeOK
    <3>5. Maps(pending_subscribe_responses', Nat, Nat \cup {None})
      BY <3>1, <2>0, MapsPut DEF TypeOK
    <3> QED
      BY <3>1, <3>2, <3>3, <3>4, <3>5 DEF TypeOK
  <2>2. CASE m.request_id \notin pending_subscribe[e]
    <3>1. Panic(e, "SUBSCRIBE_OK unwrap")
      BY <1>4, <2>2 DEF RecvSubscribeOk, m
    <3> QED
      BY <3>1, PanicType DEF PanicReason
  <2> QED
    BY <2>1, <2>2
<1>5. CASE RecvRequestError(e)
  <2> DEFINE m == Head(control[e])
  <2>0. m.request_id \in Nat /\ control[e] # << >>
    BY <1>5, <1>b, MessageFields DEF RecvRequestError, Arrived
  <2> HIDE DEF m
  <2>1. CASE m.request_id \in pending_subscribe[e]
    <3>1. /\ pending_subscribe' = [pending_subscribe EXCEPT ![e] = @ \ {m.request_id}]
          /\ pending_subscribe_responses' =
                 [pending_subscribe_responses EXCEPT ![e] = Put(@, m.request_id, None)]
          /\ Consume(e)
          /\ UNCHANGED <<setupVars, next_request_id, active_subscriptions, in_tracks,
                         publisherVars, announcerVars, listenerVars, panicked>>
      BY <1>5, <2>1 DEF RecvRequestError, m
    <3>2. control' \in [Endpoint -> Seq(Message)]
      BY <3>1, <2>0, <1>a
    <3>3. Maps(pending_subscribe_responses', Nat, Nat \cup {None})
      BY <3>1, <2>0, MapsPut DEF TypeOK
    <3> QED
      BY <3>1, <3>2, <3>3 DEF TypeOK
  <2>2. CASE m.request_id \notin pending_subscribe[e]
    <3>1. Panic(e, "REQUEST_ERROR unwrap")
      BY <1>5, <2>2 DEF RecvRequestError, m
    <3> QED
      BY <3>1, PanicType DEF PanicReason
  <2> QED
    BY <2>1, <2>2
<1>6. CASE RecvPublishDone(e)
  <2>1. control' \in [Endpoint -> Seq(Message)]
    BY <1>6, <1>a DEF RecvPublishDone, Arrived
  <2>2. Maps(in_tracks', Nat, {"open", "done"})
    <3> DEFINE g == MarkDone(e, Head(control[e]).request_id)
    <3>1. /\ DOMAIN g = DOMAIN in_tracks[e]
          /\ \A a \in DOMAIN g : g[a] \in {"open", "done"}
          /\ g = [a \in DOMAIN g |-> g[a]]
      <4>1. \A a \in DOMAIN in_tracks[e] : in_tracks[e][a] \in {"open", "done"}
        BY DEF TypeOK, Maps
      <4> QED
        BY <4>1 DEF MarkDone
    <3>2. in_tracks' = [in_tracks EXCEPT ![e] = g]
      BY <1>6 DEF RecvPublishDone
    <3>3. DOMAIN in_tracks[e] \subseteq Nat
      BY DEF TypeOK, Maps
    <3>4. Maps(in_tracks, Nat, {"open", "done"})
      BY DEF TypeOK
    <3> HIDE DEF g
    <3> QED
      BY <3>1, <3>2, <3>3, <3>4, MapsReplace
  <2> QED
    BY <1>6, <2>1, <2>2 DEF RecvPublishDone, TypeOK
<1>7. CASE RecvPublishNamespace(e)
  <2> DEFINE m == Head(control[e])
  <2>0. /\ m.request_id \in Nat \cup {None}
        /\ m.namespace \in Namespace
        /\ control[e] # << >>
    BY <1>7, <1>b, MessageFields DEF RecvPublishNamespace, Arrived
  <2> HIDE DEF m
  <2>1. CASE PublishNamespaceFault(e, m) = "no"
    <3>1. /\ next_expected_request_id' = [next_expected_request_id EXCEPT ![e] = @ + 2]
          /\ pending_received_publish_namespace' =
                 [pending_received_publish_namespace EXCEPT
                    ![e] = Put(@, m.request_id, m.namespace)]
          /\ Consume(e)
          /\ UNCHANGED <<setupVars, next_request_id, subscriberVars, publisherVars,
                         announcerVars, received_namespaces, panicked>>
      BY <1>7, <2>1 DEF RecvPublishNamespace, m
    <3>2. m.request_id \in Nat
      BY <2>0, <2>1 DEF PublishNamespaceFault
    <3>3. control' \in [Endpoint -> Seq(Message)]
      BY <3>1, <2>0, <1>a
    <3>4. Maps(pending_received_publish_namespace', Nat, Namespace)
      BY <3>1, <3>2, <2>0, MapsPut DEF TypeOK
    <3>5. next_expected_request_id' \in [Endpoint -> Nat]
      BY <3>1 DEF TypeOK
    <3> QED
      BY <3>1, <3>3, <3>4, <3>5 DEF TypeOK
  <2>2. CASE PublishNamespaceFault(e, m) # "no"
    <3>1. Panic(e, PublishNamespaceFault(e, m))
      BY <1>7, <2>2 DEF RecvPublishNamespace, m
    <3>2. PublishNamespaceFault(e, m) \in PanicReason
      BY DEF PublishNamespaceFault, PanicReason
    <3> QED
      BY <3>1, <3>2, PanicType
  <2> QED
    BY <2>1, <2>2
<1>8. CASE RecvPublishOk(e)
  <2> DEFINE id == Head(control[e]).request_id
  <2>0. id \in Nat /\ control[e] # << >>
    BY <1>8, <1>b, MessageFields DEF RecvPublishOk, Arrived
  <2> HIDE DEF id
  <2>1. CASE id \in DOMAIN pending_sent_publish_namespace[e]
    <3>1. /\ sent_namespaces' =
                 [sent_namespaces EXCEPT
                    ![e] = Put(@, id, pending_sent_publish_namespace[e][id])]
          /\ pending_sent_publish_namespace' =
                 [pending_sent_publish_namespace EXCEPT ![e] = Without(@, {id})]
          /\ Consume(e)
          /\ UNCHANGED <<setupVars, next_request_id, subscriberVars, publisherVars,
                         listenerVars, panicked>>
      BY <1>8, <2>1 DEF RecvPublishOk, id
    <3>2. control' \in [Endpoint -> Seq(Message)]
      BY <3>1, <2>0, <1>a
    <3>3. pending_sent_publish_namespace[e][id] \in Namespace
      BY <2>1 DEF TypeOK, Maps
    <3>4. Maps(sent_namespaces', Nat, Namespace)
      BY <3>1, <3>3, <2>0, MapsPut DEF TypeOK
    <3>5. Maps(pending_sent_publish_namespace', Nat, Namespace)
      BY <3>1, MapsWithout DEF TypeOK
    <3> QED
      BY <3>1, <3>2, <3>4, <3>5 DEF TypeOK
  <2>2. CASE id \notin DOMAIN pending_sent_publish_namespace[e]
    <3>1. Panic(e, "PUBLISH_OK unwrap")
      BY <1>8, <2>2 DEF RecvPublishOk, id
    <3> QED
      BY <3>1, PanicType DEF PanicReason
  <2> QED
    BY <2>1, <2>2
<1>9. CASE RecvPublishNamespaceDone(e)
  <2>1. control' \in [Endpoint -> Seq(Message)]
    BY <1>9, <1>a DEF RecvPublishNamespaceDone, Arrived
  <2>2. Maps(received_namespaces', Nat, Namespace)
    BY <1>9, MapsWithout DEF RecvPublishNamespaceDone, TypeOK
  <2> QED
    BY <1>9, <2>1, <2>2 DEF RecvPublishNamespaceDone, TypeOK
<1> QED
  BY <1>1, <1>2, <1>3, <1>4, <1>5, <1>6, <1>7, <1>8, <1>9 DEF Poll

LEMMA CallType ==
    ASSUME TypeOK, NEW e \in Endpoint, Call(e)
    PROVE  TypeOK'
<1> USE DEF setupVars, subscriberVars, publisherVars, announcerVars, listenerVars
<1>a. ASSUME NEW m \in Message, Send(e, m)
      PROVE  control' \in [Endpoint -> Seq(Message)]
  BY <1>a, SendType DEF TypeOK
<1>1. CASE SubscribeCall(e)
  <2>1. next_request_id[e] \in Nat
    BY DEF TypeOK
  <2>2. control' \in [Endpoint -> Seq(Message)]
    BY <1>1, <2>1, <1>a, ConstructorsType DEF SubscribeCall
  <2>3. /\ pending_subscribe' \in [Endpoint -> SUBSET Nat]
        /\ next_request_id' \in [Endpoint -> Nat]
    BY <1>1, <2>1 DEF SubscribeCall, TypeOK
  <2> QED
    BY <1>1, <2>2, <2>3 DEF SubscribeCall, TypeOK
<1>2. ASSUME NEW ns \in Namespace, PublishNamespaceCall(e, ns)
      PROVE  TypeOK'
  <2>1. next_request_id[e] \in Nat
    BY DEF TypeOK
  <2>2. control' \in [Endpoint -> Seq(Message)]
    BY <1>2, <2>1, <1>a, ConstructorsType DEF PublishNamespaceCall
  <2>3. Maps(pending_sent_publish_namespace', Nat, Namespace)
    BY <1>2, <2>1, MapsPut DEF PublishNamespaceCall, TypeOK
  <2>4. next_request_id' \in [Endpoint -> Nat]
    BY <1>2, <2>1 DEF PublishNamespaceCall, TypeOK
  <2> QED
    BY <1>2, <2>2, <2>3, <2>4 DEF PublishNamespaceCall, TypeOK
<1>3. ASSUME NEW id \in pending_received_subscriptions[e], AcceptSubscription(e, id)
      PROVE  TypeOK'
  <2>1. id \in Nat /\ GrantedAlias(e, id) \in Nat
    BY DEF TypeOK, GrantedAlias
  <2>2. control' \in [Endpoint -> Seq(Message)]
    BY <1>3, <2>1, <1>a, ConstructorsType DEF AcceptSubscription
  <2>3. /\ pending_received_subscriptions' \in [Endpoint -> SUBSET Nat]
        /\ out_tracks' \in [Endpoint -> SUBSET Nat]
    BY <1>3, <2>1 DEF AcceptSubscription, TypeOK, Unanswered
  <2>4. next_out_track_alias' \in [Endpoint -> Nat]
    BY <1>3 DEF AcceptSubscription, TypeOK
  <2>5. Maps(accepted', Nat, Nat)
    BY <1>3, <2>1, MapsPut DEF AcceptSubscription, TypeOK
  <2> QED
    BY <1>3, <2>2, <2>3, <2>4, <2>5 DEF AcceptSubscription, TypeOK
<1>4. ASSUME NEW id \in pending_received_subscriptions[e], RejectSubscription(e, id)
      PROVE  TypeOK'
  <2>1. CASE RequestErrorSupported
    <3>1. id \in Nat
      BY DEF TypeOK
    <3>2. control' \in [Endpoint -> Seq(Message)]
      BY <1>4, <2>1, <3>1, <1>a, ConstructorsType DEF RejectSubscription
    <3>3. pending_received_subscriptions' \in [Endpoint -> SUBSET Nat]
      <4>1. pending_received_subscriptions'
                = [pending_received_subscriptions EXCEPT ![e] = @ \ {id}]
        BY <1>4, <2>1 DEF RejectSubscription, Unanswered
      <4> QED
        BY <4>1 DEF TypeOK
    <3> QED
      BY <1>4, <2>1, <3>2, <3>3 DEF RejectSubscription, TypeOK
  <2>2. CASE ~RequestErrorSupported
    BY <1>4, <2>2, PanicType DEF RejectSubscription, PanicReason
  <2> QED
    BY <2>1, <2>2
<1>5. ASSUME NEW id \in DOMAIN pending_received_publish_namespace[e],
             AcceptNamespacePublish(e, id)
      PROVE  TypeOK'
  <2>1. /\ id \in Nat
        /\ pending_received_publish_namespace[e][id] \in Namespace
    BY DEF TypeOK, Maps
  <2>2. control' \in [Endpoint -> Seq(Message)]
    BY <1>5, <2>1, <1>a, ConstructorsType DEF AcceptNamespacePublish
  <2>3. Maps(pending_received_publish_namespace', Nat, Namespace)
    BY <1>5, MapsWithout DEF AcceptNamespacePublish, TypeOK, Offered
  <2>4. Maps(received_namespaces', Nat, Namespace)
    BY <1>5, <2>1, MapsPut DEF AcceptNamespacePublish, TypeOK
  <2> QED
    BY <1>5, <2>2, <2>3, <2>4 DEF AcceptNamespacePublish, TypeOK
<1>6. ASSUME NEW id, PollSubscribeResponse(e, id)
      PROVE  TypeOK'
  <2>1. Maps(pending_subscribe_responses', Nat, Nat \cup {None})
    BY <1>6, MapsWithout DEF PollSubscribeResponse, TypeOK
  <2> QED
    BY <1>6, <2>1 DEF PollSubscribeResponse, TypeOK
<1>7. ASSUME NEW id \in DOMAIN accepted[e], PublishDoneCall(e, id)
      PROVE  TypeOK'
  <2>1. id \in Nat
    BY DEF TypeOK, Maps
  <2>2. control' \in [Endpoint -> Seq(Message)]
    BY <1>7, <2>1, <1>a, ConstructorsType DEF PublishDoneCall
  <2>3. ended' \in [Endpoint -> SUBSET Nat]
    BY <1>7, <2>1 DEF PublishDoneCall, TypeOK
  <2> QED
    BY <1>7, <2>2, <2>3 DEF PublishDoneCall, TypeOK
<1>8. ASSUME NEW id \in DOMAIN sent_namespaces[e], PublishNamespaceDoneCall(e, id)
      PROVE  TypeOK'
  <2>1. id \in Nat /\ sent_namespaces[e][id] \in Namespace
    BY DEF TypeOK, Maps
  <2>2. control' \in [Endpoint -> Seq(Message)]
    BY <1>8, <2>1, <1>a, ConstructorsType DEF PublishNamespaceDoneCall
  <2>3. Maps(sent_namespaces', Nat, Namespace)
    BY <1>8, MapsWithout DEF PublishNamespaceDoneCall, TypeOK
  <2> QED
    BY <1>8, <2>2, <2>3 DEF PublishNamespaceDoneCall, TypeOK
<1> QED
  BY <1>1, <1>2, <1>3, <1>4, <1>5, <1>6, <1>7, <1>8
  DEF Call, AnswerSubscription, AnswerNamespace

\* The state of the two sessions and their control stream is always well typed.
THEOREM TypeCorrect == Spec => []TypeOK
<1>1. TypeOK /\ [Next]_vars => TypeOK'
  <2> SUFFICES ASSUME TypeOK, [Next]_vars PROVE TypeOK'
    OBVIOUS
  <2>1. CASE Next
    BY <2>1, PollType, CallType DEF Next
  <2>2. CASE UNCHANGED vars
    BY <2>2 DEF TypeOK, vars, setupVars, subscriberVars, publisherVars,
                announcerVars, listenerVars
  <2> QED
    BY <2>1, <2>2
<1> QED
  BY InitType, <1>1, PTL DEF Spec
=============================================================================
