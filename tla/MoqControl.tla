----------------------------- MODULE MoqControl -----------------------------
(***************************************************************************)
(* The control plane of one MoQ transport session: the two                 *)
(* MoqTransportSession values of quiche_moq/src/session.rs, a client and a *)
(* server, joined by the two directions of the bidirectional control       *)
(* stream.  QUIC delivers each direction reliably and in order, so each is *)
(* a FIFO queue.  One action stands for one call of the session's API or   *)
(* for one control message handled by poll(), which handles at most one    *)
(* per call.                                                               *)
(*                                                                         *)
(* A failed assert!, unwrap() or unimplemented!() ends the process.  It is *)
(* modelled: `panicked' records which one failed, and the endpoint takes   *)
(* no further step.                                                        *)
(***************************************************************************)
EXTENDS Integers, Sequences

CONSTANTS
    Namespace,              \* track namespaces an application announces
    Draft,                  \* Config::setup_version, the same on both sides
    OutMaxRequestId,        \* out_max_request_id of each endpoint
    IgnoreMaxRequestQuota,  \* Config::ignore_max_request_quota of each endpoint
    RequestCap              \* bound of the model: request ids stay below it

Endpoint == {"client", "server"}
Peer(e)  == IF e = "client" THEN "server" ELSE "client"

ASSUME DraftAssumption ==
    Draft \in 7..16

\* The code fixes these at 100 for a client and 0 for a server; all that is
\* used is that an accepted PUBLISH_NAMESPACE has an id below 2^16.
ASSUME OutMaxAssumption ==
    /\ OutMaxRequestId \in [Endpoint -> Nat]
    /\ \A e \in Endpoint : OutMaxRequestId[e] < 65536

ASSUME QuotaAssumption ==
    IgnoreMaxRequestQuota \in [Endpoint -> BOOLEAN]

ASSUME CapAssumption ==
    RequestCap \in Nat

VARIABLES
    selected_version,
    next_request_id,
    next_expected_request_id,
    max_request_id,
    pending_subscribe,
    pending_subscribe_responses,
    active_subscriptions,
    in_tracks,
    pending_received_subscriptions,
    next_out_track_alias,
    out_tracks,
    pending_sent_publish_namespace,
    sent_namespaces,
    pending_received_publish_namespace,
    received_namespaces,
    accepted,       \* application: request_id -> track_alias of what it accepted
    ended,          \* application: request ids it has sent PUBLISH_DONE for
    control,        \* control[e]: control messages on their way to e
    panicked        \* "no", or the assertion that ended the process

setupVars == <<selected_version, max_request_id>>
subscriberVars == <<pending_subscribe, pending_subscribe_responses,
                    active_subscriptions, in_tracks>>
publisherVars == <<pending_received_subscriptions, next_out_track_alias,
                   out_tracks, accepted, ended>>
announcerVars == <<pending_sent_publish_namespace, sent_namespaces>>
listenerVars == <<pending_received_publish_namespace, received_namespaces,
                  next_expected_request_id>>

vars == <<setupVars, next_request_id, subscriberVars, publisherVars,
          announcerVars, listenerVars, control, panicked>>

-----------------------------------------------------------------------------
(* Versions and messages.                                                  *)

NoVersion == 0

\* An Option<RequestId> or Option<TrackAlias> that is None.
None == -1

InitialRequestId(e) == IF e = "client" THEN 0 ELSE 1

\* Up to draft 11 the subscriber chooses the alias, from then on the publisher.
SubscriberChoosesAlias == Draft <= 11

\* An id written as u16, as PUBLISH_OK does whatever the draft.
AsU16(id) == id % 65536

ClientSetup(max) == [type |-> "ClientSetup", max_request_id |-> max]

ServerSetup(max) == [type |-> "ServerSetup", max_request_id |-> max]

\* Variant: SUBSCRIBE has the subscriber's alias whatever the draft.
SubscribeWithAlias(id) == [type |-> "Subscribe", request_id |-> id, track_alias |-> id]

Subscribe(id) ==
    [type |-> "Subscribe", request_id |-> id,
     track_alias |-> IF SubscriberChoosesAlias THEN id ELSE None]

SubscribeOk(id, alias) ==
    [type |-> "SubscribeOk", request_id |-> id,
     track_alias |-> IF SubscriberChoosesAlias THEN None ELSE alias]

RequestError(id) == [type |-> "RequestError", request_id |-> id]

\* PublishDoneMessage::new always writes a stream count of 0.
PublishDone(id) == [type |-> "PublishDone", request_id |-> id, stream_count |-> 0]

PublishNamespace(id, ns) ==
    [type |-> "PublishNamespace",
     request_id |-> IF Draft <= 10 THEN None ELSE id, namespace |-> ns]

PublishOk(id) == [type |-> "PublishOk", request_id |-> AsU16(id)]

\* Up to draft 15 the namespace is on the wire, from then on the request id.
PublishNamespaceDone(id, ns) ==
    IF Draft <= 15
    THEN [type |-> "PublishNamespaceDone", namespace |-> ns]
    ELSE [type |-> "PublishNamespaceDone", request_id |-> id]

\* The drafts whose REQUEST_ERROR the wire crate can encode and decode.
RequestErrorSupported == Draft <= 13

-----------------------------------------------------------------------------
(* HashMaps, the control stream and the ends of a process.                 *)

EmptyMap == [x \in {} |-> None]
Put(f, k, v) == [x \in DOMAIN f \cup {k} |-> IF x = k THEN v ELSE f[x]]
Without(f, S) == [x \in DOMAIN f \ S |-> f[x]]

Running(e) == panicked[e] = "no"

\* The helper hands out a MoqHandle only in State::Moq, once initialized()
\* holds: that is when an application can call the session.
Callable(e) == Running(e) /\ selected_version[e] # NoVersion

\* Variant: messages sent later can arrive earlier.
SendAhead(e, m) == control' = [control EXCEPT ![Peer(e)] = << m >> \o @]

Send(e, m) == control' = [control EXCEPT ![Peer(e)] = Append(@, m)]

\* Variant: poll() waits until the session is initialized.
ArrivedInSession(e, type) ==
    Callable(e) /\ control[e] # << >> /\ Head(control[e]).type = type

\* poll() has a whole control message to parse, of this type.
Arrived(e, type) ==
    /\ Running(e)
    /\ control[e] # << >>
    /\ Head(control[e]).type = type

\* Variant: what was read behind the message is dropped with it.
ConsumeAll(e) == control' = [control EXCEPT ![e] = << >>]

Consume(e) == control' = [control EXCEPT ![e] = Tail(@)]

\* The process ends; nothing of its state is observable afterwards.
Panic(e, why) ==
    /\ panicked' = [panicked EXCEPT ![e] = why]
    /\ UNCHANGED <<setupVars, next_request_id, subscriberVars, publisherVars,
                   announcerVars, listenerVars, control>>

-----------------------------------------------------------------------------
(* connect() and accept(): the client has opened the control stream and    *)
(* written CLIENT_SETUP, the server knows no control stream yet.           *)

Init ==
    /\ selected_version = [e \in Endpoint |-> NoVersion]
    /\ next_request_id = [e \in Endpoint |-> InitialRequestId(e)]
    /\ next_expected_request_id = [e \in Endpoint |-> InitialRequestId(Peer(e))]
    /\ max_request_id = [e \in Endpoint |-> 0]
    /\ pending_subscribe = [e \in Endpoint |-> {}]
    /\ pending_subscribe_responses = [e \in Endpoint |-> EmptyMap]
    /\ active_subscriptions = [e \in Endpoint |-> EmptyMap]
    /\ in_tracks = [e \in Endpoint |-> EmptyMap]
    /\ pending_received_subscriptions = [e \in Endpoint |-> {}]
    /\ next_out_track_alias = [e \in Endpoint |-> 0]
    /\ out_tracks = [e \in Endpoint |-> {}]
    /\ pending_sent_publish_namespace = [e \in Endpoint |-> EmptyMap]
    /\ sent_namespaces = [e \in Endpoint |-> EmptyMap]
    /\ pending_received_publish_namespace = [e \in Endpoint |-> EmptyMap]
    /\ received_namespaces = [e \in Endpoint |-> EmptyMap]
    /\ accepted = [e \in Endpoint |-> EmptyMap]
    /\ ended = [e \in Endpoint |-> {}]
    /\ control = [e \in Endpoint |->
                    IF e = "server"
                    THEN << ClientSetup(OutMaxRequestId["client"]) >>
                    ELSE << >>]
    /\ panicked = [e \in Endpoint |-> "no"]

-----------------------------------------------------------------------------
(* Setup messages.                                                         *)

\* The first readable bidirectional stream becomes the control stream, and
\* SERVER_SETUP is the answer.
RecvClientSetup(e) ==
    /\ Arrived(e, "ClientSetup")
    /\ IF e = "server"
       THEN /\ selected_version' = [selected_version EXCEPT ![e] = Draft]
            /\ max_request_id' = [max_request_id EXCEPT
                                    ![e] = Head(control[e]).max_request_id]
            /\ control' = [control EXCEPT
                             ![e] = Tail(@),
                             ![Peer(e)] = Append(@, ServerSetup(OutMaxRequestId[e]))]
            /\ UNCHANGED <<next_request_id, subscriberVars, publisherVars,
                           announcerVars, listenerVars, panicked>>
       ELSE Panic(e, "client received CLIENT_SETUP")

RecvServerSetup(e) ==
    /\ Arrived(e, "ServerSetup")
    /\ IF e = "client"
       THEN /\ selected_version' = [selected_version EXCEPT ![e] = Draft]
            /\ max_request_id' = [max_request_id EXCEPT
                                    ![e] = Head(control[e]).max_request_id]
            /\ Consume(e)
            /\ UNCHANGED <<next_request_id, subscriberVars, publisherVars,
                           announcerVars, listenerVars, panicked>>
       ELSE Panic(e, "server received SERVER_SETUP")

-----------------------------------------------------------------------------
(* Subscriptions: the subscriber's calls and the publisher's answers.      *)

RequestBlocked(e) ==
    /\ next_request_id[e] > max_request_id[e]
    /\ ~IgnoreMaxRequestQuota[e]

\* subscribe(); a blocked call returns Error::RequestBlocked and changes nothing.
SubscribeCall(e) ==
    LET id == next_request_id[e] IN
    /\ Callable(e)
    /\ ~RequestBlocked(e)
    /\ id < RequestCap
    /\ Send(e, Subscribe(id))
    /\ pending_subscribe' = [pending_subscribe EXCEPT ![e] = @ \cup {id}]
    /\ next_request_id' = [next_request_id EXCEPT ![e] = @ + 2]
    /\ UNCHANGED <<setupVars, pending_subscribe_responses, active_subscriptions,
                   in_tracks, publisherVars, announcerVars, listenerVars, panicked>>

\* Variant: an inbox of one, the next request replaces an unanswered one.
InboxOfOne(e, id) == {id}

Inbox(e, id) == pending_received_subscriptions[e] \cup {id}

\* The id is not compared with next_expected_request_id, which stays.
RecvSubscribe(e) ==
    /\ Arrived(e, "Subscribe")
    /\ pending_received_subscriptions' =
           [pending_received_subscriptions EXCEPT
              ![e] = Inbox(e, Head(control[e]).request_id)]
    /\ Consume(e)
    /\ UNCHANGED <<setupVars, next_request_id, subscriberVars, next_out_track_alias,
                   out_tracks, accepted, ended, announcerVars, listenerVars, panicked>>

\* Variant: the publisher forgets to advance its next alias.
SameAlias(e, id) == IF SubscriberChoosesAlias THEN id ELSE 0

\* Variant: the publisher chooses the alias whatever the draft.
PublisherAlias(e, id) == next_out_track_alias[e]

\* The alias an accepted subscription gets: the subscriber's own choice, its
\* request id, or the publisher's next one.
GrantedAlias(e, id) ==
    IF SubscriberChoosesAlias THEN id ELSE next_out_track_alias[e]

\* Variant: an answered request is not taken out of the inbox.
StillUnanswered(e, id) == pending_received_subscriptions[e]

Unanswered(e, id) == pending_received_subscriptions[e] \ {id}

AcceptSubscription(e, id) ==
    LET alias == GrantedAlias(e, id) IN
    /\ Callable(e)
    /\ id \in pending_received_subscriptions[e]
    /\ pending_received_subscriptions' =
           [pending_received_subscriptions EXCEPT ![e] = Unanswered(e, id)]
    /\ next_out_track_alias' = [next_out_track_alias EXCEPT
                                  ![e] = IF SubscriberChoosesAlias THEN @ ELSE @ + 1]
    /\ Send(e, SubscribeOk(id, alias))
    /\ out_tracks' = [out_tracks EXCEPT ![e] = @ \cup {alias}]
    /\ accepted' = [accepted EXCEPT ![e] = Put(@, id, alias)]
    /\ UNCHANGED <<setupVars, next_request_id, subscriberVars, ended,
                   announcerVars, listenerVars, panicked>>

RejectSubscription(e, id) ==
    /\ Callable(e)
    /\ id \in pending_received_subscriptions[e]
    /\ IF RequestErrorSupported
       THEN /\ pending_received_subscriptions' =
                   [pending_received_subscriptions EXCEPT ![e] = Unanswered(e, id)]
            /\ Send(e, RequestError(id))
            /\ UNCHANGED <<setupVars, next_request_id, subscriberVars,
                           next_out_track_alias, out_tracks, accepted, ended,
                           announcerVars, listenerVars, panicked>>
       ELSE Panic(e, "REQUEST_ERROR not implemented")

\* Variant: the alias is taken from SUBSCRIBE_OK whatever the draft.
AliasOfOk(m) == m.track_alias

\* The alias under which the subscriber files the track.
AgreedAlias(m) ==
    IF SubscriberChoosesAlias THEN m.request_id ELSE m.track_alias

RecvSubscribeOk(e) ==
    LET m == Head(control[e])
        alias == AgreedAlias(m) IN
    /\ Arrived(e, "SubscribeOk")
    /\ IF m.request_id \in pending_subscribe[e]
       THEN /\ pending_subscribe' = [pending_subscribe EXCEPT ![e] = @ \ {m.request_id}]
            /\ in_tracks' = [in_tracks EXCEPT ![e] = Put(@, alias, "open")]
            /\ active_subscriptions' =
                   [active_subscriptions EXCEPT ![e] = Put(@, m.request_id, alias)]
            /\ pending_subscribe_responses' =
                   [pending_subscribe_responses EXCEPT ![e] = Put(@, m.request_id, alias)]
            /\ Consume(e)
            /\ UNCHANGED <<setupVars, next_request_id, publisherVars, announcerVars,
                           listenerVars, panicked>>
       ELSE Panic(e, "SUBSCRIBE_OK unwrap")

RecvRequestError(e) ==
    LET m == Head(control[e]) IN
    /\ Arrived(e, "RequestError")
    /\ IF m.request_id \in pending_subscribe[e]
       THEN /\ pending_subscribe' = [pending_subscribe EXCEPT ![e] = @ \ {m.request_id}]
            /\ pending_subscribe_responses' =
                   [pending_subscribe_responses EXCEPT ![e] = Put(@, m.request_id, None)]
            /\ Consume(e)
            /\ UNCHANGED <<setupVars, next_request_id, active_subscriptions, in_tracks,
                           publisherVars, announcerVars, listenerVars, panicked>>
       ELSE Panic(e, "REQUEST_ERROR unwrap")

PollSubscribeResponse(e, id) ==
    /\ Callable(e)
    /\ id \in DOMAIN pending_subscribe_responses[e]
    /\ pending_subscribe_responses' =
           [pending_subscribe_responses EXCEPT ![e] = Without(@, {id})]
    /\ UNCHANGED <<setupVars, next_request_id, pending_subscribe, active_subscriptions,
                   in_tracks, publisherVars, announcerVars, listenerVars, control, panicked>>

\* publish_done(); an application calls it once for what it accepted.
PublishDoneCall(e, id) ==
    /\ Callable(e)
    /\ id \in DOMAIN accepted[e] \ ended[e]
    /\ ended' = [ended EXCEPT ![e] = @ \cup {id}]
    /\ Send(e, PublishDone(id))
    /\ UNCHANGED <<setupVars, next_request_id, subscriberVars, next_out_track_alias,
                   pending_received_subscriptions, out_tracks, accepted,
                   announcerVars, listenerVars, panicked>>

\* mark_done() on the track of the subscription, if there is one.
MarkDone(e, id) ==
    [a \in DOMAIN in_tracks[e] |->
        IF id \in DOMAIN active_subscriptions[e] /\ a = active_subscriptions[e][id]
        THEN "done" ELSE in_tracks[e][a]]

RecvPublishDone(e) ==
    /\ Arrived(e, "PublishDone")
    /\ in_tracks' = [in_tracks EXCEPT ![e] = MarkDone(e, Head(control[e]).request_id)]
    /\ Consume(e)
    /\ UNCHANGED <<setupVars, next_request_id, pending_subscribe, active_subscriptions,
                   pending_subscribe_responses, publisherVars, announcerVars,
                   listenerVars, panicked>>

-----------------------------------------------------------------------------
(* Namespaces: announcing, accepting and withdrawing.                      *)

\* publish_namespace(); the request quota is not consulted.
PublishNamespaceCall(e, ns) ==
    LET id == next_request_id[e] IN
    /\ Callable(e)
    /\ id < RequestCap
    /\ Send(e, PublishNamespace(id, ns))
    /\ pending_sent_publish_namespace' =
           [pending_sent_publish_namespace EXCEPT ![e] = Put(@, id, ns)]
    /\ next_request_id' = [next_request_id EXCEPT ![e] = @ + 2]
    /\ UNCHANGED <<setupVars, subscriberVars, publisherVars, sent_namespaces,
                   listenerVars, panicked>>

\* Which of the three assertions a received PUBLISH_NAMESPACE fails, if any.
PublishNamespaceFault(e, m) ==
    CASE m.request_id = None -> "PUBLISH_NAMESPACE without request id"
      [] m.request_id > OutMaxRequestId[e] -> "INVALID_REQUEST_ID quota"
      [] m.request_id \in 0..OutMaxRequestId[e] \ {next_expected_request_id[e]}
            -> "INVALID_REQUEST_ID order"
      [] OTHER -> "no"

RecvPublishNamespace(e) ==
    LET m == Head(control[e])
        fault == PublishNamespaceFault(e, m) IN
    /\ Arrived(e, "PublishNamespace")
    /\ IF fault = "no"
       THEN /\ next_expected_request_id' = [next_expected_request_id EXCEPT ![e] = @ + 2]
            /\ pending_received_publish_namespace' =
                   [pending_received_publish_namespace EXCEPT
                      ![e] = Put(@, m.request_id, m.namespace)]
            /\ Consume(e)
            /\ UNCHANGED <<setupVars, next_request_id, subscriberVars, publisherVars,
                           announcerVars, received_namespaces, panicked>>
       ELSE Panic(e, fault)

\* Variant: an accepted announcement is offered to the application again.
StillOffered(e, id) == pending_received_publish_namespace[e]

Offered(e, id) == Without(pending_received_publish_namespace[e], {id})

AcceptNamespacePublish(e, id) ==
    /\ Callable(e)
    /\ id \in DOMAIN pending_received_publish_namespace[e]
    /\ Send(e, PublishOk(id))
    /\ pending_received_publish_namespace' =
           [pending_received_publish_namespace EXCEPT ![e] = Offered(e, id)]
    /\ received_namespaces' =
           [received_namespaces EXCEPT
              ![e] = Put(@, id, pending_received_publish_namespace[e][id])]
    /\ UNCHANGED <<setupVars, next_request_id, subscriberVars, publisherVars,
                   announcerVars, next_expected_request_id, panicked>>

RecvPublishOk(e) ==
    LET id == Head(control[e]).request_id IN
    /\ Arrived(e, "PublishOk")
    /\ IF id \in DOMAIN pending_sent_publish_namespace[e]
       THEN /\ sent_namespaces' =
                   [sent_namespaces EXCEPT
                      ![e] = Put(@, id, pending_sent_publish_namespace[e][id])]
            /\ pending_sent_publish_namespace' =
                   [pending_sent_publish_namespace EXCEPT ![e] = Without(@, {id})]
            /\ Consume(e)
            /\ UNCHANGED <<setupVars, next_request_id, subscriberVars, publisherVars,
                           listenerVars, panicked>>
       ELSE Panic(e, "PUBLISH_OK unwrap")

\* publish_namespace_done(); returns silently unless the peer has accepted.
PublishNamespaceDoneCall(e, id) ==
    /\ Callable(e)
    /\ id \in DOMAIN sent_namespaces[e]
    /\ sent_namespaces' = [sent_namespaces EXCEPT ![e] = Without(@, {id})]
    /\ Send(e, PublishNamespaceDone(id, sent_namespaces[e][id]))
    /\ UNCHANGED <<setupVars, next_request_id, subscriberVars, publisherVars,
                   pending_sent_publish_namespace, listenerVars, panicked>>

\* Variant: a withdrawal forgets every namespace of the peer.
WithdrawnAll(e, m) == DOMAIN received_namespaces[e]

\* What a PUBLISH_NAMESPACE_DONE removes: one announcement by its request id,
\* or every one of that namespace.
Withdrawn(e, m) ==
    IF Draft <= 15
    THEN {id \in DOMAIN received_namespaces[e] : received_namespaces[e][id] = m.namespace}
    ELSE {m.request_id}

RecvPublishNamespaceDone(e) ==
    /\ Arrived(e, "PublishNamespaceDone")
    /\ received_namespaces' =
           [received_namespaces EXCEPT ![e] = Without(@, Withdrawn(e, Head(control[e])))]
    /\ Consume(e)
    /\ UNCHANGED <<setupVars, next_request_id, subscriberVars, publisherVars, announcerVars,
                   pending_received_publish_namespace, next_expected_request_id, panicked>>

-----------------------------------------------------------------------------
\* poll() with a control message to handle.
Poll(e) ==
    \/ RecvClientSetup(e)
    \/ RecvServerSetup(e)
    \/ RecvSubscribe(e)
    \/ RecvSubscribeOk(e)
    \/ RecvRequestError(e)
    \/ RecvPublishDone(e)
    \/ RecvPublishNamespace(e)
    \/ RecvPublishOk(e)
    \/ RecvPublishNamespaceDone(e)

\* The application decides on a subscription or an announcement it was given.
AnswerSubscription(e) ==
    \E id \in pending_received_subscriptions[e] :
        AcceptSubscription(e, id) \/ RejectSubscription(e, id)

AnswerNamespace(e) ==
    \E id \in DOMAIN pending_received_publish_namespace[e] : AcceptNamespacePublish(e, id)

Call(e) ==
    \/ SubscribeCall(e)
    \/ \E ns \in Namespace : PublishNamespaceCall(e, ns)
    \/ AnswerSubscription(e)
    \/ AnswerNamespace(e)
    \/ \E id \in DOMAIN pending_subscribe_responses[e] : PollSubscribeResponse(e, id)
    \/ \E id \in DOMAIN accepted[e] : PublishDoneCall(e, id)
    \/ \E id \in DOMAIN sent_namespaces[e] : PublishNamespaceDoneCall(e, id)

Next == \E e \in Endpoint : Poll(e) \/ Call(e)

Spec == Init /\ [][Next]_vars

\* The event loop polls a session whose control stream is readable, and an
\* application that answers what it is given answers every request.
FairSpec ==
    /\ Spec
    /\ \A e \in Endpoint : WF_vars(Poll(e))
    /\ \A e \in Endpoint : WF_vars(AnswerSubscription(e))
    /\ \A e \in Endpoint : WF_vars(AnswerNamespace(e))
-----------------------------------------------------------------------------
(* Properties.                                                             *)

Answer == {"SubscribeOk", "RequestError"}
Message ==
    [type : {"ClientSetup", "ServerSetup"}, max_request_id : Nat]
    \cup [type : {"Subscribe"}, request_id : Nat,
          track_alias : IF SubscriberChoosesAlias THEN Nat ELSE {None}]
    \cup [type : {"SubscribeOk"}, request_id : Nat,
          track_alias : IF SubscriberChoosesAlias THEN {None} ELSE Nat]
    \cup [type : {"RequestError", "PublishOk"}, request_id : Nat]
    \cup [type : {"PublishDone"}, request_id : Nat, stream_count : {0}]
    \cup [type : {"PublishNamespace"}, namespace : Namespace,
          request_id : IF Draft <= 10 THEN {None} ELSE Nat]
    \cup [type : {"PublishNamespaceDone"}, namespace : Namespace]
    \cup [type : {"PublishNamespaceDone"}, request_id : Nat]

PanicReason ==
    {"no", "client received CLIENT_SETUP", "server received SERVER_SETUP",
     "REQUEST_ERROR not implemented", "SUBSCRIBE_OK unwrap", "REQUEST_ERROR unwrap",
     "PUBLISH_NAMESPACE without request id", "INVALID_REQUEST_ID quota",
     "INVALID_REQUEST_ID order", "PUBLISH_OK unwrap"}

\* A HashMap of each endpoint, with keys in K and values in V.
Maps(f, K, V) ==
    /\ f = [e \in Endpoint |-> [k \in DOMAIN f[e] |-> f[e][k]]]
    /\ \A e \in Endpoint :
          /\ DOMAIN f[e] \subseteq K
          /\ \A k \in DOMAIN f[e] : f[e][k] \in V

\* Every variable has its type: the maps are keyed by request ids and aliases,
\* and only messages that the endpoints send are on the control stream.
TypeOK ==
    /\ selected_version \in [Endpoint -> {NoVersion, Draft}]
    /\ next_request_id \in [Endpoint -> Nat]
    /\ next_expected_request_id \in [Endpoint -> Nat]
    /\ max_request_id \in [Endpoint -> Nat]
    /\ pending_subscribe \in [Endpoint -> SUBSET Nat]
    /\ pending_received_subscriptions \in [Endpoint -> SUBSET Nat]
    /\ next_out_track_alias \in [Endpoint -> Nat]
    /\ out_tracks \in [Endpoint -> SUBSET Nat]
    /\ ended \in [Endpoint -> SUBSET Nat]
    /\ control \in [Endpoint -> Seq(Message)]
    /\ panicked \in [Endpoint -> PanicReason]
    /\ Maps(pending_subscribe_responses, Nat, Nat \cup {None})
    /\ Maps(active_subscriptions, Nat, Nat)
    /\ Maps(in_tracks, Nat, {"open", "done"})
    /\ Maps(accepted, Nat, Nat)
    /\ Maps(pending_sent_publish_namespace, Nat, Namespace)
    /\ Maps(sent_namespaces, Nat, Namespace)
    /\ Maps(pending_received_publish_namespace, Nat, Namespace)
    /\ Maps(received_namespaces, Nat, Namespace)

\* Where in a queue the messages of some types are, and their request ids.
Places(queue, types) == {i \in DOMAIN queue : queue[i].type \in types}
Ids(queue, types) == {queue[i].request_id : i \in Places(queue, types)}

\* No two messages of these types in the queue carry the same request id.
Single(queue, types) ==
    \A i, j \in Places(queue, types) :
        queue[i].request_id = queue[j].request_id => i = j

\* Where a subscription request of e can be: on its way, in the publisher's
\* inbox, or answered with the answer on its way back.
Asked(e) == Ids(control[Peer(e)], {"Subscribe"})
Held(e) == pending_received_subscriptions[Peer(e)]
Answered(e) == Ids(control[e], Answer)

\* A subscription request the publisher has or will get, or an answer to it, is
\* one the subscriber still waits for, and it is in one of these places only.
\* So the unwrap() of pending_subscribe.remove() cannot fail.
RequestsBacked ==
    \A e \in Endpoint :
        /\ Asked(e) \cup Held(e) \cup Answered(e) \subseteq pending_subscribe[e]
        /\ Asked(e) \cap Held(e) = {}
        /\ Asked(e) \cap Answered(e) = {}
        /\ Held(e) \cap Answered(e) = {}
        /\ Single(control[Peer(e)], {"Subscribe"})
        /\ Single(control[e], Answer)

\* A request the subscriber waits for is somewhere: none is ever lost between
\* the two endpoints, or dropped without an answer.
RequestsKept ==
    \A e \in Endpoint :
        pending_subscribe[e] \subseteq Asked(e) \cup Held(e) \cup Answered(e)

\* Subscriber and publisher mean the same track by an alias, whichever of them
\* chose it: an active subscription has the alias its publisher accepted it
\* under, both keep a track under it, and no two subscriptions share one.
AliasAgreement ==
    \A e \in Endpoint : \A id \in DOMAIN active_subscriptions[e] :
        LET alias == active_subscriptions[e][id] IN
        /\ id \in DOMAIN accepted[Peer(e)]
        /\ alias = accepted[Peer(e)][id]
        /\ alias \in DOMAIN in_tracks[e]
        /\ alias \in out_tracks[Peer(e)]
        /\ \A other \in DOMAIN active_subscriptions[e] \ {id} :
               active_subscriptions[e][other] # alias

\* A PUBLISH_DONE never overtakes the SUBSCRIBE_OK of its subscription: poll()
\* ignores one whose request id it does not know, and the track would not end.
PublishDoneRouted ==
    \A e \in Endpoint :
        Arrived(e, "PublishDone")
            => Head(control[e]).request_id \in DOMAIN active_subscriptions[e]

\* Where an announcement of e can be.
Announced(e) == Ids(control[Peer(e)], {"PublishNamespace"})
Offers(e) == DOMAIN pending_received_publish_namespace[Peer(e)]
Welcomed(e) == Ids(control[e], {"PublishOk"})

\* The withdrawals of announcements of e that are under way, where they carry the id.
Dones(e) == Ids(control[Peer(e)], {"PublishNamespaceDone"})

\* Each announcement is in one place: on its way, held by the receiver, or
\* accepted with PUBLISH_OK on its way back.  Nothing else waits for PUBLISH_OK.
AnnouncementsBacked ==
    Draft > 10 =>
    \A e \in Endpoint :
        /\ Announced(e) \cup Offers(e) \cup Welcomed(e)
              = DOMAIN pending_sent_publish_namespace[e]
        /\ Announced(e) \cap Offers(e) = {}
        /\ Announced(e) \cap Welcomed(e) = {}
        /\ Offers(e) \cap Welcomed(e) = {}
        /\ Single(control[Peer(e)], {"PublishNamespace"})
        /\ Single(control[e], {"PublishOk"})

\* From draft 16 on both sides agree on the namespaces in force.  The peer keeps each
\* one the announcer believes accepted, under the same request id, and one the announcer
\* does not count has its own PUBLISH_OK or its own PUBLISH_NAMESPACE_DONE under way.
NamespaceAgreement ==
    \A e \in Endpoint :
        /\ \A id \in DOMAIN sent_namespaces[e] :
               /\ id \in DOMAIN received_namespaces[Peer(e)]
               /\ received_namespaces[Peer(e)][id] = sent_namespaces[e][id]
        /\ \A id \in DOMAIN received_namespaces[Peer(e)] :
               \/ id \in DOMAIN sent_namespaces[e]
               \/ id \in Welcomed(e)
               \/ id \in Dones(e)

\* None of the assertions that only a broken peer could fail ever fails: the
\* lookups of a request the peer answers, and the roles of the setup messages.
UnwrapsHold ==
    \A e \in Endpoint :
        panicked[e] \notin {"SUBSCRIBE_OK unwrap", "REQUEST_ERROR unwrap",
                           "PUBLISH_OK unwrap", "client received CLIENT_SETUP",
                           "server received SERVER_SETUP"}

\* Every subscription request is answered at last, unless one side's process ends.
SubscribeAnswered ==
    \A e \in Endpoint : \A id \in 0..RequestCap :
        id \in pending_subscribe[e]
            ~> \/ id \notin pending_subscribe[e]
               \/ \E p \in Endpoint : ~Running(p)

\* So is every announcement; the handshake it needs completes.
AnnouncementAnswered ==
    \A e \in Endpoint : \A id \in 0..RequestCap :
        id \in DOMAIN pending_sent_publish_namespace[e]
            ~> \/ id \in DOMAIN sent_namespaces[e]
               \/ \E p \in Endpoint : ~Running(p)

\* Both sides finish the setup, in whatever order events reach them.
HandshakeCompletes == <>(\A e \in Endpoint : selected_version[e] = Draft)

\* "next expected request_id to receive": the requests of a peer that numbers
\* them one after the other are all accepted as being in order.
RequestsInOrder ==
    \A e \in Endpoint : panicked[e] # "INVALID_REQUEST_ID order"

\* Once PUBLISH_DONE ended a track it stays ended: no later SUBSCRIBE_OK puts a
\* fresh InTrack in its place.
EndedTrackStaysEnded ==
    [][\A e \in Endpoint : \A a \in DOMAIN in_tracks[e] :
          in_tracks[e][a] = "done" => /\ a \in DOMAIN in_tracks'[e]
                                     /\ in_tracks'[e][a] = "done"]_vars
=============================================================================
