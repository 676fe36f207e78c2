-------------------------------- MODULE Relay --------------------------------
(***************************************************************************)
(* Phases 0 to 4.6 of the relay's loop (moq_relay/src/main.rs) and the     *)
(* clients around it: publishers announce a namespace, subscribers ask for *)
(* a track, and the relay joins them by one subscription of its own for    *)
(* each track.  Of phase 5 only the end of a track is here; RelayForward   *)
(* has the rest.                                                           *)
(*                                                                         *)
(* The loop runs to its end after every packet and timer, so the clients   *)
(* take their steps in phase "idle".  The control stream of a connection   *)
(* is a FIFO queue in each direction.  The relay's sessions all use draft  *)
(* 16, which moq::Config::default() fixes; MoqControl has their other end. *)
(***************************************************************************)
EXTENDS Integers, Sequences, FiniteSets

CONSTANTS
    Publisher,      \* connections of publishers; one that reconnects has another
    Subscriber,     \* connections of subscribers
    Namespace,
    Track,          \* NamespaceTrackname
    NamespaceOf,    \* namespace() of each track
    TrackOf,        \* the track that a client publishes or subscribes to
    MaxRequestId,   \* what a client grants the relay; 100 in the code
    MaxClosed       \* bound of the model: connections that are closed

Client == Publisher \cup Subscriber

ASSUME RolesAssumption ==
    Publisher \cap Subscriber = {}

ASSUME TracksAssumption ==
    /\ NamespaceOf \in [Track -> Namespace]
    /\ TrackOf \in [Client -> Track]

ASSUME QuotaAssumption ==
    /\ MaxRequestId \in Nat
    /\ MaxClosed \in Nat

VARIABLES
    namespaces,     \* AppData: namespace -> the connection that announced it last
    subscriptions,  \* AppData: track -> Subscription
    announced_namespaces,   \* ConnAppData: namespace -> request id
    session,        \* the relay's MoqTransportSession of each connection
    phase,          \* phase of the loop that is next, "idle" between two calls
    turns,          \* what is still to be visited in this phase
    conn,           \* "new", "open", "closed", or "dropped" once the relay has seen it
    to_relay,       \* control messages on their way
    to_client,
    next_expected,  \* client: next_expected_request_id of its session
    serving,        \* publisher: request id -> track, accepted and not ended
    asked,          \* subscriber: what has become of its subscription
    believed,       \* subscriber: received_namespaces of its session
    abandoned,      \* history: announcements the relay gave up while they were pending
    panicked        \* "no", or what ended the relay

relayVars == <<namespaces, subscriptions, announced_namespaces, session, abandoned>>
loopVars == <<phase, turns>>
clientVars == <<next_expected, serving, asked, believed>>
vars == <<relayVars, loopVars, conn, to_relay, to_client, clientVars, panicked>>

-----------------------------------------------------------------------------
(* HashMaps, messages and records.                                         *)

EmptyMap == [x \in {} |-> x]
Put(f, k, v) == [x \in DOMAIN f \cup {k} |-> IF x = k THEN v ELSE f[x]]
Without(f, S) == [x \in DOMAIN f \ S |-> f[x]]

\* The elements of a vector at the indices I, in their order.
Elements(v, I) ==
    [k \in 1..Cardinality(I) |->
        v[CHOOSE i \in I : Cardinality({j \in I : j < i}) = k - 1]]

Retain(v, P(_)) == Elements(v, {i \in DOMAIN v : P(v[i])})

\* An Option that is None.
None == -1

ASSUME NoneAssumption == None \notin Client

\* INITIAL_CLIENT_REQUEST_ID: the first id of every client, and the only one that a
\* server, which grants ids up to 0, lets it use for a subscription.
FirstRequestId == 0

Announcement(id, ns) == [type |-> "PublishNamespace", request_id |-> id, namespace |-> ns]
Subscribe(id, t) == [type |-> "Subscribe", request_id |-> id, track |-> t]
Reply(type, id) == [type |-> type, request_id |-> id]

SessionFrom(id) ==
    [next_request_id |-> id,
     pending_received_subscriptions |-> EmptyMap,
     pending_sent_publish_namespace |-> EmptyMap,
     sent_namespaces |-> EmptyMap,
     pending_subscribe_responses |-> {},
     done |-> {}]   \* request ids of the tracks that PUBLISH_DONE has marked

\* Variant: the relay takes its request ids from those of the clients.
ClientSession == SessionFrom(FirstRequestId)

\* INITIAL_SERVER_REQUEST_ID.
NewSession == SessionFrom(1)

NewPublisher(c) == [client_id |-> c, request_id |-> None, accepted |-> FALSE]
NoPublisher == NewPublisher(None)

NewSubscriber(c, id) ==
    [client_id |-> c, request_id |-> id, accepted |-> FALSE, publisher_gone |-> FALSE]

\* What there is of a track in the map, or its new entry.
Entry(t, publisher) ==
    IF t \in DOMAIN subscriptions THEN subscriptions[t]
    ELSE [publisher |-> publisher, subscribers |-> << >>]

IsSent(sub) == sub.publisher.request_id # None
IsPublisherAccepted(sub) == sub.publisher.accepted

\* The same update of every subscriber in the vector.
ForEach(subscribers, Op(_)) == [i \in DOMAIN subscribers |-> Op(subscribers[i])]

Gone(s) == [s EXCEPT !.publisher_gone = TRUE]

\* Variant: the subscribers are not told that the publisher has gone.
SilentlyOrphaned(sub) == [sub EXCEPT !.publisher = NoPublisher]

\* The track has lost its publisher: its subscribers are to be told so.
Orphaned(sub) ==
    [publisher |-> NoPublisher, subscribers |-> ForEach(sub.subscribers, Gone)]

Open == {c \in Client : conn[c] = "open"}

Init ==
    /\ namespaces = EmptyMap
    /\ subscriptions = EmptyMap
    /\ announced_namespaces = [c \in Client |-> EmptyMap]
    /\ session = [c \in Client |-> NewSession]
    /\ phase = "idle"
    /\ turns = {}
    /\ conn = [c \in Client |-> "new"]
    /\ to_relay = [c \in Client |-> << >>]
    /\ to_client = [c \in Client |-> << >>]
    /\ next_expected = [c \in Client |-> 1]
    /\ serving = [p \in Publisher |-> EmptyMap]
    /\ asked = [s \in Subscriber |-> "no"]
    /\ believed = [s \in Subscriber |-> EmptyMap]
    /\ abandoned = [c \in Client |-> {}]
    /\ panicked = "no"

-----------------------------------------------------------------------------
(* The relay's loop.                                                       *)

At(p) == phase = p /\ panicked = "no"

Panic(why) ==
    /\ panicked' = why
    /\ UNCHANGED <<relayVars, loopVars, conn, to_relay, to_client, clientVars>>

Send(c, m) == to_client' = [to_client EXCEPT ![c] = Append(@, m)]

Enter(next) ==
    /\ phase' = next
    /\ turns' = {}

\* Phase 1: poll() handles one control message of the connection.
Message(c) == IF to_relay[c] = << >> THEN [type |-> "nothing"] ELSE Head(to_relay[c])

\* The requests it is offered: those kept, and the one that has come.
Inbox(c) ==
    LET m == Message(c)
        kept == session[c].pending_received_subscriptions IN
    IF m.type = "Subscribe" THEN Put(kept, m.request_id, m.track) ELSE kept

Poll(c) ==
    LET m == Message(c)
        s == session[c] IN
    /\ to_relay' = [to_relay EXCEPT ![c] = IF @ = << >> THEN @ ELSE Tail(@)]
    /\ session' = [session EXCEPT ![c] =
           CASE m.type = "Subscribe" ->
                  [s EXCEPT !.pending_received_subscriptions = Inbox(c)]
             [] m.type = "SubscribeOk" ->
                  [s EXCEPT !.pending_subscribe_responses = @ \cup {m.request_id}]
             [] m.type = "PublishDone" ->
                  [s EXCEPT !.done = @ \cup {m.request_id}]
             [] m.type = "PublishOk" ->
                  [s EXCEPT !.pending_sent_publish_namespace = Without(@, {m.request_id}),
                            !.sent_namespaces =
                                Put(@, m.request_id,
                                    s.pending_sent_publish_namespace[m.request_id])]
             [] OTHER -> s]

\* Variant: a request is never taken for one that is queued.
NeverQueued(t, id) == FALSE


\* "Skip subscriptions already queued": the request id alone is compared.
AlreadyQueued(t, id) ==
    /\ t \in DOMAIN subscriptions
    /\ \E i \in DOMAIN subscriptions[t].subscribers :
          LET s == subscriptions[t].subscribers[i] IN ~s.accepted /\ s.request_id = id

Queued(sub, c, id) ==
    [sub EXCEPT !.subscribers = Append(@, NewSubscriber(c, id))]

\* process_subscription_requests(); there is one request, at most.
Decide(c) ==
    \/ /\ \A id \in DOMAIN Inbox(c) : AlreadyQueued(Inbox(c)[id], id)
       /\ UNCHANGED subscriptions
    \/ \E id \in DOMAIN Inbox(c) :
          LET t == Inbox(c)[id] IN
          /\ ~AlreadyQueued(t, id)
          /\ NamespaceOf[t] \in DOMAIN namespaces
          /\ subscriptions' = Put(subscriptions, t,
                 Queued(Entry(t, NewPublisher(namespaces[NamespaceOf[t]])), c, id))

\* The last to announce a namespace owns it.  Nothing depends on the PUBLISH_OK that
\* answers, and it is left out.
Listen(c) ==
    LET m == Message(c) IN
    namespaces' = IF m.type = "PublishNamespace" THEN Put(namespaces, m.namespace, c)
                  ELSE namespaces

\* A visit of the connection finds something to do.
HasInput(c) ==
    \/ to_relay[c] # << >>
    \/ \E id \in DOMAIN Inbox(c) : ~AlreadyQueued(Inbox(c)[id], id)

ToReceive == {c \in turns : HasInput(c)}

Receive(c) ==
    /\ At("receive")
    /\ c \in ToReceive
    /\ Poll(c)
    /\ Decide(c)
    /\ Listen(c)
    /\ turns' = turns \ {c}
    /\ UNCHANGED phase
    /\ UNCHANGED <<announced_namespaces, abandoned, conn, to_client, clientVars, panicked>>

\* A request without a publisher is to be rejected, which draft 16 cannot write.
ReceiveFault(c) ==
    /\ At("receive")
    /\ c \in ToReceive
    /\ \E id \in DOMAIN Inbox(c) :
          /\ ~AlreadyQueued(Inbox(c)[id], id)
          /\ NamespaceOf[Inbox(c)[id]] \notin DOMAIN namespaces
    /\ Panic("REQUEST_ERROR not implemented")

\* Phase 2.  Here and below, a phase starts when those before it have nothing to do.
\* Variant: a client is told of its own namespaces only.
OwnNamespaces(c) ==
    {ns \in DOMAIN namespaces \ DOMAIN announced_namespaces[c] : namespaces[ns] = c}

ToAnnounce(c) ==
    {ns \in DOMAIN namespaces \ DOMAIN announced_namespaces[c] : namespaces[ns] # c}

\* A connection is first told of the namespaces that are gone.
ToWithdraw(c) == DOMAIN announced_namespaces[c] \ DOMAIN namespaces

ToTell == {c \in Open : ToWithdraw(c) \cup ToAnnounce(c) # {}}

AtAnnounce == At("announce") \/ (At("receive") /\ ToReceive = {})

\* Variant: the relay forgets an announcement without withdrawing it.
NeverWithdrawn(c, id) == FALSE

\* publish_namespace_done() says nothing unless the client has accepted.
Withdrawable(c, id) == id \in DOMAIN session[c].sent_namespaces

Withdraw(c, ns) ==
    LET id == announced_namespaces[c][ns] IN
    /\ AtAnnounce
    /\ c \in ToTell
    /\ ns \in ToWithdraw(c)
    /\ announced_namespaces' = [announced_namespaces EXCEPT ![c] = Without(@, {ns})]
    /\ IF Withdrawable(c, id)
       THEN /\ Send(c, Reply("PublishNamespaceDone", id))
            /\ session' = [session EXCEPT ![c].sent_namespaces = Without(@, {id})]
            /\ UNCHANGED abandoned
       ELSE /\ abandoned' = [abandoned EXCEPT ![c] = @ \cup
                   (DOMAIN session[c].pending_sent_publish_namespace \cap {id})]
            /\ UNCHANGED <<session, to_client>>
    /\ Enter("announce")
    /\ UNCHANGED <<namespaces, subscriptions, conn, to_relay, clientVars, panicked>>

Announce(c, ns) ==
    LET id == session[c].next_request_id IN
    /\ AtAnnounce
    /\ c \in ToTell
    /\ ToWithdraw(c) = {}
    /\ ns \in ToAnnounce(c)
    /\ announced_namespaces' = [announced_namespaces EXCEPT ![c] = Put(@, ns, id)]
    /\ session' = [session EXCEPT
           ![c].pending_sent_publish_namespace = Put(@, id, ns),
           ![c].next_request_id = @ + 2]
    /\ Send(c, Announcement(id, ns))
    /\ Enter("announce")
    /\ UNCHANGED <<namespaces, subscriptions, abandoned, conn, to_relay, clientVars,
                   panicked>>

\* Phase 3: a track that has no publisher gets the owner of its namespace.
Source(t) ==
    LET p == subscriptions[t].publisher
        ns == NamespaceOf[t] IN
    IF p = NoPublisher /\ ns \in DOMAIN namespaces THEN NewPublisher(namespaces[ns]) ELSE p

\* subscribe() returns RequestBlocked above the quota: it is tried again next time.
CanSubscribe(c) == c \in Open /\ session[c].next_request_id <= MaxRequestId

\* Variant: a subscription is sent again until it is answered.
Unanswered ==
    {t \in DOMAIN subscriptions :
        ~IsPublisherAccepted(subscriptions[t]) /\ CanSubscribe(Source(t).client_id)}

\* The tracks for which there is something to do.
ToRequest ==
    {t \in DOMAIN subscriptions :
        /\ ~IsSent(subscriptions[t])
        /\ CanSubscribe(Source(t).client_id) \/ Source(t) # subscriptions[t].publisher}

AtRequest == At("request") \/ (AtAnnounce /\ ToTell = {})

Request(t) ==
    LET p == Source(t)
        c == p.client_id IN
    /\ AtRequest
    /\ t \in ToRequest
    /\ IF CanSubscribe(c)
       THEN LET id == session[c].next_request_id IN
            /\ subscriptions' = [subscriptions EXCEPT ![t].publisher =
                                    [p EXCEPT !.request_id = id]]
            /\ session' = [session EXCEPT ![c].next_request_id = @ + 2]
            /\ Send(c, Subscribe(id, t))
       ELSE /\ subscriptions' = [subscriptions EXCEPT ![t].publisher = p]
            /\ UNCHANGED <<session, to_client>>
    /\ Enter("request")
    /\ UNCHANGED <<namespaces, announced_namespaces, abandoned, conn, to_relay,
                   clientVars, panicked>>

\* Phase 4: poll_subscribe_response().  No REQUEST_ERROR can be read in draft 16.
Responded(sub) ==
    LET p == sub.publisher IN
    /\ p.client_id \in Open
    /\ ~p.accepted
    /\ p.request_id \in session[p.client_id].pending_subscribe_responses

Answered == {t \in DOMAIN subscriptions : Responded(subscriptions[t])}

AtRespond == At("respond") \/ (AtRequest /\ ToRequest = {})

Respond ==
    LET taken(c) == {subscriptions[t].publisher.request_id :
                        t \in {u \in Answered : subscriptions[u].publisher.client_id = c}} IN
    /\ AtRespond
    /\ Answered # {}
    /\ subscriptions' = [t \in DOMAIN subscriptions |->
           IF t \in Answered THEN [subscriptions[t] EXCEPT !.publisher.accepted = TRUE]
           ELSE subscriptions[t]]
    /\ session' = [c \in Client |->
           [session[c] EXCEPT !.pending_subscribe_responses = @ \ taken(c)]]
    /\ Enter("respond")
    /\ UNCHANGED <<namespaces, announced_namespaces, abandoned, conn, to_relay, to_client,
                   clientVars, panicked>>

\* Subscribers of any track of which P holds.
Those(P(_, _)) ==
    UNION {{subscriptions[t].subscribers[i] :
               i \in {j \in DOMAIN subscriptions[t].subscribers :
                         P(subscriptions[t], subscriptions[t].subscribers[j])}} :
           t \in DOMAIN subscriptions}

\* Requests of c among the subscribers S.
RequestsOf(c, S) == {s.request_id : s \in {r \in S : r.client_id = c}}

\* A message to each client that is among the subscribers S; no client is twice.
Tell(type, S) ==
    to_client' = [c \in Client |->
        IF \E s \in S : s.client_id = c
        THEN Append(to_client[c], Reply(type, CHOOSE id \in RequestsOf(c, S) : TRUE))
        ELSE to_client[c]]

\* Variant: a subscriber is accepted before the publisher has accepted the relay.
AtOnce(sub, s) == ~s.accepted /\ s.client_id \in Open

\* Phase 4.5.
Acceptable(sub, s) ==
    IsPublisherAccepted(sub) /\ ~s.accepted /\ s.client_id \in Open

\* Variant: the session keeps a request that has been accepted.
KeepRequests(c, ids) == session[c]

TakeRequests(c, ids) ==
    [session[c] EXCEPT !.pending_received_subscriptions = Without(@, ids)]

\* accept_subscription() unwraps the request.
Unwraps(s) == s.request_id \in DOMAIN session[s.client_id].pending_received_subscriptions

AtAccept == At("accept") \/ (AtRespond /\ Answered = {})

Accept ==
    LET S == Those(Acceptable) IN
    /\ AtAccept
    /\ S # {}
    /\ IF \A s \in S : Unwraps(s)
       THEN /\ subscriptions' = [t \in DOMAIN subscriptions |->
                   LET sub == subscriptions[t]
                       Accepted(s) == [s EXCEPT !.accepted = @ \/ Acceptable(sub, s)] IN
                   [sub EXCEPT !.subscribers = ForEach(@, Accepted)]]
            /\ session' = [c \in Client |-> TakeRequests(c, RequestsOf(c, S))]
            /\ Tell("SubscribeOk", S)
            /\ Enter("accept")
            /\ UNCHANGED <<namespaces, announced_namespaces, abandoned, conn, to_relay,
                           clientVars, panicked>>
       ELSE Panic("accept unwrap")

\* Variant: subscribers are dropped without PUBLISH_DONE.
Silently(sub, s) == FALSE

\* Phase 4.6: PUBLISH_DONE, whether or not the subscriber was accepted.
Leaving(sub, s) == s.publisher_gone
Staying(s) == ~s.publisher_gone

AtFinish == At("finish") \/ (AtAccept /\ Those(Acceptable) = {})

Finish ==
    /\ AtFinish
    /\ Those(Leaving) # {}
    /\ Tell("PublishDone", {s \in Those(Leaving) : s.client_id \in Open})
    /\ subscriptions' = [t \in DOMAIN subscriptions |->
           [subscriptions[t] EXCEPT !.subscribers = Retain(@, Staying)]]
    /\ Enter("finish")
    /\ UNCHANGED <<namespaces, announced_namespaces, session, abandoned, conn, to_relay,
                   clientVars, panicked>>

\* The publisher has said PUBLISH_DONE and there are subscribers: read_obj_hdr() is
\* to return Fin, at some time from now on.
Finishable ==
    {t \in DOMAIN subscriptions :
        LET sub == subscriptions[t] IN
        /\ IsPublisherAccepted(sub)
        /\ \E i \in DOMAIN sub.subscribers : sub.subscribers[i].accepted
        /\ sub.publisher.request_id \in session[sub.publisher.client_id].done}

\* Phase 5, of which the end of a track.
Forward ==
    /\ AtFinish
    /\ Those(Leaving) = {}
    /\ \E ended \in SUBSET Finishable :
          subscriptions' = [t \in DOMAIN subscriptions |->
              IF t \in ended THEN Orphaned(subscriptions[t]) ELSE subscriptions[t]]
    /\ Enter("idle")
    /\ UNCHANGED <<namespaces, announced_namespaces, session, abandoned, conn, to_relay,
                   to_client, clientVars, panicked>>

\* Phase 0.
Closed == {c \in Client : conn[c] = "closed"}

StillConnected(s) == conn[s.client_id] # "closed"

Cleaned(sub) ==
    LET rest == IF sub.publisher.client_id \in Closed THEN Orphaned(sub) ELSE sub IN
    [rest EXCEPT !.subscribers = Retain(@, StillConnected)]

\* A call that finds none of this leaves everything as it is, and is left out.
HasWork ==
    \/ Closed # {}
    \/ \E c \in Open : HasInput(c)
    \/ ToTell # {} \/ ToRequest # {} \/ Those(Leaving) # {} \/ Finishable # {}

\* ConnAppData ends with its connection.
Kept(f, fresh) == [c \in Client |-> IF c \in Closed THEN fresh ELSE f[c]]

Cleanup ==
    /\ At("idle")
    /\ HasWork
    /\ namespaces' = Without(namespaces, {ns \in DOMAIN namespaces : namespaces[ns] \in Closed})
    /\ subscriptions' = [t \in DOMAIN subscriptions |-> Cleaned(subscriptions[t])]
    /\ conn' = Kept(conn, "dropped")
    /\ session' = Kept(session, NewSession)
    /\ announced_namespaces' = Kept(announced_namespaces, EmptyMap)
    /\ abandoned' = Kept(abandoned, {})
    /\ UNCHANGED <<to_relay, to_client, clientVars, panicked>>
    /\ phase' = "receive"
    /\ turns' = {c \in Open : HasInput(c)'}

Loop ==
    \/ Cleanup
    \/ \E c \in Client : Receive(c) \/ ReceiveFault(c)
    \/ \E c \in Client, ns \in Namespace : Withdraw(c, ns) \/ Announce(c, ns)
    \/ \E t \in Track : Request(t)
    \/ Respond
    \/ Accept
    \/ Finish
    \/ Forward

-----------------------------------------------------------------------------
(* The clients: publish.rs and subscribe.rs of moq_utils, and their ends.  *)

Connected(c) == At("idle") /\ conn[c] = "open"

Reach(c, m) == to_relay' = [to_relay EXCEPT ![c] = Append(@, m)]

\* A publisher announces the namespace of its track as soon as it has a session.
Connect(c) ==
    /\ At("idle")
    /\ conn[c] = "new"
    /\ conn' = [conn EXCEPT ![c] = "open"]
    /\ IF c \in Publisher
       THEN Reach(c, Announcement(FirstRequestId, NamespaceOf[TrackOf[c]]))
       ELSE UNCHANGED to_relay
    /\ UNCHANGED <<relayVars, loopVars, to_client, clientVars, panicked>>

Ask(s) ==
    /\ Connected(s)
    /\ asked[s] = "no"
    /\ asked' = [asked EXCEPT ![s] = "waiting"]
    /\ Reach(s, Subscribe(FirstRequestId, TrackOf[s]))
    /\ UNCHANGED <<relayVars, loopVars, conn, to_client, next_expected, serving, believed,
                   panicked>>

\* The connection is closed, or the process ends and the connection times out.
Lost(c) ==
    /\ conn' = [conn EXCEPT ![c] = "closed"]
    /\ to_relay' = [to_relay EXCEPT ![c] = << >>]
    /\ to_client' = [to_client EXCEPT ![c] = << >>]
    /\ next_expected' = [next_expected EXCEPT ![c] = 1]
    /\ serving' = [p \in Publisher |-> IF p = c THEN EmptyMap ELSE serving[p]]
    /\ asked' = [s \in Subscriber |-> IF s = c THEN "no" ELSE asked[s]]
    /\ believed' = [s \in Subscriber |-> IF s = c THEN EmptyMap ELSE believed[s]]
    /\ UNCHANGED <<relayVars, loopVars, panicked>>

Close(c) ==
    /\ Connected(c)
    /\ Cardinality({d \in Client : conn[d] \in {"closed", "dropped"}}) < MaxClosed
    /\ Lost(c)

Arrived(c, type) ==
    /\ Connected(c)
    /\ to_client[c] # << >>
    /\ Head(to_client[c]).type = type

Consume(c) == to_client' = [to_client EXCEPT ![c] = Tail(@)]

\* A publisher accepts its own track, and in draft 16 ends if it is asked for another.
RecvSubscribe(p) ==
    LET m == Head(to_client[p]) IN
    /\ Arrived(p, "Subscribe")
    /\ IF m.track = TrackOf[p]
       THEN /\ serving' = [serving EXCEPT ![p] = Put(@, m.request_id, m.track)]
            /\ Reach(p, Reply("SubscribeOk", m.request_id))
            /\ Consume(p)
            /\ UNCHANGED <<relayVars, loopVars, conn, next_expected, asked, believed,
                           panicked>>
       ELSE Lost(p)

\* A publisher that is a relay too (--relay) ends a track when it has lost its own
\* publisher.
EndTrack(p, id) ==
    /\ Connected(p)
    /\ id \in DOMAIN serving[p]
    /\ serving' = [serving EXCEPT ![p] = Without(@, {id})]
    /\ Reach(p, Reply("PublishDone", id))
    /\ UNCHANGED <<relayVars, loopVars, conn, to_client, next_expected, asked, believed,
                   panicked>>

\* An announcement must carry an id within the quota, and the one expected, which a
\* subscription has not advanced.  A subscriber accepts it, a publisher leaves it
\* pending.
RecvAnnouncement(c) ==
    LET m == Head(to_client[c]) IN
    /\ Arrived(c, "PublishNamespace")
    /\ IF m.request_id <= MaxRequestId /\ m.request_id = next_expected[c]
       THEN /\ next_expected' = [next_expected EXCEPT ![c] = @ + 2]
            /\ IF c \in Subscriber
               THEN /\ believed' = [believed EXCEPT ![c] = Put(@, m.request_id, m.namespace)]
                    /\ Reach(c, Reply("PublishOk", m.request_id))
               ELSE UNCHANGED <<believed, to_relay>>
            /\ Consume(c)
            /\ UNCHANGED <<relayVars, loopVars, conn, serving, asked, panicked>>
       ELSE Lost(c)

RecvWithdrawal(s) ==
    /\ Arrived(s, "PublishNamespaceDone")
    /\ believed' = [believed EXCEPT ![s] = Without(@, {Head(to_client[s]).request_id})]
    /\ Consume(s)
    /\ UNCHANGED <<relayVars, loopVars, conn, to_relay, next_expected, serving, asked,
                   panicked>>

\* PUBLISH_DONE says nothing to a session that is not subscribed.
RecvAnswer(s) ==
    \E type \in {"SubscribeOk", "PublishDone"} :
        /\ Arrived(s, type)
        /\ asked' = [asked EXCEPT ![s] =
                        IF type = "SubscribeOk" THEN "accepted"
                        ELSE IF @ = "accepted" THEN "done" ELSE @]
        /\ Consume(s)
        /\ UNCHANGED <<relayVars, loopVars, conn, to_relay, next_expected, serving, believed,
                       panicked>>

Recv(c) ==
    \/ RecvAnnouncement(c)
    \/ c \in Publisher /\ RecvSubscribe(c)
    \/ c \in Subscriber /\ (RecvWithdrawal(c) \/ RecvAnswer(c))

Next ==
    \/ Loop
    \/ \E c \in Client : Connect(c) \/ Close(c) \/ Recv(c)
    \/ \E s \in Subscriber : Ask(s)
    \/ \E p \in Publisher : \E id \in DOMAIN serving[p] : EndTrack(p, id)

Spec == Init /\ [][Next]_vars

\* The loop runs after every packet and timer, and a client that has been sent a
\* message takes it.  Between two calls the relay does not keep the clients from
\* taking steps.
FairSpec ==
    /\ Spec
    /\ WF_vars(Loop)
    /\ \A c \in Client : SF_vars(Recv(c))

-----------------------------------------------------------------------------
(* Properties.                                                             *)

Phases ==
    {"idle", "receive", "announce", "request", "respond", "accept", "finish"}

PublisherInfo ==
    [client_id : Publisher \cup {None}, request_id : Nat \cup {None}, accepted : BOOLEAN]
SubscriberInfo ==
    [client_id : Subscriber, request_id : {FirstRequestId}, accepted : BOOLEAN,
     publisher_gone : BOOLEAN]

\* What is on its way to the relay from c, and to a client.
Announcements == [type : {"PublishNamespace"}, request_id : Nat, namespace : Namespace]

ToRelay(c) ==
    {m \in Announcements \cup [type : {"SubscribeOk", "PublishDone"}, request_id : Nat] :
        c \in Publisher}
    \cup
    {m \in [type : {"Subscribe"}, request_id : {FirstRequestId}, track : {TrackOf[c]}]
              \cup [type : {"PublishOk"}, request_id : Nat] :
        c \in Subscriber}

ToClient ==
    Announcements
    \cup [type : {"Subscribe"}, request_id : Nat, track : Track]
    \cup [type : {"SubscribeOk", "PublishDone"}, request_id : {FirstRequestId}]
    \cup [type : {"PublishNamespaceDone"}, request_id : Nat]

\* A HashMap with keys of K and values of V.
IsMap(f, K, V) == DOMAIN f \subseteq K /\ \A k \in DOMAIN f : f[k] \in V

\* The relay's session of c.  It is a server, and its ids are odd; only a subscriber
\* makes a request of it, by its first id, and accepts announcements.
IsSession(s, c) ==
    /\ s.next_request_id \in Nat /\ s.next_request_id % 2 = 1
    /\ IsMap(s.pending_received_subscriptions,
             {id \in {FirstRequestId} : c \in Subscriber}, {TrackOf[c]})
    /\ IsMap(s.pending_sent_publish_namespace, Nat, Namespace)
    /\ IsMap(s.sent_namespaces, {id \in Nat : c \in Subscriber}, Namespace)
    /\ s.pending_subscribe_responses \subseteq Nat
    /\ s.done \subseteq Nat

\* Every variable has its type: the maps are keyed by what they are looked up by, only
\* publishers own namespaces and tracks, and a queue carries what its client and the
\* relay say to each other.
TypeOK ==
    /\ IsMap(namespaces, Namespace, Publisher)
    /\ DOMAIN subscriptions \subseteq Track
    /\ \A t \in DOMAIN subscriptions :
          /\ subscriptions[t].publisher \in PublisherInfo
          /\ subscriptions[t].subscribers \in Seq(SubscriberInfo)
    /\ \A c \in Client :
          /\ IsMap(announced_namespaces[c], Namespace, Nat)
          /\ IsSession(session[c], c)
          /\ to_relay[c] \in Seq(ToRelay(c))
          /\ to_client[c] \in Seq(ToClient)
    /\ abandoned \in [Client -> SUBSET Nat]
    /\ next_expected \in [Client -> Nat]
    /\ DOMAIN serving = Publisher
    /\ \A p \in Publisher : IsMap(serving[p], Nat, {TrackOf[p]})
    /\ asked \in [Subscriber -> {"no", "waiting", "accepted", "done"}]
    /\ DOMAIN believed = Subscriber
    /\ \A s \in Subscriber : IsMap(believed[s], Nat, Namespace)
    /\ phase \in Phases
    /\ turns \subseteq Client
    /\ conn \in [Client -> {"new", "open", "closed", "dropped"}]
    /\ panicked \in {"no", "REQUEST_ERROR not implemented", "accept unwrap"}

\* A client is queued once, for one track, and as long as it has not been accepted
\* its session still has the request: the unwrap() of accept_subscription() holds
\* although the request was read some calls before.
QueuedOnce ==
    \A t, u \in DOMAIN subscriptions :
        \A i \in DOMAIN subscriptions[t].subscribers, j \in DOMAIN subscriptions[u].subscribers :
            LET r == subscriptions[t].subscribers[i]
                s == subscriptions[u].subscribers[j] IN
            /\ r.client_id = s.client_id => t = u /\ i = j
            /\ ~r.accepted /\ conn[r.client_id] = "open" =>
                   r.request_id \in DOMAIN session[r.client_id].pending_received_subscriptions

\* A subscriber is sent one SUBSCRIBE_OK, however often its track loses its
\* publisher and gets another.
AcceptedOnce ==
    \A s \in Subscriber :
        LET oks == {i \in DOMAIN to_client[s] : to_client[s][i].type = "SubscribeOk"} IN
        /\ oks # {} => asked[s] = "waiting"
        /\ \A i, j \in oks : i = j

\* The relay is subscribed to a track once: a subscription that a publisher serves
\* is the one in the relay's map, whoever has subscribed, left or taken over the
\* namespace since.
SubscribedOnce ==
    \A p \in Publisher : \A id \in DOMAIN serving[p] :
        LET t == serving[p][id] IN
        /\ t \in DOMAIN subscriptions
        /\ subscriptions[t].publisher.client_id = p
        /\ subscriptions[t].publisher.request_id = id

\* An accepted subscriber has a publisher that has accepted too, or is about to be
\* told that it has gone: a publisher that comes later does not inherit it.
AcceptedHasSource ==
    \A t \in DOMAIN subscriptions : \A i \in DOMAIN subscriptions[t].subscribers :
        LET s == subscriptions[t].subscribers[i]
            p == subscriptions[t].publisher IN
        s.accepted /\ ~s.publisher_gone =>
            p.accepted /\ p.client_id # None /\ conn[p.client_id] \in {"open", "closed"}

\* A client believes in a namespace only as long as the relay knows by which
\* announcement, or the withdrawal of it is on its way.  "No-op if the namespace was
\* not accepted yet": the announcements that were abandoned so are the only ones
\* that are never withdrawn.
BelievedBacked ==
    \A s \in Subscriber : \A id \in DOMAIN believed[s] :
        LET ns == believed[s][id] IN
        \/ ns \in DOMAIN announced_namespaces[s] /\ announced_namespaces[s][ns] = id
        \/ \E i \in DOMAIN to_client[s] : to_client[s][i] = Reply("PublishNamespaceDone", id)
        \/ id \in abandoned[s]

\* The relay as those see it that it joins: where it gets each track from, which of the
\* sources have accepted, and where each subscriber is.
Sources ==
    [t \in Track |->
        IF t \in DOMAIN subscriptions THEN subscriptions[t].publisher.client_id ELSE None]
Live == {t \in DOMAIN subscriptions : IsPublisherAccepted(subscriptions[t])}

Entries(t) == {subscriptions[t].subscribers[i] : i \in DOMAIN subscriptions[t].subscribers}
Listed == UNION {Entries(t) : t \in DOMAIN subscriptions}

Waiting == {s.client_id : s \in {r \in Listed : ~r.accepted /\ ~r.publisher_gone}}
Joined == {s.client_id : s \in {r \in Listed : r.accepted /\ ~r.publisher_gone}}
Orphans == {s.client_id : s \in {r \in Listed : r.publisher_gone}}

Departed == {s \in Subscriber : conn[s] \in {"closed", "dropped"}}

\* What the relay promises: a subscriber is served by one source from its SUBSCRIBE_OK
\* to its PUBLISH_DONE, whatever publishers come and go.
Promise ==
    INSTANCE FanOut
        WITH Track <- Track, Publisher <- Publisher, Subscriber <- Subscriber,
             TrackOf <- TrackOf, None <- None, source <- Sources, live <- Live,
             queued <- Waiting, joined <- Joined, leaving <- Orphans, gone <- Departed
ServedByOneSource == Promise!Spec

Over(s) == conn[s] # "open" \/ panicked # "no"

\* "Un-announce gone namespaces and announce new ones to all connected MoQ clients":
\* a subscriber comes to know of each namespace that stays.
NamespacesReachAll ==
    \A s \in Subscriber, ns \in Namespace :
        conn[s] = "open" /\ ns \in DOMAIN namespaces ~>
            \/ \E id \in DOMAIN believed[s] : believed[s][id] = ns
            \/ ns \notin DOMAIN namespaces
            \/ Over(s)

\* Every publisher of the namespace has the track, so that none refuses it.
Offered(t) ==
    \A p \in Publisher : NamespaceOf[TrackOf[p]] = NamespaceOf[t] => TrackOf[p] = t

QuotaUsedUp == \E p \in Publisher : session[p].next_request_id > MaxRequestId


\* "Send PUBLISH_DONE to subscribers whose publisher disconnected": a subscriber that
\* was accepted hears of the end when all publishers of its track have gone.
EndsAreTold ==
    \A s \in Subscriber :
        /\ asked[s] = "accepted"
        /\ \A p \in Publisher : TrackOf[p] = TrackOf[s] => conn[p] # "open"
        ~> asked[s] = "done" \/ Over(s)
=============================================================================
