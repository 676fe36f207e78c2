-------------------------- MODULE RelaySafety_proofs --------------------------
(***************************************************************************)
(* Proofs about Relay, on the types of Relay_proofs: which connections the *)
(* relay's maps may name, where the request of each subscriber is, which   *)
(* subscription of the relay a publisher serves, what the clients have     *)
(* been told of the namespaces, with which the types of every variable     *)
(* are complete, and that the relay implements FanOut.                     *)
(***************************************************************************)
EXTENDS Relay_proofs

(***************************************************************************)
(* Connections.                                                            *)
(***************************************************************************)

\* Within a call of the loop no connection is closed that phase 0 has not seen, and
\* what the relay has of a publisher ends with its connection.
Alive(c) == conn[c] \in {"open", "closed"}

ClosedSeen == phase # "idle" => Closed = {}

QueuesOpen == \A c \in Client : conn[c] # "open" => to_relay[c] = << >> /\ to_client[c] = << >>

ClientsOpen ==
    /\ \A p \in Publisher : conn[p] # "open" => DOMAIN serving[p] = {}
    /\ \A s \in Subscriber : conn[s] # "open" => asked[s] = "no" /\ DOMAIN believed[s] = {}

OwnersAlive == \A ns \in DOMAIN namespaces : Alive(namespaces[ns])

PublishersAlive ==
    \A t \in DOMAIN subscriptions :
        LET p == subscriptions[t].publisher.client_id IN p # None => Alive(p)

Connections == ClosedSeen /\ QueuesOpen /\ ClientsOpen /\ OwnersAlive /\ PublishersAlive

\* The steps of the loop after phase 0.
LEMMA InCall ==
    ASSUME Connections
    PROVE  /\ \A c : Receive(c) => phase # "idle"
           /\ \A c, ns : Withdraw(c, ns) \/ Announce(c, ns) => phase # "idle"
           /\ \A t : Request(t) => phase # "idle"
           /\ Respond \/ Accept \/ Finish \/ Forward => phase # "idle"
BY DEF Receive, Withdraw, Announce, Request, Respond, Accept, Finish, Forward,
       AtAnnounce, AtRequest, AtRespond, AtAccept, AtFinish, At

\* A step of the loop that only sends to connections that are open.
LEMMA SendsOpen ==
    ASSUME Typing, QueuesOpen, NEW c \in Open, NEW m, Sends(to_client, to_client', c, m),
           UNCHANGED <<conn, to_relay>>
    PROVE  QueuesOpen'
<1>1. conn[c] = "open"
  BY DEF Open
<1> QED
  BY <1>1, Zenon DEF Sends, QueuesOpen

LEMMA TellsOpen ==
    ASSUME Typing, QueuesOpen, NEW C \in SUBSET Open, NEW type, Tells(C, type),
           UNCHANGED <<conn, to_relay>>
    PROVE  QueuesOpen'
<1>1. \A c \in C : conn[c] = "open"
  BY DEF Open
<1> QED
  BY <1>1, Zenon DEF Tells, QueuesOpen

\* The connections stay as they are in a step of the loop after phase 0.
LEMMA SameConnections ==
    ASSUME Typing, Connections, phase # "idle", UNCHANGED <<conn, clientVars>>
    PROVE  /\ ClosedSeen' /\ ClientsOpen'
           /\ UNCHANGED namespaces => OwnersAlive'
           /\ UNCHANGED subscriptions => PublishersAlive'
<1>1. Closed' = {}
  BY DEF Connections, ClosedSeen, Closed
<1>2. ClientsOpen'
  BY DEF Connections, ClientsOpen, clientVars
<1>3. ASSUME UNCHANGED namespaces PROVE OwnersAlive'
  BY <1>3 DEF Connections, OwnersAlive, Alive
<1>4. ASSUME UNCHANGED subscriptions PROVE PublishersAlive'
  BY <1>4 DEF Connections, PublishersAlive, Alive
<1> QED
  BY <1>1, <1>2, <1>3, <1>4 DEF ClosedSeen

\* The publishers of the tracks are those there were, or there is none.
LEMMA PublishersStay ==
    ASSUME Typing, PublishersAlive, UNCHANGED conn,
           DOMAIN subscriptions' \subseteq DOMAIN subscriptions,
           \A t \in DOMAIN subscriptions :
               \/ subscriptions'[t].publisher.client_id = subscriptions[t].publisher.client_id
               \/ subscriptions'[t].publisher.client_id = None
    PROVE  PublishersAlive'
<1>1. \A t \in DOMAIN subscriptions' : t \in DOMAIN subscriptions
  OBVIOUS
<1> QED
  BY <1>1, Zenon DEF PublishersAlive, Alive

LEMMA ReceiveConnections ==
    ASSUME Typing, Connections, NEW c \in Client, Receive(c)
    PROVE  Connections'
<1>1. /\ Polled(c) /\ (UNCHANGED subscriptions \/ QueuedOne(c))
      /\ UNCHANGED <<conn, clientVars, to_client, phase>>
      /\ Listen(c)
      /\ phase # "idle"
  BY PollEffect, DecideEffect, InCall DEF Receive
<1>2. ClosedSeen' /\ ClientsOpen'
  BY <1>1, SameConnections
<1>3. QueuesOpen'
  BY <1>1, Zenon DEF Polled, Connections, QueuesOpen
<1>4. OwnersAlive'
  <2>1. CASE Message(c).type = "PublishNamespace"
    <3>1. namespaces' = Put(namespaces, Message(c).namespace, c)
      BY <1>1, <2>1 DEF Listen
    <3>2. conn[c] = "open"
      <4>1. to_relay[c] # << >>
        BY <2>1, HeadOf DEF Typing
      <4> QED
        BY <4>1, Zenon DEF Connections, QueuesOpen
    <3> QED
      BY <1>1, <3>1, <3>2 DEF Put, Connections, OwnersAlive, Alive
  <2>2. CASE Message(c).type # "PublishNamespace"
    BY <1>1, <2>2, SameConnections DEF Listen
  <2> QED
    BY <2>1, <2>2
<1>5. PublishersAlive'
  <2>1. CASE UNCHANGED subscriptions
    BY <1>1, <2>1, SameConnections
  <2>2. CASE QueuedOne(c)
    <3> DEFINE t == TrackOf[c]
    <3>1. /\ DOMAIN subscriptions' = DOMAIN subscriptions \cup {t}
          /\ \A u \in DOMAIN subscriptions : u # t => subscriptions'[u] = subscriptions[u]
          /\ t \in DOMAIN subscriptions =>
                subscriptions'[t].publisher = subscriptions[t].publisher
          /\ t \notin DOMAIN subscriptions =>
                /\ NamespaceOf[t] \in DOMAIN namespaces
                /\ subscriptions'[t].publisher.client_id = namespaces[NamespaceOf[t]]
      BY <2>2, Infos, Zenon DEF QueuedOne
    <3> HIDE DEF t
    <3>2. ASSUME NEW u \in DOMAIN subscriptions', subscriptions'[u].publisher.client_id # None
          PROVE  Alive(subscriptions'[u].publisher.client_id)
      <4>1. CASE u \in DOMAIN subscriptions
        <5>1. subscriptions'[u].publisher = subscriptions[u].publisher
          BY <3>1, <4>1, Zenon
        <5> QED
          BY <3>2, <4>1, <5>1, Zenon DEF Connections, PublishersAlive
      <4>2. CASE u \notin DOMAIN subscriptions
        <5>1. u = t
          BY <3>1, <4>2
        <5> QED
          BY <3>1, <4>2, <5>1, Zenon DEF Connections, OwnersAlive
      <4> QED
        BY <4>1, <4>2
    <3>3. \A p : Alive(p) => Alive(p)'
      BY <1>1 DEF Alive
    <3> QED
      BY <1>1, <3>2, Zenon DEF PublishersAlive, Alive
  <2> QED
    BY <1>1, <2>1, <2>2
<1> QED
  BY <1>2, <1>3, <1>4, <1>5 DEF Connections

LEMMA WithdrawConnections ==
    ASSUME Typing, Connections, NEW c \in Client, NEW ns \in Namespace, Withdraw(c, ns)
    PROVE  Connections'
<1>1. /\ Withdrawn(c, ns)
      /\ UNCHANGED <<namespaces, subscriptions, conn, to_relay, clientVars>>
      /\ phase # "idle"
  BY WithdrawEffect, InCall DEF Withdraw
<1>2. QueuesOpen'
  <2>1. CASE to_client' = to_client
    BY <1>1, <2>1 DEF Connections, QueuesOpen
  <2>2. CASE to_client' # to_client
    <3>1. /\ c \in Open
          /\ \E m : Sends(to_client, to_client', c, m)
      BY <1>1, <2>2, Zenon DEF Withdrawn
    <3> QED
      BY <1>1, <3>1, SendsOpen DEF Connections
  <2> QED
    BY <2>1, <2>2
<1> QED
  BY <1>1, <1>2, SameConnections DEF Connections

LEMMA AnnounceConnections ==
    ASSUME Typing, Connections, NEW c \in Client, NEW ns \in Namespace, Announce(c, ns)
    PROVE  Connections'
<1>1. /\ Told(c, ns)
      /\ UNCHANGED <<namespaces, subscriptions, conn, to_relay, clientVars>>
      /\ phase # "idle"
  BY AnnounceEffect, InCall DEF Announce
<1>2. c \in Open /\ \E m : Sends(to_client, to_client', c, m)
  BY <1>1, Zenon DEF Told
<1>3. QueuesOpen'
  BY <1>1, <1>2, SendsOpen DEF Connections
<1> QED
  BY <1>1, <1>3, SameConnections DEF Connections

LEMMA RequestConnections ==
    ASSUME Typing, Connections, NEW t \in Track, Request(t)
    PROVE  Connections'
<1>1. /\ Requested(t)
      /\ UNCHANGED <<namespaces, conn, to_relay, clientVars>>
      /\ phase # "idle"
  BY RequestEffect, InCall DEF Request
<1>2. QueuesOpen'
  <2> DEFINE c == subscriptions'[t].publisher.client_id
  <2>1. CASE UNCHANGED to_client
    BY <1>1, <2>1 DEF Connections, QueuesOpen
  <2>2. CASE ~UNCHANGED to_client
    <3>1. c \in Open /\ \E m : Sends(to_client, to_client', c, m)
      BY <1>1, <2>2, Zenon DEF Requested
    <3> HIDE DEF c
    <3> QED
      BY <1>1, <3>1, SendsOpen DEF Connections
  <2> QED
    BY <2>1, <2>2
<1>3. PublishersAlive'
  <2>1. ASSUME NEW u \in DOMAIN subscriptions', subscriptions'[u].publisher.client_id # None
        PROVE  Alive(subscriptions'[u].publisher.client_id)
    BY <1>1, <2>1, Zenon DEF Requested, Connections, PublishersAlive, OwnersAlive
  <2> QED
    BY <1>1, <2>1, Zenon DEF PublishersAlive, Alive
<1> QED
  BY <1>1, <1>2, <1>3, SameConnections DEF Connections

LEMMA RespondConnections ==
    ASSUME Typing, Connections, Respond
    PROVE  Connections'
<1>1. /\ Responding
      /\ UNCHANGED <<namespaces, conn, to_relay, to_client, clientVars>>
      /\ phase # "idle"
  BY RespondEffect, InCall DEF Respond
<1>2. QueuesOpen'
  BY <1>1 DEF Connections, QueuesOpen
<1>3. PublishersAlive'
  BY <1>1, PublishersStay DEF Responding, Connections
<1> QED
  BY <1>1, <1>2, <1>3, SameConnections DEF Connections

LEMMA AcceptConnections ==
    ASSUME Typing, Connections, Accepting, phase # "idle",
           UNCHANGED <<namespaces, conn, to_relay, clientVars>>
    PROVE  Connections'
<1>1. QueuesOpen'
  <2>1. AcceptedClients \subseteq Open
    BY DEF AcceptedClients
  <2> QED
    BY <2>1, TellsOpen DEF Accepting, Connections
<1>2. PublishersAlive'
  BY PublishersStay DEF Accepting, PublisherKept, Connections
<1> QED
  BY <1>1, <1>2, SameConnections DEF Connections

LEMMA FinishConnections ==
    ASSUME Typing, Connections, Finish
    PROVE  Connections'
<1>1. /\ Finishing
      /\ UNCHANGED <<namespaces, conn, to_relay, clientVars>>
      /\ phase # "idle"
  BY FinishEffect, InCall DEF Finish
<1>2. QueuesOpen'
  <2>1. LeavingClients \subseteq Open
    BY DEF LeavingClients
  <2> QED
    BY <1>1, <2>1, TellsOpen DEF Finishing, Connections
<1>3. PublishersAlive'
  BY <1>1, PublishersStay DEF Finishing, Selects, PublisherKept, Connections
<1> QED
  BY <1>1, <1>2, <1>3, SameConnections DEF Connections

LEMMA ForwardConnections ==
    ASSUME Typing, Connections, Forward
    PROVE  Connections'
<1>1. /\ Forwarding
      /\ UNCHANGED <<namespaces, conn, to_relay, to_client, clientVars>>
      /\ phase # "idle"
  BY ForwardEffect, InCall DEF Forward
<1>2. QueuesOpen'
  BY <1>1 DEF Connections, QueuesOpen
<1>3. PublishersAlive'
  BY <1>1, PublishersStay, Infos DEF Forwarding, Selects, PublisherKept, PublisherLost, Connections
<1> QED
  BY <1>1, <1>2, <1>3, SameConnections DEF Connections

LEMMA CleanupConnections ==
    ASSUME Typing, Connections, Cleanup
    PROVE  Connections'
<1>1. Cleaning /\ UNCHANGED <<to_relay, to_client, clientVars>>
  BY CleanupEffect DEF Cleanup
<1>2. \A c \in Client : /\ conn'[c] # "closed"
                        /\ conn'[c] = "open" <=> conn[c] = "open"
                        /\ c \notin Closed => conn'[c] = conn[c]
  BY <1>1 DEF Cleaning, Closed
<1>3. ClosedSeen'
  BY <1>2, Zenon DEF ClosedSeen, Closed
<1>4. QueuesOpen' /\ ClientsOpen'
  BY <1>1, <1>2, Constants, Zenon DEF Connections, QueuesOpen, ClientsOpen, clientVars
<1>5. OwnersAlive'
  <2> SUFFICES ASSUME NEW ns \in DOMAIN namespaces' PROVE conn'[namespaces'[ns]] \in {"open", "closed"}
    BY Zenon DEF OwnersAlive, Alive
  <2>1. ns \in DOMAIN namespaces /\ namespaces'[ns] = namespaces[ns] /\ namespaces[ns] \notin Closed
    BY <1>1, Zenon DEF Cleaning
  <2>2. namespaces[ns] \in Client
    BY <2>1, Constants, Zenon DEF Typing, NamespacesType
  <2> QED
    BY <1>2, <2>1, <2>2, Zenon DEF Connections, OwnersAlive, Alive
<1>6. PublishersAlive'
  <2> SUFFICES ASSUME NEW t \in DOMAIN subscriptions', subscriptions'[t].publisher.client_id # None
               PROVE  conn'[subscriptions'[t].publisher.client_id] \in {"open", "closed"}
    BY Zenon DEF PublishersAlive, Alive
  <2> DEFINE p == subscriptions[t].publisher.client_id
  <2>1. t \in DOMAIN subscriptions /\ p \notin Closed /\ subscriptions'[t].publisher.client_id = p
    <3>1. t \in DOMAIN subscriptions
      BY <1>1, Zenon DEF Cleaning, Selects
    <3>2. NoPublisher.client_id = None
      BY Infos, Zenon
    <3>3. ~PublisherLost(t)
      BY <3>2, Zenon DEF PublisherLost
    <3>4. p \notin Closed /\ PublisherKept(t)
      BY <1>1, <3>1, <3>3, Zenon DEF Cleaning
    <3> QED
      BY <3>1, <3>4 DEF PublisherKept
  <2>2. PublisherOK(subscriptions[t].publisher)
    BY <2>1, Zenon DEF Typing, SubscriptionsType
  <2>3. p \in Client
    BY <2>1, <2>2 DEF PublisherOK, PublisherInfo, Client
  <2>4. conn[p] \in {"open", "closed"}
    <3>1. p # None
      BY <2>1
    <3> QED
      BY <2>1, <3>1 DEF Connections, PublishersAlive, Alive
  <2>5. conn'[p] = conn[p]
    BY <1>2, <2>1, <2>3
  <2> QED
    BY <2>1, <2>4, <2>5
<1> QED
  BY <1>3, <1>4, <1>5, <1>6 DEF Connections

\* A client takes its steps between two calls, and does not touch what the relay has.
LEMMA ClientConnections ==
    ASSUME Typing, Connections, phase = "idle", UNCHANGED <<relayVars, loopVars>>,
           \A c \in Client : Alive(c) => Alive(c)'
    PROVE  ClosedSeen' /\ OwnersAlive' /\ PublishersAlive'
<1>1. ClosedSeen'
  BY DEF ClosedSeen, loopVars
<1>2. namespaces' = namespaces /\ subscriptions' = subscriptions
  BY DEF relayVars
<1>3. \A ns \in DOMAIN namespaces : namespaces[ns] \in Client
  BY Constants, Zenon DEF Typing, NamespacesType
<1>4. \A t \in DOMAIN subscriptions : LET p == subscriptions[t].publisher.client_id IN
          p # None => p \in Client
  <2> SUFFICES ASSUME NEW t \in DOMAIN subscriptions
               PROVE  LET p == subscriptions[t].publisher.client_id IN p # None => p \in Client
    OBVIOUS
  <2>1. PublisherOK(subscriptions[t].publisher)
    BY Zenon DEF Typing, SubscriptionsType
  <2> QED
    BY <2>1 DEF PublisherOK, PublisherInfo, Client
<1>5. OwnersAlive'
  BY <1>2, <1>3, Zenon DEF Connections, OwnersAlive, Alive
<1>6. PublishersAlive'
  BY <1>2, <1>4, Zenon DEF Connections, PublishersAlive, Alive
<1> QED
  BY <1>1, <1>5, <1>6

LEMMA LostConnections ==
    ASSUME Typing, Connections, NEW c \in Client, Lost(c), phase = "idle"
    PROVE  Connections'
<1>1. Losing(c) /\ UNCHANGED <<relayVars, loopVars>>
  BY LostEffect DEF Lost
<1>2. \A d \in Client : Alive(d) => Alive(d)'
  BY <1>1 DEF Losing, Alive
<1>3. QueuesOpen'
  <2> SUFFICES ASSUME NEW d \in Client, conn'[d] # "open"
               PROVE  to_relay'[d] = << >> /\ to_client'[d] = << >>
    BY Zenon DEF QueuesOpen
  <2> QED
    BY <1>1, Zenon DEF Losing, Connections, QueuesOpen
<1>4. ClientsOpen'
  <2>1. ASSUME NEW p \in Publisher, conn'[p] # "open" PROVE DOMAIN serving'[p] = {}
    BY <1>1, <2>1, Constants, Zenon DEF Losing, Connections, ClientsOpen
  <2>2. ASSUME NEW s \in Subscriber, conn'[s] # "open"
        PROVE  asked'[s] = "no" /\ DOMAIN believed'[s] = {}
    BY <1>1, <2>2, Constants, Zenon DEF Losing, Connections, ClientsOpen
  <2> QED
    BY <2>1, <2>2, Zenon DEF ClientsOpen
<1>5. ClosedSeen' /\ OwnersAlive' /\ PublishersAlive'
  BY <1>1, <1>2, ClientConnections
<1> QED
  BY <1>3, <1>4, <1>5 DEF Connections

LEMMA ConnectConnections ==
    ASSUME Typing, Connections, NEW c \in Client, Connect(c)
    PROVE  Connections'
<1>1. /\ conn' = [conn EXCEPT ![c] = "open"]
      /\ conn[c] = "new" /\ phase = "idle"
      /\ UNCHANGED <<relayVars, loopVars, to_client, clientVars>>
  BY DEF Connect, At
<1>2. /\ conn'[c] = "open"
      /\ \A d \in Client : d # c => conn'[d] = conn[d]
  BY <1>1 DEF Typing, LoopType
<1>3. \A d \in Client : d # c => to_relay'[d] = to_relay[d]
  <2>1. \/ Reach(c, Announcement(FirstRequestId, NamespaceOf[TrackOf[c]]))
        \/ UNCHANGED to_relay
    BY DEF Connect
  <2> QED
    BY <2>1 DEF Reach, Typing, QueuesType
<1>4. QueuesOpen'
  <2> SUFFICES ASSUME NEW d \in Client, conn'[d] # "open"
               PROVE  to_relay'[d] = << >> /\ to_client'[d] = << >>
    BY Zenon DEF QueuesOpen
  <2>1. d # c /\ conn[d] # "open" /\ to_client' = to_client
    BY <1>1, <1>2
  <2> QED
    BY <1>3, <2>1, Zenon DEF Connections, QueuesOpen
<1>5. ClientsOpen'
  <2>1. \A d \in Client : conn'[d] # "open" => conn[d] # "open"
    BY <1>2, Zenon
  <2>2. serving' = serving /\ asked' = asked /\ believed' = believed
    BY <1>1 DEF clientVars
  <2> QED
    BY <2>1, <2>2, Constants, Zenon DEF Connections, ClientsOpen
<1>6. \A d \in Client : Alive(d) => Alive(d)'
  BY <1>1, <1>2 DEF Alive
<1> QED
  BY <1>1, <1>4, <1>5, <1>6, ClientConnections DEF Connections

\* A client whose connection is open takes a step of its own.
LEMMA OwnConnections ==
    ASSUME Typing, Connections, NEW c \in Client, Connected(c),
           UNCHANGED <<relayVars, loopVars, conn>>,
           \A d \in Client : d # c => to_relay'[d] = to_relay[d] /\ to_client'[d] = to_client[d],
           \A p \in Publisher : p # c => serving'[p] = serving[p],
           \A s \in Subscriber : s # c => asked'[s] = asked[s] /\ believed'[s] = believed[s]
    PROVE  Connections'
<1>1. conn[c] = "open" /\ phase = "idle" /\ conn' = conn
  BY DEF Connected, At
<1>2. QueuesOpen'
  BY <1>1, Zenon DEF Connections, QueuesOpen
<1>3. ClientsOpen'
  BY <1>1, Zenon DEF Connections, ClientsOpen
<1>4. \A d \in Client : Alive(d) => Alive(d)'
  BY <1>1 DEF Alive
<1> QED
  BY <1>1, <1>2, <1>3, <1>4, ClientConnections DEF Connections

LEMMA AskConnections ==
    ASSUME Typing, Connections, NEW s \in Subscriber, Ask(s)
    PROVE  Connections'
<1>1. /\ Connected(s) /\ Reach(s, Subscribe(FirstRequestId, TrackOf[s]))
      /\ asked' = [asked EXCEPT ![s] = "waiting"]
      /\ UNCHANGED <<relayVars, loopVars, conn, to_client, serving, believed>>
  BY DEF Ask
<1>2. \A d \in Client : d # s => to_relay'[d] = to_relay[d]
  BY <1>1 DEF Reach, Typing, QueuesType
<1>3. \A u \in Subscriber : u # s => asked'[u] = asked[u]
  BY <1>1 DEF Typing, ClientsType
<1> QED
  BY <1>1, <1>2, <1>3, OwnConnections, Constants

LEMMA RecvConnections ==
    ASSUME Typing, Connections, NEW c \in Client, Recv(c)
    PROVE  Connections'
<1>0. phase = "idle" /\ Connected(c)
  BY DEF Recv, RecvAnnouncement, RecvSubscribe, RecvWithdrawal, RecvAnswer, Arrived, Connected, At
<1>1. CASE Lost(c)
  BY <1>0, <1>1, LostConnections
<1>2. CASE RecvAnnouncement(c) /\ ~Lost(c)
  <2>1. Learning(c) /\ UNCHANGED <<relayVars, loopVars, conn, serving, asked>>
    BY <1>2, LearningEffect
  <2>2. \A d \in Client : d # c => to_relay'[d] = to_relay[d] /\ to_client'[d] = to_client[d]
    <3>1. CASE c \in Subscriber
      BY <2>1, <3>1, Zenon DEF Learning, Sends, Takes
    <3>2. CASE c \notin Subscriber
      BY <2>1, <3>2, Zenon DEF Learning, Takes
    <3> QED
      BY <3>1, <3>2
  <2>3. \A s \in Subscriber : s # c => believed'[s] = believed[s]
    BY <2>1, Zenon DEF Learning
  <2> QED
    BY <1>0, <2>1, <2>2, <2>3, OwnConnections
<1>3. CASE c \in Publisher /\ RecvSubscribe(c) /\ ~Lost(c)
  <2>1. Serving(c) /\ UNCHANGED <<relayVars, loopVars, conn, asked, believed>>
    BY <1>3, ServingEffect
  <2>2. \A d \in Client : d # c => to_relay'[d] = to_relay[d] /\ to_client'[d] = to_client[d]
    BY <2>1, Zenon DEF Serving, Sends, Takes
  <2>3. \A p \in Publisher : p # c => serving'[p] = serving[p]
    BY <2>1, Zenon DEF Serving
  <2> QED
    BY <1>0, <2>1, <2>2, <2>3, OwnConnections
<1>4. CASE c \in Subscriber /\ RecvWithdrawal(c)
  <2>1. Forgetting(c) /\ UNCHANGED <<relayVars, loopVars, conn, to_relay, serving, asked>>
    BY <1>4, ForgettingEffect DEF RecvWithdrawal
  <2>2. \A d \in Client : d # c => to_client'[d] = to_client[d]
    BY <2>1, Zenon DEF Forgetting, Takes
  <2>3. \A s \in Subscriber : s # c => believed'[s] = believed[s]
    BY <2>1, Zenon DEF Forgetting
  <2> QED
    BY <1>0, <2>1, <2>2, <2>3, OwnConnections
<1>5. CASE c \in Subscriber /\ RecvAnswer(c)
  <2>1. Hearing(c) /\ UNCHANGED <<relayVars, loopVars, conn, to_relay, serving, believed>>
    BY <1>5, HearingEffect
  <2>2. \A d \in Client : d # c => to_client'[d] = to_client[d]
    BY <2>1, Zenon DEF Hearing, Takes
  <2>3. \A s \in Subscriber : s # c => asked'[s] = asked[s]
    BY <2>1, Zenon DEF Hearing
  <2> QED
    BY <1>0, <2>1, <2>2, <2>3, OwnConnections
<1> QED
  BY <1>1, <1>2, <1>3, <1>4, <1>5 DEF Recv

LEMMA EndTrackConnections ==
    ASSUME Typing, Connections, NEW p \in Publisher, NEW id \in DOMAIN serving[p], EndTrack(p, id)
    PROVE  Connections'
<1>1. /\ Connected(p) /\ Ending(p, id)
      /\ UNCHANGED <<relayVars, loopVars, conn, to_client, asked, believed>>
  BY EndingEffect DEF EndTrack
<1>2. \A d \in Client : d # p => to_relay'[d] = to_relay[d]
  BY <1>1, Zenon DEF Ending, Sends
<1>3. \A q \in Publisher : q # p => serving'[q] = serving[q]
  BY <1>1, Zenon DEF Ending
<1> QED
  BY <1>1, <1>2, <1>3, OwnConnections, Constants

\* A step in which the relay ends, or nothing changes.
Stops == UNCHANGED <<relayVars, phase, conn, to_relay, to_client, clientVars>>

LEMMA StopsConnections ==
    ASSUME Connections, Stops
    PROVE  Connections'
BY DEF Stops, Connections, ClosedSeen, Closed, QueuesOpen, ClientsOpen, OwnersAlive,
       PublishersAlive, Alive, relayVars, clientVars

\* The steps, with those of ReceiveFault and of a failing Accept put with the ones that
\* change nothing.
LEMMA Steps ==
    ASSUME Typing, [Next]_vars
    PROVE  \/ Stops
           \/ Cleanup
           \/ \E c \in Client : Receive(c)
           \/ \E c \in Client, ns \in Namespace : Withdraw(c, ns)
           \/ \E c \in Client, ns \in Namespace : Announce(c, ns)
           \/ \E t \in Track : Request(t)
           \/ Respond
           \/ Accept /\ Accepting
           \/ Finish
           \/ Forward
           \/ \E c \in Client : Connect(c)
           \/ \E c \in Client : Close(c)
           \/ \E c \in Client : Recv(c)
           \/ \E s \in Subscriber : Ask(s)
           \/ \E p \in Publisher : \E id \in DOMAIN serving[p] : EndTrack(p, id)
<1>1. ASSUME UNCHANGED vars PROVE Stops
  BY <1>1 DEF vars, Stops, loopVars
<1>2. ASSUME NEW c \in Client, ReceiveFault(c) PROVE Stops
  BY <1>2 DEF ReceiveFault, Panic, Stops, loopVars
<1>3. ASSUME Accept PROVE Stops \/ Accepting
  BY <1>3, AcceptEffect DEF Panic, Stops, loopVars
<1> QED
  BY <1>1, <1>2, <1>3, Zenon DEF Next, Loop

\* What a run of phases 4.5 leaves as it is when it does not fail.
LEMMA AcceptStays ==
    ASSUME Typing, Accept, Accepting
    PROVE  UNCHANGED <<namespaces, announced_namespaces, abandoned, conn, to_relay, clientVars>>
BY DEF Accept, Panic, relayVars

LEMMA ConnectionsStep ==
    ASSUME Typing, Connections, [Next]_vars
    PROVE  Connections'
<1>1. ASSUME Accept, Accepting PROVE Connections'
  <2>1. /\ phase # "idle"
        /\ UNCHANGED <<namespaces, conn, to_relay, clientVars>>
    BY <1>1, InCall, AcceptStays
  <2> QED
    BY <1>1, <2>1, AcceptConnections
<1>2. ASSUME NEW c \in Client, Close(c) PROVE Connections'
  BY <1>2, LostConnections DEF Close, Connected, At
<1> QED
  BY <1>1, <1>2, Steps, StopsConnections, CleanupConnections, ReceiveConnections,
     WithdrawConnections, AnnounceConnections, RequestConnections, RespondConnections,
     FinishConnections, ForwardConnections, ConnectConnections, RecvConnections,
     AskConnections, EndTrackConnections, Zenon

\* What the relay has of a connection, and what is on its way, ends with it: the maps name
\* live publishers only, phase 0 has seen every closed connection before the other phases
\* run, and a client that is gone has no state left.
THEOREM RelayConnections == Spec => []Connections
<1>1. Init => Connections
  <2> SUFFICES ASSUME Init PROVE Connections
    OBVIOUS
  <2>1. DOMAIN EmptyMap = {}
    BY DEF EmptyMap
  <2>2. DOMAIN namespaces = {} /\ DOMAIN subscriptions = {} /\ phase = "idle"
    BY <2>1, Zenon DEF Init
  <2>3. /\ \A c \in Client : to_relay[c] = << >> /\ to_client[c] = << >>
        /\ \A p \in Publisher : serving[p] = EmptyMap
        /\ \A s \in Subscriber : asked[s] = "no" /\ believed[s] = EmptyMap
    BY DEF Init
  <2> QED
    BY <2>1, <2>2, <2>3, Zenon DEF Connections, ClosedSeen, QueuesOpen, ClientsOpen,
                                   OwnersAlive, PublishersAlive
<1>2. Typing /\ Connections /\ [Next]_vars => Connections'
  BY ConnectionsStep
<1>3. Spec => []Typing
  BY RelayTyping
<1> QED
  BY <1>1, <1>2, <1>3, PTL DEF Spec

(***************************************************************************)
(* AcceptedHasSource.                                                      *)
(***************************************************************************)

\* A subscriber that was accepted has a publisher that has accepted, or is to be told
\* that it has gone.
Sourced ==
    \A t \in DOMAIN subscriptions : \A i \in DOMAIN subscriptions[t].subscribers :
        LET s == subscriptions[t].subscribers[i] IN
        s.accepted /\ ~s.publisher_gone => subscriptions[t].publisher.accepted

LEMMA ReceiveSourced ==
    ASSUME Typing, Sourced, NEW c \in Client, Receive(c)
    PROVE  Sourced'
<1>1. CASE UNCHANGED subscriptions
  BY <1>1 DEF Sourced
<1>2. CASE QueuedOne(c)
  <2> DEFINE t == TrackOf[c]
             e == NewSubscriber(c, FirstRequestId)
             w == subscriptions'[t].subscribers
  <2>1. /\ DOMAIN subscriptions' = DOMAIN subscriptions \cup {t}
        /\ \A u \in DOMAIN subscriptions : u # t => subscriptions'[u] = subscriptions[u]
        /\ e.accepted = FALSE
    <3>1. e.accepted = FALSE
      BY Infos, Zenon
    <3> QED
      BY <1>2, <3>1 DEF QueuedOne
  <2> HIDE DEF e
  <2>2. ASSUME NEW i \in DOMAIN w, w[i].accepted, ~w[i].publisher_gone
        PROVE  subscriptions'[t].publisher.accepted
    <3>1. CASE t \in DOMAIN subscriptions
      <4> DEFINE v == subscriptions[t].subscribers
      <4>1. /\ subscriptions'[t].publisher = subscriptions[t].publisher
            /\ w = Append(v, e)
        BY <1>2, <3>1, Zenon DEF QueuedOne, e
      <4>2. v \in Seq(SubscriberInfo)
        BY <3>1, Zenon DEF Typing, SubscriptionsType
      <4>3. i \in DOMAIN v /\ w[i] = v[i]
        <5> HIDE DEF v
        <5>1. \/ i \in DOMAIN v /\ w[i] = v[i]
              \/ w[i] = e
          BY <4>1, <4>2
        <5> QED
          BY <2>1, <2>2, <5>1
      <4> QED
        BY <2>2, <3>1, <4>1, <4>3, Zenon DEF Sourced
    <3>2. CASE t \notin DOMAIN subscriptions
      <4>1. w = << e >>
        BY <1>2, <3>2, Zenon DEF QueuedOne, e
      <4>2. w[i] = e
        <5> HIDE DEF w
        <5> QED
          BY <4>1
      <4> QED
        BY <2>1, <2>2, <4>2
    <3> QED
      BY <3>1, <3>2
  <2> HIDE DEF t
  <2>3. \A u \in DOMAIN subscriptions' : u = t \/ u \in DOMAIN subscriptions
    BY <2>1
  <2> QED
    BY <2>1, <2>2, <2>3, Zenon DEF Sourced
<1> QED
  BY <1>1, <1>2, DecideEffect DEF Receive

LEMMA SourcedStep ==
    ASSUME Typing, Sourced, [Next]_vars
    PROVE  Sourced'
<1>1. ASSUME UNCHANGED subscriptions PROVE Sourced'
  BY <1>1 DEF Sourced
<1>2. ASSUME NEW t \in Track, Request(t) PROVE Sourced'
  <2>1. Requested(t)
    BY <1>2, RequestEffect
  <2> QED
    BY <2>1, Zenon DEF Requested, Sourced
<1>3. ASSUME Respond PROVE Sourced'
  <2>1. Responding
    BY <1>3, RespondEffect
  <2> QED
    BY <2>1, Zenon DEF Responding, Sourced
<1>4. ASSUME Accepting PROVE Sourced'
  BY <1>4, Zenon DEF Accepting, PublisherKept, CanAccept, Sourced
<1>5. ASSUME Selects,
             \A t \in DOMAIN subscriptions : PublisherKept(t) \/ PublisherLost(t)
      PROVE  Sourced'
  <2> SUFFICES ASSUME NEW t \in DOMAIN subscriptions', NEW k \in DOMAIN subscriptions'[t].subscribers,
                      subscriptions'[t].subscribers[k].accepted,
                      ~subscriptions'[t].subscribers[k].publisher_gone
               PROVE  subscriptions'[t].publisher.accepted
    BY Zenon DEF Sourced
  <2> DEFINE v == subscriptions[t].subscribers
             w == subscriptions'[t].subscribers
  <2>1. t \in DOMAIN subscriptions /\ Derives(v, w)
    BY <1>5, Zenon DEF Selects
  <2>2. PICK i \in DOMAIN v : v[i].accepted = w[k].accepted /\ ~v[i].publisher_gone
    BY <2>1, Zenon DEF Derives
  <2>3. PublisherKept(t)
    BY <1>5, <2>1, Zenon DEF PublisherLost
  <2>4. v[i].accepted
    BY <2>2, Zenon
  <2> QED
    BY <2>1, <2>2, <2>3, <2>4, Zenon DEF PublisherKept, Sourced
<1>6. ASSUME Cleanup PROVE Sourced'
  BY <1>5, <1>6, CleanupEffect, Zenon DEF Cleaning
<1>7. ASSUME Finish PROVE Sourced'
  BY <1>5, <1>7, FinishEffect, Zenon DEF Finishing
<1>8. ASSUME Forward PROVE Sourced'
  BY <1>5, <1>8, ForwardEffect, Zenon DEF Forwarding
<1>9. ASSUME \/ Stops
             \/ \E c \in Client, ns \in Namespace : Withdraw(c, ns) \/ Announce(c, ns)
             \/ \E c \in Client : Connect(c) \/ Close(c) \/ Recv(c)
             \/ \E s \in Subscriber : Ask(s)
             \/ \E p \in Publisher : \E id \in DOMAIN serving[p] : EndTrack(p, id)
      PROVE  UNCHANGED subscriptions
  BY <1>9 DEF Stops, Withdraw, Announce, Connect, Close, Lost, Recv, RecvAnnouncement,
              RecvSubscribe, RecvWithdrawal, RecvAnswer, Ask, EndTrack, relayVars
<1> QED
  BY <1>1, <1>2, <1>3, <1>4, <1>6, <1>7, <1>8, <1>9, Steps, ReceiveSourced, Zenon

\* An accepted subscriber has a publisher that has accepted too and that the relay is still
\* connected to, or is about to be told that it has gone.
THEOREM RelaySources == Spec => []AcceptedHasSource
<1>1. Init => Sourced
  <2>1. DOMAIN EmptyMap = {}
    BY DEF EmptyMap
  <2> QED
    BY <2>1 DEF Init, Sourced
<1>2. Typing /\ Sourced /\ [Next]_vars => Sourced'
  BY SourcedStep
<1>3. Typing /\ Connections /\ Sourced => AcceptedHasSource
  <2> SUFFICES ASSUME Typing, Connections, Sourced, NEW t \in DOMAIN subscriptions,
                      NEW i \in DOMAIN subscriptions[t].subscribers,
                      subscriptions[t].subscribers[i].accepted,
                      ~subscriptions[t].subscribers[i].publisher_gone
               PROVE  LET p == subscriptions[t].publisher IN
                      p.accepted /\ p.client_id # None /\ conn[p.client_id] \in {"open", "closed"}
    BY Zenon DEF AcceptedHasSource
  <2>1. subscriptions[t].publisher.accepted
    BY Zenon DEF Sourced
  <2>2. subscriptions[t].publisher.client_id # None
    BY <2>1, Zenon DEF Typing, SubscriptionsType, PublisherOK
  <2>3. Alive(subscriptions[t].publisher.client_id)
    BY <2>2, Zenon DEF Connections, PublishersAlive
  <2> QED
    BY <2>1, <2>2, <2>3, Zenon DEF Alive
<1>4. Spec => []Typing
  BY RelayTyping
<1>5. Spec => []Connections
  BY RelayConnections
<1> QED
  BY <1>1, <1>2, <1>3, <1>4, <1>5, PTL DEF Spec

(***************************************************************************)
(* QueuedOnce and AcceptedOnce.                                            *)
(***************************************************************************)

\* Where the request of a subscriber is: on its way, kept by its session, queued, or
\* answered.
Asking == {s \in Subscriber : \E m \in Msgs(to_relay[s]) : m.type = "Subscribe"}
Pending == {s \in Subscriber : FirstRequestId \in DOMAIN session[s].pending_received_subscriptions}
Answering == {s \in Subscriber : \E m \in Msgs(to_client[s]) : m.type = "SubscribeOk"}

Requesting(s) ==
    /\ Distinct(to_relay[s], "Subscribe")
    /\ Distinct(to_client[s], "SubscribeOk")
    /\ s \in Asking => asked[s] = "waiting" /\ s \notin Pending
    /\ s \in Pending /\ conn[s] # "closed" => asked[s] = "waiting"
    /\ s \in Answering => asked[s] = "waiting" /\ s \notin Asking /\ s \notin Pending

QueuedFor(t, s, accepted) ==
    /\ t = TrackOf[s]
    /\ s \notin Asking
    /\ conn[s] # "closed" => asked[s] # "no"
    /\ ~accepted /\ conn[s] # "closed" => s \in Pending
    /\ accepted => s \notin Pending

Queue ==
    \A t \in DOMAIN subscriptions :
        LET v == subscriptions[t].subscribers IN
        /\ \A i \in DOMAIN v : QueuedFor(t, v[i].client_id, v[i].accepted)
        /\ \A i, j \in DOMAIN v : v[i].client_id = v[j].client_id => i = j

Requests ==
    /\ \A s \in Subscriber : Requesting(s)
    /\ Queue

\* The clients that are queued are subscribers.
LEMMA QueuedClients ==
    ASSUME Typing, NEW t \in DOMAIN subscriptions, NEW i \in DOMAIN subscriptions[t].subscribers
    PROVE  LET s == subscriptions[t].subscribers[i] IN
           s.client_id \in Subscriber /\ s.request_id = FirstRequestId /\ s.accepted \in BOOLEAN
<1> DEFINE v == subscriptions[t].subscribers
<1>1. v \in Seq(SubscriberInfo)
  BY Zenon DEF Typing, SubscriptionsType
<1>2. v[i] \in SubscriberInfo
  BY <1>1
<1> HIDE DEF v
<1>3. v[i].client_id \in Subscriber /\ v[i].request_id = FirstRequestId /\ v[i].accepted \in BOOLEAN
  BY <1>2 DEF SubscriberInfo
<1> QED
  BY <1>3 DEF v

\* A step that adds no request or answer of s, and takes none of its session.
Quiet(s) ==
    /\ Keeps(to_relay[s], to_relay'[s], "Subscribe")
    /\ Keeps(to_client[s], to_client'[s], "SubscribeOk")
    /\ DOMAIN session'[s].pending_received_subscriptions
           = DOMAIN session[s].pending_received_subscriptions
    /\ asked'[s] = asked[s]
    /\ conn'[s] = "closed" <=> conn[s] = "closed"

LEMMA QuietRequesting ==
    ASSUME NEW s \in Subscriber, Requesting(s), Quiet(s)
    PROVE  Requesting(s)'
<1>1. s \in Asking' => s \in Asking
  BY Zenon DEF Quiet, Keeps, Asking
<1>2. s \in Answering' => s \in Answering
  BY Zenon DEF Quiet, Keeps, Answering
<1>3. s \in Pending' <=> s \in Pending
  BY Zenon DEF Quiet, SameRequests, Pending
<1>4. Distinct(to_relay'[s], "Subscribe") /\ Distinct(to_client'[s], "SubscribeOk")
  BY Zenon DEF Quiet, Keeps, Requesting
<1> QED
  BY <1>1, <1>2, <1>3, <1>4, Zenon DEF Quiet, Requesting

\* A step that leaves the place of s in the queue as it is.
Carries(s) ==
    /\ s \in Asking' => s \in Asking
    /\ conn'[s] # "closed" => conn[s] # "closed" /\ (asked[s] # "no" => asked'[s] # "no")
    /\ s \in Pending' <=> s \in Pending

LEMMA QueueNext ==
    ASSUME \A t \in DOMAIN subscriptions' :
               LET w == subscriptions'[t].subscribers IN
               /\ \A i \in DOMAIN w : \A s, a :
                     s = w[i].client_id /\ a = w[i].accepted => QueuedFor(t, s, a)'
               /\ \A i, j \in DOMAIN w : w[i].client_id = w[j].client_id => i = j
    PROVE  Queue'
BY DEF Queue, QueuedFor

LEMMA CarriesQueue ==
    ASSUME Typing, Queue, NEW C \in SUBSET Subscriber, \A s \in C : Carries(s),
           DOMAIN subscriptions' = DOMAIN subscriptions,
           \A t \in DOMAIN subscriptions :
              LET w == subscriptions'[t].subscribers IN
              /\ Derives(subscriptions[t].subscribers, w)
              /\ \A k \in DOMAIN w : w[k].client_id \in C
    PROVE  Queue'
<1> SUFFICES ASSUME NEW t \in DOMAIN subscriptions'
             PROVE  LET w == subscriptions'[t].subscribers IN
                    /\ \A i \in DOMAIN w : \A s, a :
                          s = w[i].client_id /\ a = w[i].accepted => QueuedFor(t, s, a)'
                    /\ \A i, j \in DOMAIN w : w[i].client_id = w[j].client_id => i = j
  BY QueueNext, Zenon
<1> DEFINE v == subscriptions[t].subscribers
           w == subscriptions'[t].subscribers
<1>0. Derives(v, w)
  OBVIOUS
<1>1. PICK f : /\ \A k \in DOMAIN w :
                      /\ f[k] \in DOMAIN v
                      /\ w[k].client_id = v[f[k]].client_id
                      /\ w[k].accepted = v[f[k]].accepted
               /\ \A k, l \in DOMAIN w : f[k] = f[l] => k = l
  BY <1>0, Zenon DEF Derives
<1>2. /\ \A i \in DOMAIN v : QueuedFor(t, v[i].client_id, v[i].accepted)
      /\ \A i, j \in DOMAIN v : v[i].client_id = v[j].client_id => i = j
  <2>1. t \in DOMAIN subscriptions
    OBVIOUS
  <2> QED
    BY <2>1, Zenon DEF Queue
<1> HIDE DEF v, w
<1>3. ASSUME NEW i \in DOMAIN w, NEW j \in DOMAIN w, w[i].client_id = w[j].client_id
      PROVE  i = j
  <2>1. f[i] \in DOMAIN v /\ f[j] \in DOMAIN v /\ v[f[i]].client_id = v[f[j]].client_id
    BY <1>1, <1>3
  <2>2. f[i] = f[j]
    BY <1>2, <2>1
  <2> QED
    BY <1>1, <2>2
<1>4. ASSUME NEW k \in DOMAIN w, NEW s, NEW a, s = w[k].client_id, a = w[k].accepted
      PROVE  QueuedFor(t, s, a)'
  <2>1. QueuedFor(t, s, a)
    BY <1>1, <1>2, <1>4, Zenon
  <2>2. Carries(s)
    BY <1>4, Zenon DEF w
  <2> QED
    BY <2>1, <2>2, Zenon DEF QueuedFor, Carries
<1> QED
  BY <1>3, <1>4, Zenon DEF w

\* Steps that are quiet for every subscriber, and choose among those that are queued.
LEMMA QuietRequests ==
    ASSUME Typing, Requests, \A s \in Subscriber : Quiet(s),
           DOMAIN subscriptions' = DOMAIN subscriptions,
           \A t \in DOMAIN subscriptions :
              /\ subscriptions'[t].subscribers \in Seq(SubscriberInfo)
              /\ Derives(subscriptions[t].subscribers, subscriptions'[t].subscribers)
    PROVE  Requests'
<1>1. \A s \in Subscriber : Requesting(s)'
  BY QuietRequesting, Zenon DEF Requests
<1>2. \A s \in Subscriber : Carries(s)
  <2> SUFFICES ASSUME NEW s \in Subscriber PROVE Carries(s)
    OBVIOUS
  <2>1. s \in Asking' => s \in Asking
    BY Zenon DEF Quiet, Keeps, Asking
  <2>2. s \in Pending' <=> s \in Pending
    BY Zenon DEF Quiet, SameRequests, Pending
  <2> QED
    BY <2>1, <2>2, Zenon DEF Quiet, Carries
<1>3. \A t \in DOMAIN subscriptions : \A k \in DOMAIN subscriptions'[t].subscribers :
          subscriptions'[t].subscribers[k].client_id \in Subscriber
  <2> SUFFICES ASSUME NEW t \in DOMAIN subscriptions, NEW k \in DOMAIN subscriptions'[t].subscribers
               PROVE  subscriptions'[t].subscribers[k].client_id \in Subscriber
    OBVIOUS
  <2>1. \A w \in Seq(SubscriberInfo) : \A i \in DOMAIN w : w[i].client_id \in Subscriber
    <3> SUFFICES ASSUME NEW w \in Seq(SubscriberInfo), NEW i \in DOMAIN w
                 PROVE  w[i].client_id \in Subscriber
      OBVIOUS
    <3>1. w[i] \in SubscriberInfo
      OBVIOUS
    <3> QED
      BY <3>1 DEF SubscriberInfo
  <2> QED
    BY <2>1, Zenon
<1>4. Queue'
  BY <1>2, <1>3, CarriesQueue DEF Requests
<1> QED
  BY <1>1, <1>4, Zenon DEF Requests

LEMMA QuietUnchanged ==
    ASSUME Typing, Requests, \A s \in Subscriber : Quiet(s), UNCHANGED subscriptions
    PROVE  Requests'
<1>1. \A t \in DOMAIN subscriptions :
          /\ subscriptions'[t].subscribers \in Seq(SubscriberInfo)
          /\ Derives(subscriptions[t].subscribers, subscriptions'[t].subscribers)
  BY DerivesSame, Zenon DEF Typing, SubscriptionsType
<1> QED
  BY <1>1, QuietRequests

\* The messages of the other kinds that are sent or taken.
LEMMA QueueOf ==
    ASSUME Typing, NEW c \in Client
    PROVE  to_relay[c] \in Seq(ToRelay(c)) /\ to_client[c] \in Seq(ToClient)
BY Zenon DEF Typing, QueuesType

LEMMA KeepsSends ==
    ASSUME Typing, NEW c \in Client, NEW m, NEW type, m.type # type,
           UNCHANGED to_client \/ Sends(to_client, to_client', c, m)
    PROVE  \A d \in Client : Keeps(to_client[d], to_client'[d], type)
<1> SUFFICES ASSUME NEW d \in Client PROVE Keeps(to_client[d], to_client'[d], type)
  OBVIOUS
<1>1. to_client[d] \in Seq(ToClient)
  BY QueueOf
<1>2. /\ Keeps(to_client[d], to_client[d], type)
      /\ Keeps(to_client[d], Append(to_client[d], m), type)
  BY <1>1, KeepsQueue, Zenon
<1> QED
  BY <1>2, Zenon DEF Sends

LEMMA KeepsReaches ==
    ASSUME Typing, NEW c \in Client, NEW m, NEW type, m.type # type,
           UNCHANGED to_relay \/ Sends(to_relay, to_relay', c, m)
    PROVE  \A d \in Client : Keeps(to_relay[d], to_relay'[d], type)
<1> SUFFICES ASSUME NEW d \in Client PROVE Keeps(to_relay[d], to_relay'[d], type)
  OBVIOUS
<1>1. to_relay[d] \in Seq(ToRelay(d))
  BY QueueOf
<1>2. /\ Keeps(to_relay[d], to_relay[d], type)
      /\ Keeps(to_relay[d], Append(to_relay[d], m), type)
  BY <1>1, KeepsQueue, Zenon
<1> QED
  BY <1>2, Zenon DEF Sends

LEMMA KeepsTakes ==
    ASSUME Typing, NEW c \in Client, NEW type, to_client[c] # << >>,
           Takes(to_client, to_client', c)
    PROVE  \A d \in Client : Keeps(to_client[d], to_client'[d], type)
<1> SUFFICES ASSUME NEW d \in Client PROVE Keeps(to_client[d], to_client'[d], type)
  OBVIOUS
<1>1. to_client[d] \in Seq(ToClient)
  BY QueueOf
<1>2. /\ Keeps(to_client[d], to_client[d], type)
      /\ to_client[d] # << >> => Keeps(to_client[d], Tail(to_client[d]), type)
  BY <1>1, KeepsQueue, Zenon
<1> QED
  BY <1>2, Zenon DEF Takes

LEMMA KeepsTells ==
    ASSUME Typing, NEW C, NEW type, NEW other, other # type, Tells(C, type)
    PROVE  \A d \in Client : Keeps(to_client[d], to_client'[d], other)
<1> SUFFICES ASSUME NEW d \in Client PROVE Keeps(to_client[d], to_client'[d], other)
  OBVIOUS
<1> DEFINE m == Reply(type, FirstRequestId)
<1>1. to_client[d] \in Seq(ToClient)
  BY QueueOf
<1>2. m.type # other
  BY Fields, Zenon
<1> HIDE DEF m
<1>3. /\ Keeps(to_client[d], to_client[d], other)
      /\ Keeps(to_client[d], Append(to_client[d], m), other)
  BY <1>1, <1>2, KeepsQueue, Zenon
<1> QED
  BY <1>3, Zenon DEF Tells, m

LEMMA KeepsPolled ==
    ASSUME Typing, NEW c \in Client, NEW type, Polled(c)
    PROVE  \A d \in Client : Keeps(to_relay[d], to_relay'[d], type)
<1> SUFFICES ASSUME NEW d \in Client PROVE Keeps(to_relay[d], to_relay'[d], type)
  OBVIOUS
<1>1. to_relay[d] \in Seq(ToRelay(d))
  BY QueueOf
<1>2. /\ Keeps(to_relay[d], to_relay[d], type)
      /\ to_relay[d] # << >> => Keeps(to_relay[d], Tail(to_relay[d]), type)
  BY <1>1, KeepsQueue, Zenon
<1> QED
  BY <1>2, Zenon DEF Polled

LEMMA KeepsUnchanged ==
    ASSUME Typing, NEW type
    PROVE  /\ UNCHANGED to_relay => \A d \in Client : Keeps(to_relay[d], to_relay'[d], type)
           /\ UNCHANGED to_client => \A d \in Client : Keeps(to_client[d], to_client'[d], type)
<1>1. ASSUME UNCHANGED to_relay, NEW d \in Client PROVE Keeps(to_relay[d], to_relay'[d], type)
  BY <1>1, QueueOf, KeepsQueue, Zenon
<1>2. ASSUME UNCHANGED to_client, NEW d \in Client PROVE Keeps(to_client[d], to_client'[d], type)
  BY <1>2, QueueOf, KeepsQueue, Zenon
<1> QED
  BY <1>1, <1>2, Zenon

\* An empty queue keeps what there was of no message.
LEMMA KeepsLosing ==
    ASSUME Typing, NEW c \in Client, NEW type, Losing(c)
    PROVE  /\ \A d \in Client : Keeps(to_relay[d], to_relay'[d], type)
           /\ \A d \in Client : Keeps(to_client[d], to_client'[d], type)
<1>1. ASSUME NEW d \in Client PROVE Keeps(to_relay[d], to_relay'[d], type)
  <2>1. to_relay[d] \in Seq(ToRelay(d))
    BY QueueOf
  <2>2. Keeps(to_relay[d], to_relay[d], type) /\ Keeps(to_relay[d], << >>, type)
    BY <2>1, KeepsQueue, Zenon
  <2> QED
    BY <2>2, Zenon DEF Losing
<1>2. ASSUME NEW d \in Client PROVE Keeps(to_client[d], to_client'[d], type)
  <2>1. to_client[d] \in Seq(ToClient)
    BY QueueOf
  <2>2. Keeps(to_client[d], to_client[d], type) /\ Keeps(to_client[d], << >>, type)
    BY <2>1, KeepsQueue, Zenon
  <2> QED
    BY <2>2, Zenon DEF Losing
<1> QED
  BY <1>1, <1>2, Zenon

LEMMA QuietCarries ==
    ASSUME NEW s \in Subscriber, Quiet(s)
    PROVE  Carries(s)
<1>1. s \in Asking' => s \in Asking
  BY Zenon DEF Quiet, Keeps, Asking
<1>2. s \in Pending' <=> s \in Pending
  BY Zenon DEF Quiet, SameRequests, Pending
<1> QED
  BY <1>1, <1>2, Zenon DEF Quiet, Carries

\* Phase 1: a request on its way comes to be kept by its session.
LEMMA PolledRequest ==
    ASSUME Typing, NEW c \in Subscriber, Distinct(to_relay[c], "Subscribe"), Polled(c)
    PROVE  /\ Message(c).type = "Subscribe" => c \in Asking /\ c \notin Asking'
           /\ c \in Asking' => c \in Asking
           /\ FirstRequestId \in DOMAIN Inbox(c) <=> c \in Pending'
           /\ c \in Pending' <=> c \in Pending \/ Message(c).type = "Subscribe"
<1> DEFINE m == Message(c)
<1>0. c \in Client /\ to_relay[c] \in Seq(ToRelay(c))
  BY Constants, QueueOf
<1>1. c \in Asking' => c \in Asking
  BY <1>0, KeepsPolled, Zenon DEF Keeps, Asking
<1>2. FirstRequestId \in DOMAIN Inbox(c) <=> c \in Pending'
  BY Zenon DEF Polled, Pending
<1>3. ASSUME m.type = "Subscribe"
      PROVE  /\ c \in Asking /\ c \notin Asking'
             /\ m.request_id = FirstRequestId
  <2>1. to_relay[c] # << >> /\ m = Head(to_relay[c])
    BY <1>0, <1>3, HeadOf DEF Typing
  <2>2. /\ Head(to_relay[c]) \in Msgs(to_relay[c])
        /\ Msgs(Tail(to_relay[c])) \subseteq Msgs(to_relay[c])
        /\ Msgs(to_relay[c]) \subseteq ToRelay(c)
    BY <1>0, <2>1, MsgsTail, MsgsIn, Zenon
  <2>3. \A n \in Msgs(Tail(to_relay[c])) :
            n.type = "Subscribe" => n.request_id # m.request_id
    BY <1>0, <1>3, <2>1, DistinctTail, Zenon
  <2>4. \A n \in Msgs(to_relay[c]) : n.type = "Subscribe" => n.request_id = FirstRequestId
    BY <1>0, <2>2, RelayMessages, Zenon
  <2>5. to_relay'[c] = Tail(to_relay[c])
    BY <2>1, Zenon DEF Polled
  <2> QED
    BY <1>3, <2>1, <2>2, <2>3, <2>4, <2>5, Zenon DEF Asking
<1>4. c \in Pending' <=> c \in Pending \/ m.type = "Subscribe"
  <2>1. CASE m.type = "Subscribe"
    <3>1. DOMAIN Inbox(c) =
              DOMAIN session[c].pending_received_subscriptions \cup {FirstRequestId}
      BY <1>3, <2>1 DEF Inbox, Put
    <3> QED
      BY <1>2, <2>1, <3>1
  <2>2. CASE m.type # "Subscribe"
    <3>1. Inbox(c) = session[c].pending_received_subscriptions
      BY <2>2, Zenon DEF Inbox
    <3> QED
      BY <1>2, <2>2, <3>1, Zenon DEF Pending
  <2> QED
    BY <2>1, <2>2
<1> QED
  BY <1>1, <1>2, <1>3, <1>4

\* Only request ids are compared, but a client that is queued has none that could be.
LEMMA NotQueued ==
    ASSUME Typing, Requests, NEW c \in Client, Polled(c), QueuedOne(c),
           NEW u \in DOMAIN subscriptions, NEW i \in DOMAIN subscriptions[u].subscribers
    PROVE  subscriptions[u].subscribers[i].client_id # c
<1> DEFINE r == subscriptions[u].subscribers[i]
           t == TrackOf[c]
<1>1. r.client_id \in Subscriber /\ r.request_id = FirstRequestId
  BY QueuedClients
<1>2. QueuedFor(u, r.client_id, r.accepted)
  BY Zenon DEF Requests, Queue
<1>3. /\ c \in Subscriber
      /\ FirstRequestId \in DOMAIN Inbox(c)
      /\ ~AlreadyQueued(t, FirstRequestId)
  BY Zenon DEF QueuedOne
<1>4. u = t => r.accepted
  BY <1>1, <1>3, Zenon DEF AlreadyQueued
<1>5. c \in Asking \/ c \in Pending
  BY <1>3, PolledRequest DEF Requests, Requesting
<1> HIDE DEF r
<1>6. ASSUME r.client_id = c PROVE FALSE
  <2>1. u = t /\ c \notin Asking /\ (r.accepted => c \notin Pending)
    BY <1>2, <1>6, Zenon DEF QueuedFor
  <2> QED
    BY <1>4, <1>5, <2>1
<1> QED
  BY <1>6 DEF r

LEMMA ReceiveRequests ==
    ASSUME Typing, Requests, NEW c \in Client, Receive(c)
    PROVE  Requests'
<1>1. /\ Polled(c) /\ (UNCHANGED subscriptions \/ QueuedOne(c))
      /\ UNCHANGED <<conn, to_client, asked>>
  BY PollEffect, DecideEffect DEF Receive, clientVars
<1>2. \A s \in Subscriber : s # c => Quiet(s)
  <2> SUFFICES ASSUME NEW s \in Subscriber, s # c PROVE Quiet(s)
    OBVIOUS
  <2>0. s \in Client
    BY Constants
  <2>1. session'[s] = session[s]
    BY <1>1, <2>0, Zenon DEF Polled
  <2>2. /\ Keeps(to_relay[s], to_relay'[s], "Subscribe")
        /\ Keeps(to_client[s], to_client'[s], "SubscribeOk")
    BY <1>1, <2>0, KeepsPolled, KeepsUnchanged, Zenon
  <2> QED
    BY <1>1, <2>1, <2>2, Zenon DEF Quiet, SameRequests
<1>3. CASE c \notin Subscriber
  <2>1. UNCHANGED subscriptions
    BY <1>1, <1>3 DEF QueuedOne
  <2> QED
    BY <1>2, <1>3, <2>1, QuietUnchanged
<1>4. CASE c \in Subscriber
  <2>1. Requesting(c)
    BY <1>4 DEF Requests
  <2>2. /\ Message(c).type = "Subscribe" => c \in Asking /\ c \notin Asking'
        /\ c \in Asking' => c \in Asking
        /\ FirstRequestId \in DOMAIN Inbox(c) <=> c \in Pending'
        /\ c \in Pending' <=> c \in Pending \/ Message(c).type = "Subscribe"
    BY <1>1, <1>4, <2>1, PolledRequest DEF Requesting
  <2>3. \A s \in Subscriber : Requesting(s)'
    <3>1. c \in Answering' <=> c \in Answering
      BY <1>1, Zenon DEF Answering
    <3>2. /\ Distinct(to_relay'[c], "Subscribe")
          /\ Distinct(to_client'[c], "SubscribeOk")
      BY <1>1, <2>1, KeepsPolled, Zenon DEF Keeps, Requesting
    <3>3. Requesting(c)'
      BY <1>1, <2>1, <2>2, <3>1, <3>2, Zenon DEF Requesting
    <3> QED
      BY <1>2, <3>3, QuietRequesting, Zenon DEF Requests
  <2>4. Queue
    BY DEF Requests
  <2>5. CASE UNCHANGED subscriptions
    <3> DEFINE C == {s \in Subscriber : s # c \/ c \notin Asking}
    <3>1. \A s \in C : Carries(s)
      <4>1. c \notin Asking => Carries(c)
        BY <1>1, <2>2 DEF Carries
      <4> QED
        BY <1>2, <4>1, QuietCarries
    <3>2. \A t \in DOMAIN subscriptions : \A k \in DOMAIN subscriptions[t].subscribers :
              subscriptions[t].subscribers[k].client_id \in C
      BY <2>4, QueuedClients DEF Queue, QueuedFor
    <3> HIDE DEF C
    <3>3. C \in SUBSET Subscriber
      BY DEF C
    <3>4. \A t \in DOMAIN subscriptions :
              LET w == subscriptions'[t].subscribers IN
              /\ Derives(subscriptions[t].subscribers, w)
              /\ \A k \in DOMAIN w : w[k].client_id \in C
      BY <2>5, <3>2, DerivesSame, Zenon
    <3>5. Queue'
      BY <2>4, <2>5, <3>1, <3>3, <3>4, CarriesQueue
    <3> QED
      BY <2>3, <3>5, Zenon DEF Requests
  <2>6. CASE QueuedOne(c)
    <3> DEFINE t == TrackOf[c]
               e == NewSubscriber(c, FirstRequestId)
    <3>1. /\ DOMAIN subscriptions' = DOMAIN subscriptions \cup {t}
          /\ \A u \in DOMAIN subscriptions : u # t => subscriptions'[u] = subscriptions[u]
          /\ t \in DOMAIN subscriptions =>
                subscriptions'[t].subscribers = Append(subscriptions[t].subscribers, e)
          /\ t \notin DOMAIN subscriptions => subscriptions'[t].subscribers = << e >>
          /\ c \in Pending'
          /\ ~AlreadyQueued(t, FirstRequestId)
      BY <2>2, <2>6, Zenon DEF QueuedOne
    <3>2. e.client_id = c /\ e.accepted = FALSE
      BY Infos, Zenon
    <3> HIDE DEF e
    <3>3. \A u \in DOMAIN subscriptions : \A i \in DOMAIN subscriptions[u].subscribers :
              subscriptions[u].subscribers[i].client_id # c
      BY <1>1, <2>6, NotQueued
    <3>4. QueuedFor(t, c, FALSE)'
      BY <1>1, <2>1, <2>2, <3>1, Zenon DEF QueuedFor, Requesting
    <3>5. ASSUME NEW u \in DOMAIN subscriptions, NEW i \in DOMAIN subscriptions[u].subscribers,
                 NEW s, NEW a, s = subscriptions[u].subscribers[i].client_id,
                 a = subscriptions[u].subscribers[i].accepted
          PROVE  QueuedFor(u, s, a)'
      <4>1. QueuedFor(u, s, a)
        BY <2>4, <3>5, Zenon DEF Queue
      <4>2. s \in Subscriber /\ s # c
        BY <3>3, <3>5, QueuedClients
      <4>3. Carries(s)
        BY <1>2, <4>2, QuietCarries
      <4> QED
        BY <4>1, <4>3, Zenon DEF QueuedFor, Carries
    <3>6. \A u \in DOMAIN subscriptions : \A i, j \in DOMAIN subscriptions[u].subscribers :
              subscriptions[u].subscribers[i].client_id = subscriptions[u].subscribers[j].client_id
              => i = j
      BY <2>4, Zenon DEF Queue
    <3>7. ASSUME NEW u \in DOMAIN subscriptions'
          PROVE  LET w == subscriptions'[u].subscribers IN
                 /\ \A i \in DOMAIN w : \A s, a :
                       s = w[i].client_id /\ a = w[i].accepted => QueuedFor(u, s, a)'
                 /\ \A i, j \in DOMAIN w : w[i].client_id = w[j].client_id => i = j
      <4>1. CASE u # t
        <5>1. u \in DOMAIN subscriptions /\ subscriptions'[u] = subscriptions[u]
          BY <3>1, <4>1, Zenon
        <5> QED
          BY <3>5, <3>6, <5>1, Zenon
      <4>2. CASE u = t /\ t \in DOMAIN subscriptions
        <5> DEFINE v == subscriptions[t].subscribers
                   w == subscriptions'[t].subscribers
                   n == Len(v) + 1
        <5>1. v \in Seq(SubscriberInfo) /\ w = Append(v, e)
          BY <3>1, <4>2, Zenon DEF Typing, SubscriptionsType
        <5> HIDE DEF v, w
        <5>2. /\ \A i \in DOMAIN v : w[i] = v[i]
              /\ \A i \in DOMAIN w : i \in DOMAIN v \/ i = n
              /\ w[n] = e
          BY <5>1
        <5> HIDE DEF n
        <5>3. ASSUME NEW i \in DOMAIN w, NEW s, NEW a, s = w[i].client_id, a = w[i].accepted
              PROVE  QueuedFor(t, s, a)'
          <6>1. CASE i \in DOMAIN v
            <7>1. s = v[i].client_id /\ a = v[i].accepted
              BY <5>2, <5>3, <6>1
            <7> QED
              BY <3>5, <4>2, <6>1, <7>1, Zenon DEF v
          <6>2. CASE i = n
            <7>1. s = c /\ a = FALSE
              BY <3>2, <5>2, <5>3, <6>2
            <7> QED
              BY <3>4, <7>1, Zenon
          <6> QED
            BY <5>2, <6>1, <6>2
        <5>4. \A i \in DOMAIN v : w[i].client_id # w[n].client_id
          BY <3>2, <3>3, <4>2, <5>2, Zenon DEF v
        <5>5. \A i, j \in DOMAIN v : w[i].client_id = w[j].client_id => i = j
          <6>1. \A i, j \in DOMAIN v : v[i].client_id = v[j].client_id => i = j
            BY <3>6, <4>2, Zenon DEF v
          <6> QED
            BY <5>2, <6>1
        <5>6. \A i, j \in DOMAIN w : w[i].client_id = w[j].client_id => i = j
          BY <5>2, <5>4, <5>5
        <5> QED
          BY <4>2, <5>3, <5>6, Zenon DEF w
      <4>3. CASE u = t /\ t \notin DOMAIN subscriptions
        <5> DEFINE w == subscriptions'[t].subscribers
        <5>1. w = << e >>
          BY <3>1, <4>3, Zenon
        <5> HIDE DEF w
        <5>2. \A i \in DOMAIN w : i = 1 /\ w[i] = e
          BY <5>1
        <5>3. \A i \in DOMAIN w : \A s, a :
                  s = w[i].client_id /\ a = w[i].accepted => QueuedFor(t, s, a)'
          BY <3>2, <3>4, <5>2, Zenon
        <5> QED
          BY <4>3, <5>2, <5>3, Zenon DEF w
      <4> QED
        BY <4>1, <4>2, <4>3
    <3>8. Queue'
      BY <3>7, QueueNext
    <3> QED
      BY <2>3, <3>8, Zenon DEF Requests
  <2> QED
    BY <1>1, <2>5, <2>6
<1> QED
  BY <1>3, <1>4

LEMMA AcceptRequests ==
    ASSUME Typing, Requests, Accepting, UNCHANGED <<conn, to_relay, asked>>
    PROVE  Requests'
<1> DEFINE A == AcceptedClients
<1>1. \A t \in DOMAIN subscriptions : \A i \in DOMAIN subscriptions[t].subscribers :
          CanAccept(t, i) =>
              /\ subscriptions[t].subscribers[i].client_id \in A
              /\ subscriptions[t].subscribers[i].client_id \in Pending
  <2> SUFFICES ASSUME NEW t \in DOMAIN subscriptions, NEW i \in DOMAIN subscriptions[t].subscribers,
                      CanAccept(t, i)
               PROVE  /\ subscriptions[t].subscribers[i].client_id \in A
                      /\ subscriptions[t].subscribers[i].client_id \in Pending
    OBVIOUS
  <2>1. subscriptions[t].subscribers[i].client_id \in A
    BY DEF AcceptedClients, CanAccept
  <2>2. /\ QueuedFor(t, subscriptions[t].subscribers[i].client_id,
                     subscriptions[t].subscribers[i].accepted)
        /\ ~subscriptions[t].subscribers[i].accepted
        /\ conn[subscriptions[t].subscribers[i].client_id] = "open"
    BY DEF Requests, Queue, CanAccept, Open
  <2> QED
    BY <2>1, <2>2 DEF QueuedFor
<1>2. \A c \in A : /\ c \in Subscriber /\ c \in Pending
                   /\ \E t \in DOMAIN subscriptions : \E i \in DOMAIN subscriptions[t].subscribers :
                         CanAccept(t, i) /\ subscriptions[t].subscribers[i].client_id = c
  BY <1>1 DEF AcceptedClients, Pending
<1> HIDE DEF A
<1>3. \A c \in Client : /\ c \in A => to_client'[c] = Append(to_client[c], Reply("SubscribeOk", FirstRequestId))
                        /\ c \notin A => to_client'[c] = to_client[c]
                        /\ c \in A => FirstRequestId \notin DOMAIN session'[c].pending_received_subscriptions
                        /\ c \notin A => DOMAIN session'[c].pending_received_subscriptions
                                             = DOMAIN session[c].pending_received_subscriptions
  BY DEF Accepting, Tells, A
<1>4. \A s \in Subscriber : s \notin A => Quiet(s)
  <2> SUFFICES ASSUME NEW s \in Subscriber, s \notin A PROVE Quiet(s)
    OBVIOUS
  <2>0. s \in Client
    BY Constants
  <2>1. Keeps(to_client[s], to_client[s], "SubscribeOk") /\ Keeps(to_relay[s], to_relay[s], "Subscribe")
    BY <2>0, QueueOf, KeepsQueue, Zenon
  <2> QED
    BY <1>3, <2>0, <2>1, Zenon DEF Quiet
<1>5. ASSUME NEW s \in A PROVE Requesting(s)' /\ s \notin Pending' /\ s \notin Asking'
  <2> DEFINE m == Reply("SubscribeOk", FirstRequestId)
             q == to_client[s]
  <2>0. s \in Subscriber /\ s \in Client /\ s \in Pending
    BY <1>2, Constants
  <2>1. Requesting(s)
    BY <2>0 DEF Requests
  <2>2. s \notin Asking /\ s \notin Answering
    BY <2>0, <2>1, Zenon DEF Requesting
  <2>3. asked[s] = "waiting"
    <3>1. conn[s] = "open"
      BY DEF A, AcceptedClients, Open
    <3> QED
      BY <2>0, <2>1, <3>1 DEF Requesting
  <2>4. Distinct(Append(q, m), "SubscribeOk")
    <3>1. q \in Seq(ToClient)
      BY <2>0, QueueOf
    <3>2. \A n \in Msgs(q) : n.type # "SubscribeOk"
      BY <2>0, <2>2, Zenon DEF Answering
    <3>3. Distinct(q, "SubscribeOk")
      BY <2>1, Zenon DEF Requesting
    <3> HIDE DEF q, m
    <3> QED
      BY <3>1, <3>2, <3>3, DistinctAppend, Zenon
  <2>5. s \notin Pending'
    BY <1>3, <2>0, Zenon DEF Pending
  <2>6. s \notin Asking'
    BY <2>2 DEF Asking
  <2>7. Distinct(to_client'[s], "SubscribeOk")
    <3>1. to_client'[s] = Append(q, m)
      BY <1>3, <2>0
    <3> QED
      BY <2>4, <3>1
  <2>8. Distinct(to_relay'[s], "Subscribe")
    BY <2>1 DEF Requesting
  <2>9. asked'[s] = "waiting"
    BY <2>3
  <2> QED
    BY <2>5, <2>6, <2>7, <2>8, <2>9 DEF Requesting
<1>6. \A s \in Subscriber : Requesting(s)'
  BY <1>4, <1>5, QuietRequesting, Zenon DEF Requests
<1>7. ASSUME NEW t \in DOMAIN subscriptions', NEW i \in DOMAIN subscriptions'[t].subscribers,
             NEW s, NEW a, s = subscriptions'[t].subscribers[i].client_id,
             a = subscriptions'[t].subscribers[i].accepted
      PROVE  QueuedFor(t, s, a)'
  <2> DEFINE v == subscriptions[t].subscribers
             w == subscriptions'[t].subscribers
  <2>1. /\ t \in DOMAIN subscriptions /\ i \in DOMAIN v
        /\ s = v[i].client_id
        /\ a <=> v[i].accepted \/ CanAccept(t, i)
    <3>1. /\ t \in DOMAIN subscriptions
          /\ DOMAIN w = DOMAIN v
          /\ \A k \in DOMAIN v :
                /\ w[k].client_id = v[k].client_id
                /\ w[k].accepted <=> v[k].accepted \/ CanAccept(t, k)
      BY Zenon DEF Accepting
    <3>2. s = w[i].client_id /\ a = w[i].accepted /\ i \in DOMAIN w
      BY <1>7
    <3> HIDE DEF v, w
    <3> QED
      BY <3>1, <3>2, Zenon
  <2>2. QueuedFor(t, s, v[i].accepted)
    BY <2>1, Zenon DEF Requests, Queue
  <2>3. s \in Subscriber
    BY <2>1, QueuedClients
  <2>4. CASE s \in A
    <3>1. PICK u \in DOMAIN subscriptions : \E j \in DOMAIN subscriptions[u].subscribers :
              CanAccept(u, j) /\ subscriptions[u].subscribers[j].client_id = s
      BY <1>2, <2>4, Zenon
    <3>2. PICK j \in DOMAIN subscriptions[u].subscribers :
              CanAccept(u, j) /\ subscriptions[u].subscribers[j].client_id = s
      BY <3>1
    <3>3. QueuedFor(u, s, subscriptions[u].subscribers[j].accepted)
      BY <3>2, Zenon DEF Requests, Queue
    <3>4. u = t
      BY <2>2, <3>3, Zenon DEF QueuedFor
    <3>5. j = i
      BY <2>1, <3>2, <3>4, Zenon DEF Requests, Queue
    <3>6. a
      BY <2>1, <3>2, <3>4, <3>5, Zenon
    <3>7. s \notin Pending' /\ s \notin Asking'
      BY <1>5, <2>4, Zenon
    <3> QED
      BY <2>2, <3>6, <3>7 DEF QueuedFor
  <2>5. CASE s \notin A
    <3>1. a <=> v[i].accepted
      BY <1>1, <2>1, <2>5, Zenon
    <3>2. Carries(s)
      BY <1>4, <2>3, <2>5, QuietCarries
    <3> QED
      BY <2>2, <3>1, <3>2, Zenon DEF QueuedFor, Carries
  <2> QED
    BY <2>4, <2>5
<1>8. ASSUME NEW t \in DOMAIN subscriptions',
             NEW i \in DOMAIN subscriptions'[t].subscribers,
             NEW j \in DOMAIN subscriptions'[t].subscribers,
             subscriptions'[t].subscribers[i].client_id = subscriptions'[t].subscribers[j].client_id
      PROVE  i = j
  <2> DEFINE v == subscriptions[t].subscribers
             w == subscriptions'[t].subscribers
  <2>1. /\ t \in DOMAIN subscriptions
        /\ DOMAIN w = DOMAIN v
        /\ \A k \in DOMAIN v : w[k].client_id = v[k].client_id
    BY Zenon DEF Accepting
  <2>2. /\ i \in DOMAIN v /\ w[i].client_id = v[i].client_id
        /\ j \in DOMAIN v /\ w[j].client_id = v[j].client_id
    BY <2>1, Zenon
  <2>3. \A k, l \in DOMAIN v : v[k].client_id = v[l].client_id => k = l
    BY <2>1, Zenon DEF Requests, Queue
  <2>4. v[i].client_id = v[j].client_id
    BY <1>8, <2>2
  <2> HIDE DEF v
  <2> QED
    BY <2>2, <2>3, <2>4
<1>9. Queue'
  BY <1>7, <1>8, QueueNext, Zenon
<1> QED
  BY <1>6, <1>9, Zenon DEF Requests

LEMMA CleanupRequests ==
    ASSUME Typing, Connections, Requests, Cleanup
    PROVE  Requests'
<1>1. Cleaning /\ UNCHANGED <<to_relay, to_client, asked>>
  BY CleanupEffect DEF Cleanup, clientVars
<1>2. \A s \in Subscriber : s \notin Closed => Quiet(s)
  <2> SUFFICES ASSUME NEW s \in Subscriber, s \notin Closed PROVE Quiet(s)
    OBVIOUS
  <2>0. s \in Client
    BY Constants
  <2>1. conn'[s] = conn[s] /\ session'[s] = session[s]
    BY <1>1, <2>0, Zenon DEF Cleaning
  <2>2. /\ Keeps(to_relay[s], to_relay'[s], "Subscribe")
        /\ Keeps(to_client[s], to_client'[s], "SubscribeOk")
    BY <1>1, <2>0, KeepsUnchanged, Zenon
  <2> QED
    BY <1>1, <2>1, <2>2, Zenon DEF Quiet
<1>3. ASSUME NEW s \in Subscriber, s \in Closed PROVE Requesting(s)'
  <2>0. s \in Client
    BY Constants
  <2>1. to_relay[s] = << >> /\ to_client[s] = << >>
    BY <1>3, <2>0 DEF Closed, Connections, QueuesOpen
  <2>2. Msgs(to_relay[s]) = {} /\ Msgs(to_client[s]) = {}
    BY <2>0, <2>1, QueueOf, MsgsIn, Zenon
  <2>3. s \notin Asking' /\ s \notin Answering'
    BY <1>1, <2>2, Zenon DEF Asking, Answering
  <2>4. s \notin Pending'
    BY <1>1, <1>3, NewSessionType, Zenon DEF Cleaning, Pending
  <2>5. Distinct(to_relay'[s], "Subscribe") /\ Distinct(to_client'[s], "SubscribeOk")
    BY <1>1, Zenon DEF Requests, Requesting
  <2> QED
    BY <2>3, <2>4, <2>5, Zenon DEF Requesting
<1>4. \A s \in Subscriber : Requesting(s)'
  BY <1>2, <1>3, QuietRequesting, Zenon DEF Requests
<1> DEFINE C == {s \in Subscriber : s \notin Closed}
<1>5. C \in SUBSET Subscriber /\ \A s \in C : Carries(s)
  BY <1>2, QuietCarries
<1>6. \A t \in DOMAIN subscriptions :
          LET w == subscriptions'[t].subscribers IN
          /\ Derives(subscriptions[t].subscribers, w)
          /\ \A k \in DOMAIN w : w[k].client_id \in C
  <2> SUFFICES ASSUME NEW t \in DOMAIN subscriptions, NEW k \in DOMAIN subscriptions'[t].subscribers
               PROVE  subscriptions'[t].subscribers[k].client_id \in C
    BY <1>1, Zenon DEF Cleaning, Selects
  <2>1. subscriptions'[t].subscribers \in Seq(SubscriberInfo)
    BY <1>1, Zenon DEF Cleaning, Selects
  <2>2. subscriptions'[t].subscribers[k] \in SubscriberInfo
    BY <2>1
  <2>3. subscriptions'[t].subscribers[k].client_id \in Subscriber
    BY <2>2 DEF SubscriberInfo
  <2>4. conn[subscriptions'[t].subscribers[k].client_id] # "closed"
    <3>1. \A u \in DOMAIN subscriptions : \A l \in DOMAIN subscriptions'[u].subscribers :
              conn[subscriptions'[u].subscribers[l].client_id] # "closed"
      BY <1>1, Zenon DEF Cleaning
    <3> QED
      BY <3>1, Zenon
  <2> QED
    BY <2>3, <2>4, Zenon DEF Closed
<1> HIDE DEF C
<1>7. DOMAIN subscriptions' = DOMAIN subscriptions
  BY <1>1 DEF Cleaning, Selects
<1>8. Queue'
  BY <1>5, <1>6, <1>7, CarriesQueue DEF Requests
<1> QED
  BY <1>4, <1>8, Zenon DEF Requests

\* The other steps of the loop send and take nothing of a request.
LEMMA LoopQuiet ==
    ASSUME Typing, UNCHANGED <<conn, to_relay, asked>>,
           \A c \in Client : SameRequests(session[c], session'[c]),
           \A c \in Client : Keeps(to_client[c], to_client'[c], "SubscribeOk")
    PROVE  \A s \in Subscriber : Quiet(s)
<1> SUFFICES ASSUME NEW s \in Subscriber PROVE Quiet(s)
  OBVIOUS
<1>0. s \in Client
  BY Constants
<1>1. Keeps(to_relay[s], to_relay'[s], "Subscribe")
  BY <1>0, KeepsUnchanged, Zenon
<1>2. SameRequests(session[s], session'[s]) /\ Keeps(to_client[s], to_client'[s], "SubscribeOk")
  BY <1>0, Zenon
<1>3. asked'[s] = asked[s] /\ conn'[s] = conn[s]
  OBVIOUS
<1> QED
  BY <1>1, <1>2, <1>3, Zenon DEF Quiet, SameRequests

LEMMA LoopRequests ==
    ASSUME Typing, Requests
    PROVE  /\ \A c \in Client, ns \in Namespace : Withdraw(c, ns) => Requests'
           /\ \A c \in Client, ns \in Namespace : Announce(c, ns) => Requests'
           /\ \A t \in Track : Request(t) => Requests'
           /\ Respond => Requests'
           /\ Finish => Requests'
           /\ Forward => Requests'
<1>1. ASSUME NEW c \in Client, NEW ns \in Namespace, Withdraw(c, ns) PROVE Requests'
  <2>1. Withdrawn(c, ns) /\ UNCHANGED <<subscriptions, conn, to_relay, asked>>
    BY <1>1, WithdrawEffect DEF Withdraw, clientVars
  <2>2. \A d \in Client : SameRequests(session[d], session'[d])
    BY <2>1, Zenon DEF Withdrawn, SameRequests
  <2>3. \A d \in Client : Keeps(to_client[d], to_client'[d], "SubscribeOk")
    <3> DEFINE m == Reply("PublishNamespaceDone", announced_namespaces[c][ns])
    <3>1. UNCHANGED to_client \/ Sends(to_client, to_client', c, m)
      BY <2>1, Zenon DEF Withdrawn
    <3>2. m.type # "SubscribeOk"
      BY Fields
    <3> HIDE DEF m
    <3> QED
      BY <3>1, <3>2, KeepsSends
  <2> QED
    BY <2>1, <2>2, <2>3, LoopQuiet, QuietUnchanged
<1>2. ASSUME NEW c \in Client, NEW ns \in Namespace, Announce(c, ns) PROVE Requests'
  <2>1. Told(c, ns) /\ UNCHANGED <<subscriptions, conn, to_relay, asked>>
    BY <1>2, AnnounceEffect DEF Announce, clientVars
  <2>2. \A d \in Client : SameRequests(session[d], session'[d])
    BY <2>1, Zenon DEF Told, SameRequests
  <2>3. \A d \in Client : Keeps(to_client[d], to_client'[d], "SubscribeOk")
    <3> DEFINE m == Announcement(session[c].next_request_id, ns)
    <3>1. Sends(to_client, to_client', c, m)
      BY <2>1, Zenon DEF Told
    <3>2. m.type # "SubscribeOk"
      BY Fields
    <3> HIDE DEF m
    <3> QED
      BY <3>1, <3>2, KeepsSends
  <2> QED
    BY <2>1, <2>2, <2>3, LoopQuiet, QuietUnchanged
<1>3. ASSUME NEW t \in Track, Request(t) PROVE Requests'
  <2> DEFINE c == subscriptions'[t].publisher.client_id
             m == Subscribe(session[c].next_request_id, t)
  <2>1. Requested(t) /\ UNCHANGED <<conn, to_relay, asked>>
    BY <1>3, RequestEffect DEF Request, clientVars
  <2>2. \/ UNCHANGED <<session, to_client>>
        \/ /\ c \in Client
           /\ Sends(to_client, to_client', c, m)
           /\ \A d \in Client : d # c => session'[d] = session[d]
           /\ SameRequests(session[c], session'[c])
    BY <2>1, Constants, Zenon DEF Requested
  <2>3. m.type # "SubscribeOk"
    BY Fields
  <2>4. subscriptions'[t].subscribers = subscriptions[t].subscribers
    BY <2>1, Zenon DEF Requested
  <2> HIDE DEF c, m
  <2>5. \A d \in Client : SameRequests(session[d], session'[d])
    BY <2>2, Zenon DEF SameRequests
  <2>6. \A d \in Client : Keeps(to_client[d], to_client'[d], "SubscribeOk")
    BY <2>2, <2>3, KeepsSends
  <2>7. \A u \in DOMAIN subscriptions : subscriptions'[u].subscribers = subscriptions[u].subscribers
    BY <2>1, <2>4, Zenon DEF Requested
  <2>8. \A u \in DOMAIN subscriptions :
            /\ subscriptions'[u].subscribers \in Seq(SubscriberInfo)
            /\ Derives(subscriptions[u].subscribers, subscriptions'[u].subscribers)
    BY <2>7, DerivesSame, Zenon DEF Typing, SubscriptionsType
  <2>9. DOMAIN subscriptions' = DOMAIN subscriptions
    BY <2>1, Zenon DEF Requested
  <2> QED
    BY <2>1, <2>5, <2>6, <2>8, <2>9, LoopQuiet, QuietRequests
<1>4. ASSUME Respond PROVE Requests'
  <2>1. Responding /\ UNCHANGED <<conn, to_relay, to_client, asked>>
    BY <1>4, RespondEffect DEF Respond, clientVars
  <2>2. \A d \in Client : SameRequests(session[d], session'[d])
    BY <2>1, Zenon DEF Responding
  <2>3. \A d \in Client : Keeps(to_client[d], to_client'[d], "SubscribeOk")
    BY <2>1, KeepsUnchanged
  <2>4. \A u \in DOMAIN subscriptions :
            /\ subscriptions'[u].subscribers \in Seq(SubscriberInfo)
            /\ Derives(subscriptions[u].subscribers, subscriptions'[u].subscribers)
    BY <2>1, DerivesSame, Zenon DEF Typing, SubscriptionsType, Responding
  <2>5. DOMAIN subscriptions' = DOMAIN subscriptions
    BY <2>1, Zenon DEF Responding
  <2> QED
    BY <2>1, <2>2, <2>3, <2>4, <2>5, LoopQuiet, QuietRequests
<1>5. ASSUME Finish PROVE Requests'
  <2>1. Finishing /\ UNCHANGED <<session, conn, to_relay, asked>>
    BY <1>5, FinishEffect DEF Finish, clientVars
  <2>2. \A d \in Client : SameRequests(session[d], session'[d])
    BY <2>1 DEF SameRequests
  <2>3. \A d \in Client : Keeps(to_client[d], to_client'[d], "SubscribeOk")
    BY <2>1, KeepsTells DEF Finishing
  <2> QED
    BY <2>1, <2>2, <2>3, LoopQuiet, QuietRequests DEF Finishing, Selects
<1>6. ASSUME Forward PROVE Requests'
  <2>1. Forwarding /\ UNCHANGED <<session, conn, to_relay, to_client, asked>>
    BY <1>6, ForwardEffect DEF Forward, clientVars
  <2>2. \A d \in Client : SameRequests(session[d], session'[d])
    BY <2>1 DEF SameRequests
  <2>3. \A d \in Client : Keeps(to_client[d], to_client'[d], "SubscribeOk")
    BY <2>1, KeepsUnchanged
  <2> QED
    BY <2>1, <2>2, <2>3, LoopQuiet, QuietRequests DEF Forwarding, Selects
<1> QED
  BY <1>1, <1>2, <1>3, <1>4, <1>5, <1>6

\* A step of a client other than a request, an answer and its end.
LEMMA ClientQuiet ==
    ASSUME Typing, Requests, UNCHANGED <<session, subscriptions, asked>>,
           \A c \in Client : conn'[c] = "closed" <=> conn[c] = "closed",
           \A c \in Client : Keeps(to_relay[c], to_relay'[c], "Subscribe"),
           \A c \in Client : Keeps(to_client[c], to_client'[c], "SubscribeOk")
    PROVE  Requests'
<1>1. \A s \in Subscriber : Quiet(s)
  BY Constants, Zenon DEF Quiet
<1> QED
  BY <1>1, QuietUnchanged

LEMMA ConnectRequests ==
    ASSUME Typing, Requests, NEW c \in Client, Connect(c)
    PROVE  Requests'
<1>1. UNCHANGED <<session, subscriptions, asked, to_client>>
  BY DEF Connect, relayVars, clientVars
<1>2. \A d \in Client : conn'[d] = "closed" <=> conn[d] = "closed"
  BY DEF Connect, Typing, LoopType
<1>3. \A d \in Client : Keeps(to_relay[d], to_relay'[d], "Subscribe")
  <2>1. CASE c \in Publisher
    <3> DEFINE m == Announcement(FirstRequestId, NamespaceOf[TrackOf[c]])
    <3>1. Reach(c, m)
      BY <2>1 DEF Connect
    <3>2. FirstRequestId \in Nat /\ NamespaceOf[TrackOf[c]] \in Namespace
      BY Constants DEF FirstRequestId
    <3>3. m \in ToRelay(c)
      BY <2>1, <3>2, Messages, Zenon
    <3>4. m.type # "Subscribe"
      BY Fields
    <3> HIDE DEF m
    <3>5. Sends(to_relay, to_relay', c, m)
      BY <3>1, <3>3, ReachType, QueuesTyped, Zenon DEF Typing
    <3> QED
      BY <3>4, <3>5, KeepsReaches
  <2>2. CASE c \notin Publisher
    BY <2>2, KeepsUnchanged DEF Connect
  <2> QED
    BY <2>1, <2>2
<1>4. \A d \in Client : Keeps(to_client[d], to_client'[d], "SubscribeOk")
  BY <1>1, KeepsUnchanged
<1> QED
  BY <1>1, <1>2, <1>3, <1>4, ClientQuiet

\* Subscribers that a step of s leaves alone.
LEMMA OthersQuiet ==
    ASSUME Typing, NEW s \in Subscriber, NEW d \in Subscriber, d # s,
           session' = session, conn'[d] = conn[d], asked'[d] = asked[d],
           to_relay'[d] = to_relay[d], to_client'[d] = to_client[d]
    PROVE  Quiet(d)
<1>1. Keeps(to_relay[d], to_relay[d], "Subscribe") /\ Keeps(to_client[d], to_client[d], "SubscribeOk")
  BY Constants, QueueOf, KeepsQueue, Zenon
<1> QED
  BY <1>1, Zenon DEF Quiet

LEMMA AskRequests ==
    ASSUME Typing, Requests, NEW s \in Subscriber, Ask(s)
    PROVE  Requests'
<1> DEFINE m == Subscribe(FirstRequestId, TrackOf[s])
           q == to_relay[s]
<1>0. s \in Client
  BY Constants
<1>1. /\ Reach(s, m)
      /\ asked[s] = "no" /\ conn[s] = "open"
      /\ asked' = [asked EXCEPT ![s] = "waiting"]
      /\ UNCHANGED <<session, subscriptions, conn, to_client>>
  BY DEF Ask, Connected, relayVars
<1>2. /\ asked'[s] = "waiting"
      /\ \A d \in Subscriber : d # s => asked'[d] = asked[d]
  BY <1>1 DEF Typing, ClientsType
<1>3. m \in ToRelay(s) /\ m.type = "Subscribe"
  <2>1. m \in ToRelay(s)
    BY Messages
  <2>2. m.type = "Subscribe"
    BY Fields
  <2> QED
    BY <2>1, <2>2
<1> HIDE DEF m
<1>4. Sends(to_relay, to_relay', s, m)
  BY <1>0, <1>1, <1>3, ReachType, QueuesTyped, Zenon DEF Typing
<1>5. \A d \in Subscriber : d # s => Quiet(d)
  <2> SUFFICES ASSUME NEW d \in Subscriber, d # s PROVE Quiet(d)
    OBVIOUS
  <2>1. to_relay'[d] = to_relay[d]
    BY <1>4, Constants, Zenon DEF Sends
  <2> QED
    BY <1>1, <1>2, <2>1, OthersQuiet
<1>6. Requesting(s) /\ s \notin Asking /\ s \notin Pending /\ s \notin Answering
  BY <1>1 DEF Requests, Requesting
<1>7. Requesting(s)'
  <2>1. \A n \in Msgs(q) : n.type # "Subscribe"
    BY <1>6, Zenon DEF Asking
  <2>2. q \in Seq(ToRelay(s)) /\ Distinct(q, "Subscribe")
    BY <1>0, <1>6, QueueOf DEF Requesting
  <2>3. Distinct(Append(q, m), "Subscribe")
    BY <2>1, <2>2, DistinctAppend, Zenon
  <2>4. Distinct(to_relay'[s], "Subscribe") /\ Distinct(to_client'[s], "SubscribeOk")
    BY <1>1, <1>4, <1>6, <2>3, Zenon DEF Sends, Requesting
  <2>5. s \notin Pending' /\ s \notin Answering'
    BY <1>1, <1>6 DEF Pending, Answering
  <2> QED
    BY <1>2, <2>4, <2>5, Zenon DEF Requesting
<1>8. \A d \in Subscriber : Requesting(d)'
  BY <1>5, <1>7, QuietRequesting, Zenon DEF Requests
<1> DEFINE C == {d \in Subscriber : d # s}
<1>9. C \in SUBSET Subscriber /\ \A d \in C : Carries(d)
  BY <1>5, QuietCarries
<1>10. \A t \in DOMAIN subscriptions : \A k \in DOMAIN subscriptions[t].subscribers :
           subscriptions[t].subscribers[k].client_id \in C
  <2> SUFFICES ASSUME NEW t \in DOMAIN subscriptions, NEW k \in DOMAIN subscriptions[t].subscribers
               PROVE  subscriptions[t].subscribers[k].client_id \in C
    OBVIOUS
  <2>1. QueuedFor(t, subscriptions[t].subscribers[k].client_id, subscriptions[t].subscribers[k].accepted)
    BY Zenon DEF Requests, Queue
  <2>2. subscriptions[t].subscribers[k].client_id # s
    BY <1>1, <2>1, Zenon DEF QueuedFor
  <2> QED
    BY <2>2, QueuedClients
<1> HIDE DEF C
<1>11. \A t \in DOMAIN subscriptions :
           LET w == subscriptions'[t].subscribers IN
           /\ Derives(subscriptions[t].subscribers, w)
           /\ \A k \in DOMAIN w : w[k].client_id \in C
  BY <1>1, <1>10, DerivesSame, Zenon
<1>12. DOMAIN subscriptions' = DOMAIN subscriptions
  BY <1>1
<1>13. Queue'
  BY <1>9, <1>11, <1>12, CarriesQueue DEF Requests
<1> QED
  BY <1>8, <1>13, Zenon DEF Requests

\* A step that leaves the queue alone, and the places of its clients.
LEMMA CarriesAll ==
    ASSUME Typing, Queue, UNCHANGED subscriptions, \A s \in Subscriber : Carries(s)
    PROVE  Queue'
<1>1. \A t \in DOMAIN subscriptions :
          LET w == subscriptions'[t].subscribers IN
          /\ Derives(subscriptions[t].subscribers, w)
          /\ \A k \in DOMAIN w : w[k].client_id \in Subscriber
  BY QueuedClients, DerivesSame, Zenon
<1>2. DOMAIN subscriptions' = DOMAIN subscriptions
  OBVIOUS
<1> QED
  BY <1>1, <1>2, CarriesQueue

LEMMA LostRequests ==
    ASSUME Typing, Requests, NEW c \in Client, Lost(c)
    PROVE  Requests'
<1>1. Losing(c) /\ UNCHANGED <<session, subscriptions>>
  BY LostEffect DEF Lost, relayVars
<1>2. ASSUME NEW s \in Subscriber, s # c PROVE Quiet(s)
  <2>1. /\ Keeps(to_relay[s], to_relay'[s], "Subscribe")
        /\ Keeps(to_client[s], to_client'[s], "SubscribeOk")
    BY <1>1, Constants, KeepsLosing, Zenon
  <2>2. conn'[s] = conn[s] /\ asked'[s] = asked[s]
    BY <1>1, <1>2, Constants, Zenon DEF Losing
  <2>3. session' = session
    BY <1>1
  <2> QED
    BY <2>1, <2>2, <2>3, Zenon DEF Quiet
<1>3. ASSUME c \in Subscriber PROVE Requesting(c)' /\ Carries(c)
  <2>1. to_relay'[c] = << >> /\ to_client'[c] = << >> /\ conn'[c] = "closed"
    BY <1>1, Zenon DEF Losing
  <2>2. Msgs(<< >>) = {}
    <3>1. << >> \in Seq({})
      OBVIOUS
    <3> QED
      BY <3>1, MsgsIn, Zenon
  <2>3. c \notin Asking' /\ c \notin Answering'
    BY <2>1, <2>2, Zenon DEF Asking, Answering
  <2>4. c \in Pending' <=> c \in Pending
    BY <1>1 DEF Pending
  <2>5. Distinct(to_relay'[c], "Subscribe") /\ Distinct(to_client'[c], "SubscribeOk")
    <3>1. DOMAIN << >> = {}
      OBVIOUS
    <3> QED
      BY <2>1, <3>1, Zenon DEF Distinct
  <2> QED
    BY <2>1, <2>3, <2>4, <2>5, Zenon DEF Requesting, Carries
<1>4. \A s \in Subscriber : Requesting(s)'
  BY <1>2, <1>3, QuietRequesting, Zenon DEF Requests
<1>5. \A s \in Subscriber : Carries(s)
  BY <1>2, <1>3, QuietCarries, Zenon
<1>6. Queue'
  BY <1>1, <1>5, CarriesAll DEF Requests
<1> QED
  BY <1>4, <1>6, Zenon DEF Requests

LEMMA RecvAnswerRequests ==
    ASSUME Typing, Requests, NEW s \in Subscriber, RecvAnswer(s)
    PROVE  Requests'
<1> DEFINE type == Head(to_client[s]).type
           q == to_client[s]
<1>0. s \in Client
  BY Constants
<1>1. Hearing(s) /\ UNCHANGED <<session, subscriptions, conn, to_relay>>
  BY HearingEffect DEF relayVars
<1>2. q # << >> /\ type \in {"SubscribeOk", "PublishDone"}
  BY DEF RecvAnswer, Arrived
<1>3. q \in Seq(ToClient) /\ to_client'[s] = Tail(q)
  BY <1>0, <1>1, QueueOf, Zenon DEF Hearing, Takes
<1>4. \A d \in Subscriber : d # s => Quiet(d)
  <2> SUFFICES ASSUME NEW d \in Subscriber, d # s PROVE Quiet(d)
    OBVIOUS
  <2>1. to_client'[d] = to_client[d] /\ asked'[d] = asked[d]
    BY <1>1, Constants, Zenon DEF Hearing, Takes
  <2> QED
    BY <1>1, <2>1, OthersQuiet
<1>5. Requesting(s)
  BY DEF Requests
<1>6. /\ Head(q) \in Msgs(q) /\ Msgs(q) \subseteq ToClient
      /\ Msgs(Tail(q)) \subseteq Msgs(q)
  BY <1>2, <1>3, MsgsTail, MsgsIn, Zenon
<1>7. /\ Distinct(Tail(q), "SubscribeOk")
      /\ \A m \in Msgs(Tail(q)) :
            m.type = "SubscribeOk" /\ type = "SubscribeOk" => m.request_id # Head(q).request_id
  BY <1>2, <1>3, <1>5, DistinctTail, Zenon DEF Requesting
<1>8. \A m \in Msgs(q) : m.type = "SubscribeOk" => m.request_id = FirstRequestId
  BY <1>6, ClientMessages, Zenon
<1>9. /\ type = "SubscribeOk" => s \in Answering /\ s \notin Answering'
      /\ s \in Answering' => s \in Answering
  BY <1>3, <1>6, <1>7, <1>8, Zenon DEF Answering
<1>10. (s \in Asking' <=> s \in Asking) /\ (s \in Pending' <=> s \in Pending)
  BY <1>1 DEF Asking, Pending
<1>11. Distinct(to_client'[s], "SubscribeOk") /\ Distinct(to_relay'[s], "Subscribe")
  BY <1>1, <1>3, <1>5, <1>7, Zenon DEF Requesting
<1>12. Requesting(s)' /\ Carries(s)
  <2>1. conn' = conn
    BY <1>1
  <2>2. CASE type = "SubscribeOk"
    <3>1. asked'[s] = "accepted" /\ s \notin Asking /\ s \notin Pending
      BY <1>1, <1>5, <1>9, <2>2, Zenon DEF Hearing, Requesting
    <3>2. "accepted" # "no"
      OBVIOUS
    <3> QED
      BY <1>9, <1>10, <1>11, <2>1, <2>2, <3>1, <3>2, Zenon DEF Requesting, Carries
  <2>3. CASE type # "SubscribeOk" /\ asked[s] = "accepted"
    <3>1. asked'[s] = "done" /\ asked[s] # "waiting"
      BY <1>1, <2>3 DEF Hearing
    <3>2. "done" # "no"
      OBVIOUS
    <3> QED
      BY <1>5, <1>9, <1>10, <1>11, <2>1, <3>1, <3>2, Zenon DEF Requesting, Carries
  <2>4. CASE type # "SubscribeOk" /\ asked[s] # "accepted"
    <3>1. asked'[s] = asked[s]
      BY <1>1, <2>4, Zenon DEF Hearing
    <3> QED
      BY <1>5, <1>9, <1>10, <1>11, <2>1, <3>1, Zenon DEF Requesting, Carries
  <2> QED
    BY <2>2, <2>3, <2>4
<1>13. \A d \in Subscriber : Requesting(d)'
  BY <1>4, <1>12, QuietRequesting, Zenon DEF Requests
<1>14. \A d \in Subscriber : Carries(d)
  BY <1>4, <1>12, QuietCarries, Zenon
<1>15. Queue'
  BY <1>1, <1>14, CarriesAll DEF Requests
<1> QED
  BY <1>13, <1>15, Zenon DEF Requests

LEMMA RecvRequests ==
    ASSUME Typing, Requests, NEW c \in Client, Recv(c)
    PROVE  Requests'
<1>1. CASE Lost(c)
  BY <1>1, LostRequests
<1>2. CASE RecvAnnouncement(c) /\ ~Lost(c)
  <2>1. Learning(c) /\ UNCHANGED <<session, subscriptions, conn, asked>>
    BY <1>2, LearningEffect DEF relayVars
  <2>2. to_client[c] # << >>
    BY <1>2, ArrivedAt DEF RecvAnnouncement
  <2>3. \A d \in Client : Keeps(to_client[d], to_client'[d], "SubscribeOk")
    BY <2>1, <2>2, KeepsTakes, Zenon DEF Learning
  <2>4. \A d \in Client : Keeps(to_relay[d], to_relay'[d], "Subscribe")
    <3> DEFINE m == Reply("PublishOk", Head(to_client[c]).request_id)
    <3>1. UNCHANGED to_relay \/ Sends(to_relay, to_relay', c, m)
      BY <2>1, Zenon DEF Learning
    <3>2. m.type # "Subscribe"
      BY Fields
    <3> HIDE DEF m
    <3> QED
      BY <3>1, <3>2, KeepsReaches
  <2> QED
    BY <2>1, <2>3, <2>4, ClientQuiet
<1>3. CASE c \in Publisher /\ RecvSubscribe(c) /\ ~Lost(c)
  <2>1. Serving(c) /\ UNCHANGED <<session, subscriptions, conn, asked>>
    BY <1>3, ServingEffect DEF relayVars
  <2>2. to_client[c] # << >>
    BY <1>3, ArrivedAt DEF RecvSubscribe
  <2>3. \A d \in Client : Keeps(to_client[d], to_client'[d], "SubscribeOk")
    BY <2>1, <2>2, KeepsTakes, Zenon DEF Serving
  <2>4. \A d \in Client : Keeps(to_relay[d], to_relay'[d], "Subscribe")
    <3> DEFINE m == Reply("SubscribeOk", Head(to_client[c]).request_id)
    <3>1. Sends(to_relay, to_relay', c, m)
      BY <2>1, Zenon DEF Serving
    <3>2. m.type # "Subscribe"
      BY Fields
    <3> HIDE DEF m
    <3> QED
      BY <3>1, <3>2, KeepsReaches
  <2> QED
    BY <2>1, <2>3, <2>4, ClientQuiet
<1>4. CASE c \in Subscriber /\ RecvWithdrawal(c)
  <2>1. Forgetting(c) /\ UNCHANGED <<session, subscriptions, conn, asked, to_relay>>
    BY <1>4, ForgettingEffect DEF RecvWithdrawal, relayVars
  <2>2. to_client[c] # << >>
    BY <1>4, ArrivedAt DEF RecvWithdrawal
  <2>3. \A d \in Client : Keeps(to_client[d], to_client'[d], "SubscribeOk")
    BY <2>1, <2>2, KeepsTakes, Zenon DEF Forgetting
  <2>4. \A d \in Client : Keeps(to_relay[d], to_relay'[d], "Subscribe")
    BY <2>1, KeepsUnchanged
  <2> QED
    BY <2>1, <2>3, <2>4, ClientQuiet
<1>5. CASE c \in Subscriber /\ RecvAnswer(c)
  BY <1>5, RecvAnswerRequests
<1> QED
  BY <1>1, <1>2, <1>3, <1>4, <1>5 DEF Recv

LEMMA EndTrackRequests ==
    ASSUME Typing, Requests, NEW p \in Publisher, NEW id \in DOMAIN serving[p], EndTrack(p, id)
    PROVE  Requests'
<1> DEFINE m == Reply("PublishDone", id)
<1>1. Ending(p, id) /\ UNCHANGED <<session, subscriptions, conn, asked, to_client>>
  BY EndingEffect DEF EndTrack, relayVars
<1>2. Sends(to_relay, to_relay', p, m) /\ p \in Client
  BY <1>1, Constants DEF Ending
<1>3. m.type # "Subscribe"
  BY Fields
<1> HIDE DEF m
<1>4. \A d \in Client : Keeps(to_relay[d], to_relay'[d], "Subscribe")
  BY <1>2, <1>3, KeepsReaches
<1>5. \A d \in Client : Keeps(to_client[d], to_client'[d], "SubscribeOk")
  BY <1>1, KeepsUnchanged
<1> QED
  BY <1>1, <1>4, <1>5, ClientQuiet

LEMMA RequestsStep ==
    ASSUME Typing, Connections, Requests, [Next]_vars
    PROVE  Requests'
<1>1. ASSUME Accept, Accepting PROVE Requests'
  <2>1. UNCHANGED <<conn, to_relay, asked>>
    BY <1>1, AcceptStays DEF clientVars
  <2> QED
    BY <1>1, <2>1, AcceptRequests
<1>2. ASSUME NEW c \in Client, Close(c) PROVE Requests'
  BY <1>2, LostRequests DEF Close
<1>3. ASSUME Stops PROVE Requests'
  BY <1>3 DEF Stops, Requests, Requesting, Queue, QueuedFor, Asking, Pending, Answering,
              relayVars, clientVars
<1> QED
  BY <1>1, <1>2, <1>3, Steps, CleanupRequests, ReceiveRequests, LoopRequests, ConnectRequests,
     RecvRequests, AskRequests, EndTrackRequests, Zenon

LEMMA InitRequests == Init => Requests
<1> SUFFICES ASSUME Init PROVE Requests
  OBVIOUS
<1>1. DOMAIN EmptyMap = {} /\ DOMAIN << >> = {}
  BY DEF EmptyMap
<1>2. \A s \in Subscriber : /\ to_relay[s] = << >> /\ to_client[s] = << >>
                            /\ session[s] = NewSession
  BY Constants DEF Init
<1>3. Queue
  BY <1>1, Zenon DEF Init, Queue
<1>4. ASSUME NEW s \in Subscriber PROVE Requesting(s)
  <2>1. s \notin Asking /\ s \notin Answering
    BY <1>1, <1>2, Zenon DEF Asking, Answering, Msgs
  <2>2. s \notin Pending
    BY <1>2, NewSessionType, Zenon DEF Pending
  <2>3. Distinct(to_relay[s], "Subscribe") /\ Distinct(to_client[s], "SubscribeOk")
    BY <1>1, <1>2, Zenon DEF Distinct
  <2> QED
    BY <2>1, <2>2, <2>3, Zenon DEF Requesting
<1> QED
  BY <1>3, <1>4, Zenon DEF Requests

\* The places of the requests, from which the next three theorems follow.
THEOREM RelayRequests == Spec => []Requests
<1>1. Init => Requests
  BY InitRequests
<1>2. Typing /\ Connections /\ Requests /\ [Next]_vars => Requests'
  BY RequestsStep
<1>3. Spec => []Typing
  BY RelayTyping
<1>4. Spec => []Connections
  BY RelayConnections
<1> QED
  BY <1>1, <1>2, <1>3, <1>4, PTL DEF Spec

\* A client is queued once, for one track, although "already queued" compares request ids
\* of all clients, and its session keeps the request until it is accepted.
THEOREM RelayQueuedOnce == Spec => []QueuedOnce
<1>1. Typing /\ Requests => QueuedOnce
  <2> SUFFICES ASSUME Typing, Requests,
                      NEW t \in DOMAIN subscriptions, NEW u \in DOMAIN subscriptions,
                      NEW i \in DOMAIN subscriptions[t].subscribers,
                      NEW j \in DOMAIN subscriptions[u].subscribers
               PROVE  LET r == subscriptions[t].subscribers[i]
                          s == subscriptions[u].subscribers[j] IN
                      /\ r.client_id = s.client_id => t = u /\ i = j
                      /\ ~r.accepted /\ conn[r.client_id] = "open" =>
                             r.request_id
                                 \in DOMAIN session[r.client_id].pending_received_subscriptions
    BY Zenon DEF QueuedOnce
  <2> DEFINE r == subscriptions[t].subscribers[i]
             s == subscriptions[u].subscribers[j]
  <2>1. QueuedFor(t, r.client_id, r.accepted) /\ QueuedFor(u, s.client_id, s.accepted)
    BY Zenon DEF Requests, Queue
  <2>2. r.request_id = FirstRequestId
    BY QueuedClients
  <2>3. ASSUME r.client_id = s.client_id PROVE t = u /\ i = j
    <3>1. t = u
      BY <2>1, <2>3, Zenon DEF QueuedFor
    <3>2. \A k, l \in DOMAIN subscriptions[t].subscribers :
              subscriptions[t].subscribers[k].client_id = subscriptions[t].subscribers[l].client_id
              => k = l
      BY Zenon DEF Requests, Queue
    <3> QED
      BY <2>3, <3>1, <3>2, Zenon
  <2>4. ASSUME ~r.accepted, conn[r.client_id] = "open"
        PROVE  FirstRequestId \in DOMAIN session[r.client_id].pending_received_subscriptions
    <3>1. conn[r.client_id] # "closed"
      BY <2>4
    <3>2. r.client_id \in Pending
      BY <2>1, <2>4, <3>1, Zenon DEF QueuedFor
    <3> QED
      BY <3>2, Zenon DEF Pending
  <2> HIDE DEF r, s
  <2>5. ~r.accepted /\ conn[r.client_id] = "open" =>
            r.request_id \in DOMAIN session[r.client_id].pending_received_subscriptions
    BY <2>2, <2>4, Zenon
  <2> QED
    BY <2>3, <2>5, Zenon DEF r, s
<1>2. Spec => []Typing
  BY RelayTyping
<1>3. Spec => []Requests
  BY RelayRequests
<1> QED
  BY <1>1, <1>2, <1>3, PTL

\* accept_subscription() finds the request it unwraps, however long ago it was read and
\* whatever has come of its connection and its publisher since.
THEOREM RelayUnwraps == Spec => [](panicked # "accept unwrap")
<1> DEFINE Sound == panicked # "accept unwrap"
<1>1. Init => Sound
  BY DEF Init
<1>2. Typing /\ Requests /\ Sound /\ [Next]_vars => Sound'
  <2> SUFFICES ASSUME Typing, Requests, Sound, [Next]_vars PROVE Sound'
    OBVIOUS
  <2>1. ASSUME Accept PROVE Sound'
    <3>1. \A s \in Those(Acceptable) : Unwraps(s)
      <4> SUFFICES ASSUME NEW s \in Those(Acceptable) PROVE Unwraps(s)
        OBVIOUS
      <4>1. PICK t \in DOMAIN subscriptions : \E i \in DOMAIN subscriptions[t].subscribers :
                s = subscriptions[t].subscribers[i] /\ CanAccept(t, i)
        BY ThoseAcceptable, Zenon
      <4>2. PICK i \in DOMAIN subscriptions[t].subscribers :
                s = subscriptions[t].subscribers[i] /\ CanAccept(t, i)
        BY <4>1
      <4>3. QueuedFor(t, s.client_id, s.accepted) /\ s.request_id = FirstRequestId
        BY <4>2, QueuedClients, Zenon DEF Requests, Queue
      <4>4. ~s.accepted /\ conn[s.client_id] # "closed"
        BY <4>2 DEF CanAccept, Open
      <4>5. s.client_id \in Pending
        BY <4>3, <4>4, Zenon DEF QueuedFor
      <4> QED
        BY <4>3, <4>5, Zenon DEF Pending, Unwraps
    <3>2. UNCHANGED panicked
      BY <2>1, <3>1, Zenon DEF Accept
    <3> QED
      BY <3>2
  <2>2. ASSUME NEW c \in Client, ReceiveFault(c) PROVE Sound'
    BY <2>2 DEF ReceiveFault, Panic
  <2>3. ASSUME \/ Cleanup \/ Respond \/ Finish \/ Forward
               \/ \E c \in Client : Receive(c)
               \/ \E c \in Client, ns \in Namespace : Withdraw(c, ns) \/ Announce(c, ns)
               \/ \E t \in Track : Request(t)
        PROVE  Sound'
    BY <2>3 DEF Cleanup, Respond, Finish, Forward, Receive, Withdraw, Announce, Request
  <2>4. ASSUME \/ \E c \in Client : Connect(c) \/ Close(c) \/ Recv(c)
               \/ \E s \in Subscriber : Ask(s)
               \/ \E p \in Publisher : \E id \in DOMAIN serving[p] : EndTrack(p, id)
        PROVE  Sound'
    BY <2>4 DEF Connect, Close, Lost, Recv, RecvAnnouncement, RecvSubscribe, RecvWithdrawal,
                RecvAnswer, Ask, EndTrack
  <2>5. ASSUME UNCHANGED vars PROVE Sound'
    BY <2>5 DEF vars
  <2> HIDE DEF Sound
  <2> QED
    BY <2>1, <2>2, <2>3, <2>4, <2>5, Zenon DEF Next, Loop
<1>3. Spec => []Typing
  BY RelayTyping
<1>4. Spec => []Requests
  BY RelayRequests
<1> QED
  BY <1>1, <1>2, <1>3, <1>4, PTL DEF Spec

\* A subscriber is sent one SUBSCRIBE_OK, however often its track loses its publisher and
\* gets another.
THEOREM RelayAcceptedOnce == Spec => []AcceptedOnce
<1>1. Typing /\ Requests => AcceptedOnce
  <2> SUFFICES ASSUME Typing, Requests, NEW s \in Subscriber
               PROVE  LET oks == {i \in DOMAIN to_client[s] : to_client[s][i].type = "SubscribeOk"} IN
                      /\ oks # {} => asked[s] = "waiting"
                      /\ \A i, j \in oks : i = j
    BY Zenon DEF AcceptedOnce
  <2> DEFINE q == to_client[s]
             oks == {i \in DOMAIN q : q[i].type = "SubscribeOk"}
  <2>1. Requesting(s)
    BY DEF Requests
  <2>2. q \in Seq(ToClient)
    BY QueueOf, Constants
  <2>3. \A i \in DOMAIN q : q[i] \in Msgs(q) /\ q[i] \in ToClient
    BY <2>2, MsgsIn, Zenon
  <2>4. ASSUME NEW i \in oks PROVE asked[s] = "waiting"
    <3>1. s \in Answering
      BY <2>3, Zenon DEF Answering
    <3> QED
      BY <2>1, <3>1, Zenon DEF Requesting
  <2>5. ASSUME NEW i \in oks, NEW j \in oks PROVE i = j
    <3>1. q[i].request_id = FirstRequestId /\ q[j].request_id = FirstRequestId
      BY <2>3, ClientMessages, Zenon
    <3> QED
      BY <2>1, <3>1, Zenon DEF Requesting, Distinct
  <2> HIDE DEF q
  <2>6. (oks # {} => asked[s] = "waiting") /\ (\A i, j \in oks : i = j)
    BY <2>4, <2>5, Zenon
  <2> QED
    BY <2>6 DEF q
<1>2. Spec => []Typing
  BY RelayTyping
<1>3. Spec => []Requests
  BY RelayRequests
<1> QED
  BY <1>1, <1>2, <1>3, PTL

(***************************************************************************)
(* SubscribedOnce.                                                         *)
(***************************************************************************)

\* A subscription of the relay is the one of its track, and has not been ended, as long
\* as the request is on its way or the publisher serves it.
Current(p, id, t) ==
    /\ t \in DOMAIN subscriptions
    /\ subscriptions[t].publisher.client_id = p
    /\ subscriptions[t].publisher.request_id = id
    /\ id \notin session[p].done
    /\ \A m \in Msgs(to_relay[p]) : m.type = "PublishDone" => m.request_id # id

\* The ids of the relay's subscriptions have all been given out.
Numbered ==
    \A t \in DOMAIN subscriptions :
        LET p == subscriptions[t].publisher IN
        p.request_id # None => p.request_id < session[p.client_id].next_request_id

Ended(p) ==
    /\ \A id \in session[p].done : id < session[p].next_request_id
    /\ \A m \in Msgs(to_relay[p]) :
          m.type = "PublishDone" => m.request_id < session[p].next_request_id

Offering(p) ==
    /\ Distinct(to_client[p], "Subscribe")
    /\ \A m \in Msgs(to_client[p]) :
          m.type = "Subscribe" =>
              Current(p, m.request_id, m.track) /\ m.request_id \notin DOMAIN serving[p]

Served(p) == \A id \in DOMAIN serving[p] : \A t : t = serving[p][id] => Current(p, id, t)

Upstream ==
    /\ Numbered
    /\ \A p \in Publisher : Ended(p) /\ Offering(p) /\ Served(p)

\* The relay's request ids grow.
Later(p) ==
    \/ session'[p].next_request_id = session[p].next_request_id
    \/ session'[p].next_request_id = session[p].next_request_id + 2

LEMMA LaterIds ==
    ASSUME Typing, NEW p \in Client, Later(p), NEW id \in Nat, id < session[p].next_request_id
    PROVE  id < session'[p].next_request_id
<1>1. session[p].next_request_id \in Nat
  BY Zenon DEF Typing, SessionsType, SessionOK
<1> QED
  BY <1>1 DEF Later

\* The publisher of a track that has been sent a request.
LEMMA SentTo ==
    ASSUME Typing, NEW t \in DOMAIN subscriptions, subscriptions[t].publisher.request_id # None
    PROVE  /\ subscriptions[t].publisher.client_id \in Publisher
           /\ subscriptions[t].publisher.request_id \in Nat
<1>1. PublisherOK(subscriptions[t].publisher)
  BY Zenon DEF Typing, SubscriptionsType
<1> QED
  BY <1>1 DEF PublisherOK, PublisherInfo

LEMMA NumberedStays ==
    ASSUME Typing, Numbered,
           \A t \in DOMAIN subscriptions' :
               LET p == subscriptions[t].publisher
                   q == subscriptions'[t].publisher IN
               \/ q.request_id = None
               \/ /\ t \in DOMAIN subscriptions
                  /\ q.client_id = p.client_id
                  /\ q.request_id = p.request_id
                  /\ Later(p.client_id)
    PROVE  Numbered'
<1> SUFFICES ASSUME NEW t \in DOMAIN subscriptions', subscriptions'[t].publisher.request_id # None
             PROVE  subscriptions'[t].publisher.request_id
                        < session'[subscriptions'[t].publisher.client_id].next_request_id
  BY Zenon DEF Numbered
<1> DEFINE p == subscriptions[t].publisher.client_id
           id == subscriptions[t].publisher.request_id
<1>1. /\ t \in DOMAIN subscriptions /\ Later(p)
      /\ subscriptions'[t].publisher.client_id = p
      /\ subscriptions'[t].publisher.request_id = id
  BY Zenon
<1>2. p \in Client /\ id \in Nat
  BY <1>1, SentTo, Constants
<1>3. id < session[p].next_request_id
  BY <1>1, Zenon DEF Numbered
<1>4. id < session'[p].next_request_id
  BY <1>1, <1>2, <1>3, LaterIds
<1> QED
  BY <1>1, <1>4, Zenon

\* A step that does not end the tracks of p, but those that p has ended.
Continues(p) ==
    /\ \A t \in DOMAIN subscriptions :
          LET q == subscriptions[t].publisher IN
          q.client_id = p /\ q.request_id # None /\ q.request_id \notin session[p].done =>
              /\ t \in DOMAIN subscriptions'
              /\ subscriptions'[t].publisher.client_id = p
              /\ subscriptions'[t].publisher.request_id = q.request_id
    /\ session'[p].done = session[p].done
    /\ Later(p)

LEMMA CurrentStays ==
    ASSUME NEW p, NEW id, NEW t, id # None, Continues(p), Current(p, id, t),
           \A m \in Msgs(to_relay'[p]) : m.type = "PublishDone" => m.request_id # id
    PROVE  Current(p, id, t)'
BY Zenon DEF Continues, Current

\* The request ids of messages and of what is served.
LEMMA UpstreamIds ==
    ASSUME Typing, NEW p \in Publisher
    PROVE  /\ \A m \in Msgs(to_relay[p]) \cup Msgs(to_client[p]) :
                 m.request_id \in Nat /\ m.request_id # None
           /\ \A id \in DOMAIN serving[p] : id \in Nat /\ id # None
           /\ \A id \in session[p].done : id \in Nat
<1>0. p \in Client /\ to_relay[p] \in Seq(ToRelay(p)) /\ to_client[p] \in Seq(ToClient)
  BY QueueOf, Constants
<1>1. Msgs(to_relay[p]) \subseteq ToRelay(p) /\ Msgs(to_client[p]) \subseteq ToClient
  BY <1>0, MsgsIn, Zenon
<1>2. \A m \in Msgs(to_relay[p]) \cup Msgs(to_client[p]) : m.request_id \in Nat
  BY <1>0, <1>1, RelayMessages, ClientMessages
<1>3. \A id \in DOMAIN serving[p] : id \in Nat
  BY Zenon DEF Typing, ClientsType
<1>4. \A id \in session[p].done : id \in Nat
  BY <1>0, Zenon DEF Typing, SessionsType, SessionOK
<1> QED
  BY <1>2, <1>3, <1>4, Constants

\* A publisher that has no part in a step.
Idle(p) ==
    /\ Continues(p)
    /\ serving'[p] = serving[p]
    /\ Keeps(to_relay[p], to_relay'[p], "PublishDone")
    /\ Keeps(to_client[p], to_client'[p], "Subscribe")

LEMMA IdleUpstream ==
    ASSUME Typing, NEW p \in Publisher, Idle(p), Ended(p), Offering(p), Served(p)
    PROVE  Ended(p)' /\ Offering(p)' /\ Served(p)'
<1>0. p \in Client
  BY Constants
<1>1. Continues(p) /\ Later(p) /\ session'[p].done = session[p].done /\ serving'[p] = serving[p]
  BY Zenon DEF Idle, Continues
<1>2. \A m \in Msgs(to_relay'[p]) : m.type = "PublishDone" => m \in Msgs(to_relay[p])
  BY Zenon DEF Idle, Keeps
<1>3. Ended(p)'
  <2>1. \A id \in session[p].done : id \in Nat /\ id < session'[p].next_request_id
    BY <1>0, <1>1, UpstreamIds, LaterIds DEF Ended
  <2>2. \A m \in Msgs(to_relay[p]) :
            m.type = "PublishDone" => m.request_id < session'[p].next_request_id
    BY <1>0, <1>1, UpstreamIds, LaterIds DEF Ended
  <2> QED
    BY <1>1, <1>2, <2>1, <2>2, Zenon DEF Ended
<1>4. \A id, t : Current(p, id, t) /\ id # None => Current(p, id, t)'
  <2> SUFFICES ASSUME NEW id, NEW t, Current(p, id, t), id # None PROVE Current(p, id, t)'
    OBVIOUS
  <2>1. \A m \in Msgs(to_relay'[p]) : m.type = "PublishDone" => m.request_id # id
    BY <1>2, Zenon DEF Current
  <2> QED
    BY <1>1, <2>1, CurrentStays
<1>5. Offering(p)'
  <2> SUFFICES /\ Distinct(to_client'[p], "Subscribe")
               /\ \A m \in Msgs(to_client'[p]) :
                     m.type = "Subscribe" =>
                         Current(p, m.request_id, m.track)' /\ m.request_id \notin DOMAIN serving'[p]
    BY Zenon DEF Offering
  <2>1. Distinct(to_client'[p], "Subscribe")
    BY Zenon DEF Idle, Keeps, Offering
  <2>2. ASSUME NEW m \in Msgs(to_client'[p]), m.type = "Subscribe"
        PROVE  Current(p, m.request_id, m.track)' /\ m.request_id \notin DOMAIN serving'[p]
    <3>1. m \in Msgs(to_client[p])
      BY <2>2, Zenon DEF Idle, Keeps
    <3>2. Current(p, m.request_id, m.track) /\ m.request_id \notin DOMAIN serving[p]
      BY <2>2, <3>1, Zenon DEF Offering
    <3>3. m.request_id # None
      BY <3>1, UpstreamIds
    <3> QED
      BY <1>1, <1>4, <3>2, <3>3, Zenon
  <2> QED
    BY <2>1, <2>2
<1>6. Served(p)'
  <2> SUFFICES ASSUME NEW id \in DOMAIN serving'[p], NEW t, t = serving'[p][id]
               PROVE  Current(p, id, t)'
    BY Zenon DEF Served
  <2>1. Current(p, id, t) /\ id # None
    BY <1>1, UpstreamIds DEF Served
  <2> QED
    BY <1>4, <2>1, Zenon
<1> QED
  BY <1>3, <1>5, <1>6

\* Steps that concern no publisher.
LEMMA IdleSteps ==
    ASSUME Typing, Upstream, \A p \in Publisher : Idle(p),
           \A t \in DOMAIN subscriptions' :
               LET p == subscriptions[t].publisher
                   q == subscriptions'[t].publisher IN
               \/ q.request_id = None
               \/ /\ t \in DOMAIN subscriptions
                  /\ q.client_id = p.client_id
                  /\ q.request_id = p.request_id
    PROVE  Upstream'
<1>1. \A p \in Publisher : Ended(p)' /\ Offering(p)' /\ Served(p)'
  BY IdleUpstream, Zenon DEF Upstream
<1>2. \A t \in DOMAIN subscriptions' :
          LET p == subscriptions[t].publisher
              q == subscriptions'[t].publisher IN
          \/ q.request_id = None
          \/ /\ t \in DOMAIN subscriptions
             /\ q.client_id = p.client_id
             /\ q.request_id = p.request_id
             /\ Later(p.client_id)
  <2> SUFFICES ASSUME NEW t \in DOMAIN subscriptions', subscriptions'[t].publisher.request_id # None
               PROVE  Later(subscriptions[t].publisher.client_id)
    BY Zenon
  <2>1. /\ t \in DOMAIN subscriptions
        /\ subscriptions[t].publisher.request_id # None
    BY Zenon
  <2>2. subscriptions[t].publisher.client_id \in Publisher
    BY <2>1, SentTo
  <2> QED
    BY <2>2, Zenon DEF Idle, Continues
<1>3. Numbered'
  BY <1>2, NumberedStays DEF Upstream
<1> QED
  BY <1>1, <1>3, Zenon DEF Upstream

\* Phase 1: PUBLISH_DONE marks a subscription that is not current.
LEMMA PolledUpstream ==
    ASSUME Typing, NEW p \in Publisher, Polled(p), Ended(p), Offering(p), Served(p),
           UNCHANGED <<subscriptions, to_client, serving>>
    PROVE  Ended(p)' /\ Offering(p)' /\ Served(p)'
<1> DEFINE m == Message(p)
           s == session[p]
           r == session'[p]
<1>0. p \in Client
  BY Constants
<1>1. /\ r.next_request_id = s.next_request_id
      /\ m.type = "PublishDone" => r.done = s.done \cup {m.request_id}
      /\ m.type # "PublishDone" => r.done = s.done
  BY Zenon DEF Polled
<1>2. m.type = "PublishDone" => m \in Msgs(to_relay[p])
  <2> SUFFICES ASSUME m.type = "PublishDone" PROVE m \in Msgs(to_relay[p])
    OBVIOUS
  <2>1. to_relay[p] # << >> /\ m = Head(to_relay[p])
    BY <1>0, HeadOf DEF Typing
  <2>2. Head(to_relay[p]) \in Msgs(to_relay[p])
    BY <1>0, <2>1, QueueOf, MsgsTail, Zenon
  <2> QED
    BY <2>1, <2>2
<1> HIDE DEF m
<1>3. \A n \in Msgs(to_relay'[p]) : n.type = "PublishDone" => n \in Msgs(to_relay[p])
  BY <1>0, KeepsPolled, Zenon DEF Keeps
<1>4. Ended(p)'
  BY <1>1, <1>2, <1>3 DEF Ended
<1>5. \A id, t : Current(p, id, t) => Current(p, id, t)'
  <2> SUFFICES ASSUME NEW id, NEW t, Current(p, id, t) PROVE Current(p, id, t)'
    OBVIOUS
  <2>1. id \notin r.done
    BY <1>1, <1>2 DEF Current
  <2> QED
    BY <1>3, <2>1 DEF Current
<1>6. Offering(p)'
  <2> SUFFICES /\ Distinct(to_client'[p], "Subscribe")
               /\ \A n \in Msgs(to_client'[p]) :
                     n.type = "Subscribe" =>
                         Current(p, n.request_id, n.track)' /\ n.request_id \notin DOMAIN serving'[p]
    BY Zenon DEF Offering
  <2> QED
    BY <1>5 DEF Offering
<1>7. Served(p)'
  <2> SUFFICES ASSUME NEW id \in DOMAIN serving'[p], NEW t, t = serving'[p][id]
               PROVE  Current(p, id, t)'
    BY Zenon DEF Served
  <2> QED
    BY <1>5 DEF Served
<1> QED
  BY <1>4, <1>6, <1>7

\* A step leaves p alone when it leaves its part of the state.
LEMMA ReceiveUpstream ==
    ASSUME Typing, Upstream, NEW c \in Client, Receive(c)
    PROVE  Upstream'
<1>1. /\ Polled(c) /\ (UNCHANGED subscriptions \/ QueuedOne(c))
      /\ UNCHANGED <<to_client, serving>>
  BY PollEffect, DecideEffect DEF Receive, clientVars
<1>2. \A t \in DOMAIN subscriptions : t \in DOMAIN subscriptions' /\ PublisherKept(t)
  <2>1. CASE UNCHANGED subscriptions
    BY <2>1 DEF PublisherKept
  <2>2. CASE QueuedOne(c)
    BY <2>2 DEF QueuedOne, PublisherKept
  <2> QED
    BY <1>1, <2>1, <2>2
<1>3. \A t \in DOMAIN subscriptions' :
          t \in DOMAIN subscriptions \/ subscriptions'[t].publisher.request_id = None
  <2>1. CASE UNCHANGED subscriptions
    BY <2>1
  <2>2. CASE QueuedOne(c)
    <3>1. \A t \in DOMAIN subscriptions' : t \in DOMAIN subscriptions \/ t = TrackOf[c]
      BY <2>2 DEF QueuedOne
    <3>2. TrackOf[c] \notin DOMAIN subscriptions =>
              subscriptions'[TrackOf[c]].publisher.request_id = None
      BY <2>2, Infos, Zenon DEF QueuedOne
    <3> QED
      BY <3>1, <3>2, Zenon
  <2> QED
    BY <1>1, <2>1, <2>2
<1>4. ASSUME NEW p \in Publisher, p # c PROVE Idle(p)
  <2>0. p \in Client
    BY Constants
  <2>1. session'[p] = session[p] /\ serving'[p] = serving[p]
    BY <1>1, <1>4, <2>0, Zenon DEF Polled
  <2>2. Continues(p)
    BY <1>2, <2>1, Zenon DEF Continues, PublisherKept, Later
  <2>3. /\ Keeps(to_relay[p], to_relay'[p], "PublishDone")
        /\ Keeps(to_client[p], to_client'[p], "Subscribe")
    BY <1>1, <2>0, KeepsPolled, KeepsUnchanged, Zenon
  <2> QED
    BY <2>1, <2>2, <2>3, Zenon DEF Idle
<1>5. ASSUME c \in Publisher
      PROVE  Ended(c)' /\ Offering(c)' /\ Served(c)'
  <2>1. UNCHANGED subscriptions
    BY <1>1, <1>5, Constants DEF QueuedOne
  <2> QED
    BY <1>1, <1>5, <2>1, PolledUpstream DEF Upstream
<1>6. \A p \in Publisher : Ended(p)' /\ Offering(p)' /\ Served(p)'
  BY <1>4, <1>5, IdleUpstream, Zenon DEF Upstream
<1>7. Numbered'
  <2>1. \A d \in Client : Later(d)
    BY <1>1, Zenon DEF Polled, Later
  <2>2. \A t \in DOMAIN subscriptions' :
            LET p == subscriptions[t].publisher
                q == subscriptions'[t].publisher IN
            \/ q.request_id = None
            \/ /\ t \in DOMAIN subscriptions
               /\ q.client_id = p.client_id
               /\ q.request_id = p.request_id
               /\ Later(p.client_id)
    <3> SUFFICES ASSUME NEW t \in DOMAIN subscriptions', subscriptions'[t].publisher.request_id # None
                 PROVE  /\ t \in DOMAIN subscriptions
                        /\ subscriptions'[t].publisher = subscriptions[t].publisher
                        /\ Later(subscriptions[t].publisher.client_id)
      BY Zenon
    <3>1. t \in DOMAIN subscriptions /\ subscriptions'[t].publisher = subscriptions[t].publisher
      BY <1>2, <1>3, Zenon DEF PublisherKept
    <3>2. subscriptions[t].publisher.client_id \in Client
      BY <3>1, SentTo, Constants
    <3> QED
      BY <2>1, <3>1, <3>2
  <2> QED
    BY <2>2, NumberedStays DEF Upstream
<1> QED
  BY <1>6, <1>7, Zenon DEF Upstream

\* Phase 3: a new subscription, of a track that had none.
LEMMA OfferUpstream ==
    ASSUME Typing, Upstream, NEW t \in Track, NEW c \in Publisher, NEW id \in Nat, NEW m,
           id = session[c].next_request_id,
           m.type = "Subscribe", m.request_id = id, m.track = t,
           UNCHANGED <<to_relay, serving>>,
           t \in DOMAIN subscriptions,
           subscriptions[t].publisher.request_id = None,
           DOMAIN subscriptions' = DOMAIN subscriptions,
           \A u \in DOMAIN subscriptions : u # t => subscriptions'[u] = subscriptions[u],
           subscriptions'[t].publisher.client_id = c,
           subscriptions'[t].publisher.request_id = id,
           \A p \in Client : session'[p].done = session[p].done /\ Later(p),
           session'[c].next_request_id = id + 2,
           Sends(to_client, to_client', c, m)
    PROVE  Upstream'
<1>0. c \in Client /\ id # None /\ ~(id < id) /\ id < id + 2
  BY Constants
<1>1. \A p \in Publisher : Continues(p)
  BY Constants, Zenon DEF Continues
<1>2. to_client'[c] = Append(to_client[c], m)
  BY <1>0, Zenon DEF Sends
<1>3. ASSUME NEW p \in Publisher, p # c
      PROVE  Ended(p)' /\ Offering(p)' /\ Served(p)'
  <2>0. p \in Client
    BY Constants
  <2>1. to_client'[p] = to_client[p]
    BY <1>3, <2>0, Zenon DEF Sends
  <2>2. /\ Keeps(to_relay[p], to_relay'[p], "PublishDone")
        /\ Keeps(to_client[p], to_client'[p], "Subscribe")
    BY <2>0, <2>1, QueueOf, KeepsQueue, Zenon
  <2>3. Idle(p)
    BY <1>1, <2>2, Zenon DEF Idle
  <2> QED
    BY <2>3, IdleUpstream, Zenon DEF Upstream
<1>4. Ended(c) /\ Offering(c) /\ Served(c)
  BY Zenon DEF Upstream
<1>5. \A u \in DOMAIN subscriptions :
          ~(subscriptions[u].publisher.client_id = c /\ subscriptions[u].publisher.request_id = id)
  <2> SUFFICES ASSUME NEW u \in DOMAIN subscriptions, subscriptions[u].publisher.client_id = c,
                      subscriptions[u].publisher.request_id = id
               PROVE  FALSE
    OBVIOUS
  <2>1. subscriptions[u].publisher.request_id # None
    BY <1>0
  <2>2. subscriptions[u].publisher.request_id
            < session[subscriptions[u].publisher.client_id].next_request_id
    BY <2>1, Zenon DEF Upstream, Numbered
  <2> QED
    BY <1>0, <2>2
<1>6. /\ id \notin session[c].done
      /\ \A n \in Msgs(to_relay[c]) : n.type = "PublishDone" => n.request_id # id
  BY <1>0, <1>4, Zenon DEF Ended
<1>7. /\ \A n \in Msgs(to_client[c]) : n.type = "Subscribe" => n.request_id # id
      /\ id \notin DOMAIN serving[c]
  <2>1. \A n, u : Current(c, n, u) => n # id
    BY <1>5, Zenon DEF Current
  <2> QED
    BY <1>4, <2>1, Zenon DEF Offering, Served
<1>8. Current(c, id, t)'
  <2>1. id \notin session'[c].done
    BY <1>0, <1>6, Zenon
  <2>2. \A n \in Msgs(to_relay'[c]) : n.type = "PublishDone" => n.request_id # id
    BY <1>6
  <2> QED
    BY <2>1, <2>2, Zenon DEF Current
<1>9. \A n, u : Current(c, n, u) /\ n # None => Current(c, n, u)'
  <2> SUFFICES ASSUME NEW n, NEW u, Current(c, n, u), n # None PROVE Current(c, n, u)'
    OBVIOUS
  <2>1. \A k \in Msgs(to_relay'[c]) : k.type = "PublishDone" => k.request_id # n
    BY DEF Current
  <2>2. Continues(c)
    BY <1>1
  <2> QED
    BY <2>1, <2>2, CurrentStays
<1>10. Ended(c)'
  <2>1. \A n \in session[c].done : n \in Nat /\ n < session'[c].next_request_id
    BY <1>0, <1>4, UpstreamIds, LaterIds DEF Ended
  <2>2. \A n \in Msgs(to_relay[c]) :
            n.type = "PublishDone" => n.request_id < session'[c].next_request_id
    BY <1>0, <1>4, UpstreamIds, LaterIds DEF Ended
  <2>3. session'[c].done = session[c].done /\ to_relay'[c] = to_relay[c]
    BY <1>0
  <2>4. \A n \in session'[c].done : n < session'[c].next_request_id
    BY <2>1, <2>3
  <2>5. \A n \in Msgs(to_relay'[c]) :
            n.type = "PublishDone" => n.request_id < session'[c].next_request_id
    BY <2>2, <2>3, Zenon
  <2> QED
    BY <2>4, <2>5 DEF Ended
<1>11. Offering(c)'
  <2> SUFFICES /\ Distinct(to_client'[c], "Subscribe")
               /\ \A n \in Msgs(to_client'[c]) :
                     n.type = "Subscribe" =>
                         Current(c, n.request_id, n.track)' /\ n.request_id \notin DOMAIN serving'[c]
    BY Zenon DEF Offering
  <2>1. to_client[c] \in Seq(ToClient) /\ Distinct(to_client[c], "Subscribe")
    BY <1>0, <1>4, QueueOf DEF Offering
  <2>2. Distinct(to_client'[c], "Subscribe")
    <3>1. \A n \in Msgs(to_client[c]) :
              n.type = "Subscribe" /\ m.type = "Subscribe" => n.request_id # m.request_id
      BY <1>7
    <3>2. Distinct(Append(to_client[c], m), "Subscribe")
      BY <2>1, <3>1, DistinctAppend
    <3> QED
      BY <1>2, <3>2
  <2>3. Msgs(to_client'[c]) = Msgs(to_client[c]) \cup {m}
    BY <1>2, <2>1, MsgsAppend, Zenon
  <2>4. ASSUME NEW n \in Msgs(to_client[c]), n.type = "Subscribe"
        PROVE  Current(c, n.request_id, n.track)' /\ n.request_id \notin DOMAIN serving'[c]
    <3>1. Current(c, n.request_id, n.track) /\ n.request_id \notin DOMAIN serving[c]
      BY <1>4, <2>4, Zenon DEF Offering
    <3>2. n.request_id # None
      BY UpstreamIds
    <3>3. serving'[c] = serving[c]
      OBVIOUS
    <3>4. Current(c, n.request_id, n.track)'
      BY <1>9, <3>1, <3>2, Zenon
    <3> QED
      BY <3>1, <3>3, <3>4, Zenon
  <2>5. Current(c, m.request_id, m.track)' /\ m.request_id \notin DOMAIN serving'[c]
    BY <1>7, <1>8
  <2> QED
    BY <2>2, <2>3, <2>4, <2>5
<1>12. Served(c)'
  <2> SUFFICES ASSUME NEW n \in DOMAIN serving'[c], NEW u, u = serving'[c][n]
               PROVE  Current(c, n, u)'
    BY Zenon DEF Served
  <2>1. Current(c, n, u) /\ n # None
    BY <1>4, UpstreamIds DEF Served
  <2> QED
    BY <1>9, <2>1, Zenon
<1>13. Numbered'
  <2> SUFFICES ASSUME NEW u \in DOMAIN subscriptions', subscriptions'[u].publisher.request_id # None
               PROVE  subscriptions'[u].publisher.request_id
                          < session'[subscriptions'[u].publisher.client_id].next_request_id
    BY Zenon DEF Numbered
  <2>1. CASE u = t
    BY <1>0, <2>1
  <2>2. CASE u # t
    <3>1. u \in DOMAIN subscriptions /\ subscriptions'[u] = subscriptions[u]
      BY <2>2
    <3>2. /\ subscriptions[u].publisher.client_id \in Publisher
          /\ subscriptions[u].publisher.request_id \in Nat
      BY <3>1, SentTo
    <3>3. subscriptions[u].publisher.request_id
              < session[subscriptions[u].publisher.client_id].next_request_id
      BY <3>1, Zenon DEF Upstream, Numbered
    <3>4. subscriptions[u].publisher.request_id
              < session'[subscriptions[u].publisher.client_id].next_request_id
      BY <3>2, <3>3, LaterIds, Constants
    <3> QED
      BY <3>1, <3>4
  <2> QED
    BY <2>1, <2>2
<1> QED
  BY <1>3, <1>10, <1>11, <1>12, <1>13, Zenon DEF Upstream

LEMMA RequestUpstream ==
    ASSUME Typing, Upstream, NEW t \in Track, Request(t)
    PROVE  Upstream'
<1> DEFINE c == subscriptions'[t].publisher.client_id
           id == session[c].next_request_id
           m == Subscribe(id, t)
<1>1. Requested(t) /\ UNCHANGED <<to_relay, serving>>
  BY RequestEffect DEF Request, clientVars
<1>2. /\ t \in DOMAIN subscriptions
      /\ subscriptions[t].publisher.request_id = None
      /\ DOMAIN subscriptions' = DOMAIN subscriptions
      /\ \A u \in DOMAIN subscriptions : u # t => subscriptions'[u] = subscriptions[u]
  BY <1>1, Zenon DEF Requested
<1>3. CASE subscriptions'[t].publisher.request_id = None /\ UNCHANGED <<session, to_client>>
  <2>1. \A p \in Publisher : Idle(p)
    <3> SUFFICES ASSUME NEW p \in Publisher PROVE Idle(p)
      OBVIOUS
    <3>1. /\ Keeps(to_relay[p], to_relay'[p], "PublishDone")
          /\ Keeps(to_client[p], to_client'[p], "Subscribe")
      BY <1>1, <1>3, Constants, QueueOf, KeepsQueue, Zenon
    <3>2. session'[p] = session[p] /\ serving'[p] = serving[p]
      BY <1>1, <1>3
    <3>3. Continues(p)
      BY <1>2, <3>2, Zenon DEF Continues, Later
    <3> QED
      BY <3>1, <3>2, <3>3, Zenon DEF Idle
  <2>2. \A u \in DOMAIN subscriptions' :
            \/ subscriptions'[u].publisher.request_id = None
            \/ u \in DOMAIN subscriptions /\ subscriptions'[u] = subscriptions[u]
    BY <1>2, <1>3, Zenon
  <2> QED
    BY <2>1, <2>2, IdleSteps, Zenon
<1>4. CASE /\ c \in Publisher /\ c \in Open
           /\ subscriptions'[t].publisher.request_id = id
           /\ Sends(to_client, to_client', c, m)
           /\ DOMAIN session' = Client
           /\ \A d \in Client : d # c => session'[d] = session[d]
           /\ session'[c].next_request_id = id + 2
           /\ SameResponses(session[c], session'[c])
  <2>0. c \in Client /\ c \in Publisher
    BY <1>4, Constants
  <2>1. \A p \in Client : session'[p].done = session[p].done /\ Later(p)
    BY <1>4, Zenon DEF SameResponses, Later
  <2>2. id \in Nat
    BY <2>0, Zenon DEF Typing, SessionsType, SessionOK
  <2>3. m.type = "Subscribe" /\ m.request_id = id /\ m.track = t
    BY Fields
  <2>4. /\ subscriptions'[t].publisher.request_id = id
        /\ Sends(to_client, to_client', c, m)
        /\ session'[c].next_request_id = id + 2
    BY <1>4, Zenon
  <2>5. subscriptions'[t].publisher.client_id = c /\ id = session[c].next_request_id
    OBVIOUS
  <2> HIDE DEF c, id, m
  <2> QED
    BY <1>1, <1>2, <2>0, <2>1, <2>2, <2>3, <2>4, <2>5, OfferUpstream, Zenon
<1>5. \/ subscriptions'[t].publisher.request_id = None /\ UNCHANGED <<session, to_client>>
      \/ /\ c \in Publisher /\ c \in Open
         /\ subscriptions'[t].publisher.request_id = id
         /\ Sends(to_client, to_client', c, m)
         /\ DOMAIN session' = Client
         /\ \A d \in Client : d # c => session'[d] = session[d]
         /\ session'[c].next_request_id = id + 2
         /\ SameResponses(session[c], session'[c])
  BY <1>1, Zenon DEF Requested
<1> QED
  BY <1>3, <1>4, <1>5

\* Steps that leave the publishers of all tracks, but for what they have accepted, and send
\* and end no subscription.
LEMMA AllIdle ==
    ASSUME Typing, Upstream,
           \A p \in Publisher : serving'[p] = serving[p],
           \A c \in Client : session'[c].done = session[c].done /\ Later(c),
           \A c \in Client : Keeps(to_relay[c], to_relay'[c], "PublishDone"),
           \A c \in Client : Keeps(to_client[c], to_client'[c], "Subscribe"),
           DOMAIN subscriptions' = DOMAIN subscriptions,
           \A t \in DOMAIN subscriptions :
              LET p == subscriptions[t].publisher
                  q == subscriptions'[t].publisher IN
              q.client_id = p.client_id /\ q.request_id = p.request_id
    PROVE  Upstream'
<1>1. ASSUME NEW p \in Publisher PROVE Idle(p)
  <2>0. p \in Client
    BY Constants
  <2>1. Continues(p)
    BY <2>0, Zenon DEF Continues
  <2> QED
    BY <2>0, <2>1, Zenon DEF Idle
<1>2. \A t \in DOMAIN subscriptions' :
          LET p == subscriptions[t].publisher
              q == subscriptions'[t].publisher IN
          \/ q.request_id = None
          \/ /\ t \in DOMAIN subscriptions
             /\ q.client_id = p.client_id
             /\ q.request_id = p.request_id
  BY Zenon
<1> QED
  BY <1>1, <1>2, IdleSteps

LEMMA LoopUpstream ==
    ASSUME Typing, Upstream
    PROVE  /\ \A c \in Client, ns \in Namespace : Withdraw(c, ns) => Upstream'
           /\ \A c \in Client, ns \in Namespace : Announce(c, ns) => Upstream'
           /\ Respond => Upstream'
           /\ Accept /\ Accepting => Upstream'
           /\ Finish => Upstream'
<1>0. UNCHANGED to_relay => \A c \in Client : Keeps(to_relay[c], to_relay'[c], "PublishDone")
  BY KeepsUnchanged
<1>1. ASSUME NEW c \in Client, NEW ns \in Namespace, Withdraw(c, ns) PROVE Upstream'
  <2>1. Withdrawn(c, ns) /\ UNCHANGED <<subscriptions, to_relay, serving>>
    BY <1>1, WithdrawEffect DEF Withdraw, clientVars
  <2>2. \A d \in Client : session'[d].done = session[d].done /\ Later(d)
    BY <2>1, Zenon DEF Withdrawn, SameResponses, Later
  <2>3. \A d \in Client : Keeps(to_client[d], to_client'[d], "Subscribe")
    <3> DEFINE m == Reply("PublishNamespaceDone", announced_namespaces[c][ns])
    <3>1. UNCHANGED to_client \/ Sends(to_client, to_client', c, m)
      BY <2>1, Zenon DEF Withdrawn
    <3>2. m.type # "Subscribe"
      BY Fields
    <3> HIDE DEF m
    <3> QED
      BY <3>1, <3>2, KeepsSends
  <2> QED
    BY <1>0, <2>1, <2>2, <2>3, AllIdle
<1>2. ASSUME NEW c \in Client, NEW ns \in Namespace, Announce(c, ns) PROVE Upstream'
  <2>1. Told(c, ns) /\ UNCHANGED <<subscriptions, to_relay, serving>>
    BY <1>2, AnnounceEffect DEF Announce, clientVars
  <2>2. \A d \in Client : session'[d].done = session[d].done /\ Later(d)
    BY <2>1, Zenon DEF Told, SameResponses, Later
  <2>3. \A d \in Client : Keeps(to_client[d], to_client'[d], "Subscribe")
    <3> DEFINE m == Announcement(session[c].next_request_id, ns)
    <3>1. Sends(to_client, to_client', c, m)
      BY <2>1, Zenon DEF Told
    <3>2. m.type # "Subscribe"
      BY Fields
    <3> HIDE DEF m
    <3> QED
      BY <3>1, <3>2, KeepsSends
  <2> QED
    BY <1>0, <2>1, <2>2, <2>3, AllIdle
<1>3. ASSUME Respond PROVE Upstream'
  <2>1. Responding /\ UNCHANGED <<to_relay, to_client, serving>>
    BY <1>3, RespondEffect DEF Respond, clientVars
  <2>2. \A d \in Client : session'[d].done = session[d].done /\ Later(d)
    BY <2>1, Zenon DEF Responding, Later
  <2>3. \A d \in Client : Keeps(to_client[d], to_client'[d], "Subscribe")
    BY <2>1, KeepsUnchanged
  <2>4. /\ DOMAIN subscriptions' = DOMAIN subscriptions
        /\ \A t \in DOMAIN subscriptions :
              LET p == subscriptions[t].publisher
                  q == subscriptions'[t].publisher IN
              q.client_id = p.client_id /\ q.request_id = p.request_id
    BY <2>1, Zenon DEF Responding
  <2> QED
    BY <1>0, <2>1, <2>2, <2>3, <2>4, AllIdle
<1>4. ASSUME Accept, Accepting PROVE Upstream'
  <2>1. UNCHANGED <<to_relay, serving>>
    BY <1>4, AcceptStays DEF clientVars
  <2>2. \A d \in Client : session'[d].done = session[d].done /\ Later(d)
    BY <1>4, Zenon DEF Accepting, SameResponses, Later
  <2>3. \A d \in Client : Keeps(to_client[d], to_client'[d], "Subscribe")
    BY <1>4, KeepsTells DEF Accepting
  <2>4. /\ DOMAIN subscriptions' = DOMAIN subscriptions
        /\ \A t \in DOMAIN subscriptions :
              LET p == subscriptions[t].publisher
                  q == subscriptions'[t].publisher IN
              q.client_id = p.client_id /\ q.request_id = p.request_id
    BY <1>4, Zenon DEF Accepting, PublisherKept
  <2> QED
    BY <1>0, <2>1, <2>2, <2>3, <2>4, AllIdle
<1>5. ASSUME Finish PROVE Upstream'
  <2>1. Finishing /\ UNCHANGED <<session, to_relay, serving>>
    BY <1>5, FinishEffect DEF Finish, clientVars
  <2>2. \A d \in Client : session'[d].done = session[d].done /\ Later(d)
    BY <2>1 DEF Later
  <2>3. \A d \in Client : Keeps(to_client[d], to_client'[d], "Subscribe")
    BY <2>1, KeepsTells DEF Finishing
  <2>4. /\ DOMAIN subscriptions' = DOMAIN subscriptions
        /\ \A t \in DOMAIN subscriptions :
              LET p == subscriptions[t].publisher
                  q == subscriptions'[t].publisher IN
              q.client_id = p.client_id /\ q.request_id = p.request_id
    BY <2>1, Zenon DEF Finishing, Selects, PublisherKept
  <2> QED
    BY <1>0, <2>1, <2>2, <2>3, <2>4, AllIdle
<1> QED
  BY <1>1, <1>2, <1>3, <1>4, <1>5

\* Phase 5: a track that has ended was not current.
LEMMA ForwardUpstream ==
    ASSUME Typing, Upstream, Forward
    PROVE  Upstream'
<1>1. Forwarding /\ UNCHANGED <<session, to_relay, to_client, serving>>
  BY ForwardEffect DEF Forward, clientVars
<1>2. /\ DOMAIN subscriptions' = DOMAIN subscriptions
      /\ \A t \in DOMAIN subscriptions :
            PublisherKept(t) \/ (t \in Finishable /\ PublisherLost(t))
  BY <1>1, Zenon DEF Forwarding, Selects
<1>3. NoPublisher.request_id = None
  BY DEF NoPublisher, NewPublisher
<1>4. \A t \in Finishable :
          LET q == subscriptions[t].publisher IN
          q.request_id \in session[q.client_id].done
  BY Zenon DEF Finishable
<1>5. ASSUME NEW p \in Publisher PROVE Idle(p)
  <2>1. /\ Keeps(to_relay[p], to_relay'[p], "PublishDone")
        /\ Keeps(to_client[p], to_client'[p], "Subscribe")
    BY <1>1, KeepsUnchanged, Constants
  <2>2. session'[p] = session[p] /\ serving'[p] = serving[p]
    BY <1>1
  <2>3. Continues(p)
    <3> SUFFICES ASSUME NEW t \in DOMAIN subscriptions,
                        subscriptions[t].publisher.client_id = p,
                        subscriptions[t].publisher.request_id \notin session[p].done
                 PROVE  /\ t \in DOMAIN subscriptions'
                        /\ subscriptions'[t].publisher.client_id = p
                        /\ subscriptions'[t].publisher.request_id
                               = subscriptions[t].publisher.request_id
      BY <2>2, Zenon DEF Continues, Later
    <3>1. t \notin Finishable
      BY <1>4, Zenon
    <3> QED
      BY <1>2, <3>1, Zenon DEF PublisherKept
  <2> QED
    BY <2>1, <2>2, <2>3, Zenon DEF Idle
<1>6. \A t \in DOMAIN subscriptions' :
          LET p == subscriptions[t].publisher
              q == subscriptions'[t].publisher IN
          \/ q.request_id = None
          \/ /\ t \in DOMAIN subscriptions
             /\ q.client_id = p.client_id
             /\ q.request_id = p.request_id
  BY <1>2, <1>3, Zenon DEF PublisherKept, PublisherLost
<1> QED
  BY <1>5, <1>6, IdleSteps

\* A publisher that has nothing left, here or on its way.
LEMMA EmptyUpstream ==
    ASSUME NEW p, to_relay'[p] = << >>, to_client'[p] = << >>, DOMAIN serving'[p] = {},
           \A id \in session'[p].done : id < session'[p].next_request_id
    PROVE  Ended(p)' /\ Offering(p)' /\ Served(p)'
<1>1. DOMAIN << >> = {}
  OBVIOUS
<1>2. Msgs(to_relay'[p]) = {} /\ Msgs(to_client'[p]) = {}
  BY <1>1 DEF Msgs
<1>3. Distinct(to_client'[p], "Subscribe")
  BY <1>1, Zenon DEF Distinct
<1> QED
  BY <1>2, <1>3, Zenon DEF Ended, Offering, Served

\* Phase 0.
LEMMA CleanupUpstream ==
    ASSUME Typing, Connections, Upstream, Cleanup
    PROVE  Upstream'
<1>1. Cleaning /\ UNCHANGED <<to_relay, to_client, serving>>
  BY CleanupEffect DEF Cleanup, clientVars
<1>2. /\ DOMAIN subscriptions' = DOMAIN subscriptions
      /\ \A t \in DOMAIN subscriptions :
            /\ subscriptions[t].publisher.client_id \in Closed => PublisherLost(t)
            /\ subscriptions[t].publisher.client_id \notin Closed => PublisherKept(t)
  BY <1>1, Zenon DEF Cleaning, Selects
<1>3. NoPublisher.request_id = None
  BY DEF NoPublisher, NewPublisher
<1>4. \A c \in Client : c \notin Closed => session'[c] = session[c]
  BY <1>1, Zenon DEF Cleaning
<1>5. ASSUME NEW p \in Publisher, p \notin Closed
      PROVE  Ended(p)' /\ Offering(p)' /\ Served(p)'
  <2>1. /\ Keeps(to_relay[p], to_relay'[p], "PublishDone")
        /\ Keeps(to_client[p], to_client'[p], "Subscribe")
    BY <1>1, KeepsUnchanged, Constants
  <2>2. session'[p] = session[p] /\ serving'[p] = serving[p]
    BY <1>1, <1>4, <1>5, Constants
  <2>3. Continues(p)
    BY <1>2, <1>5, <2>2, Zenon DEF Continues, Later, PublisherKept
  <2>4. Idle(p)
    BY <2>1, <2>2, <2>3, Zenon DEF Idle
  <2> QED
    BY <2>4, IdleUpstream, Zenon DEF Upstream
<1>6. ASSUME NEW p \in Publisher, p \in Closed
      PROVE  Ended(p)' /\ Offering(p)' /\ Served(p)'
  <2>1. conn[p] # "open" /\ p \in Client
    BY <1>6 DEF Closed
  <2>2. to_relay[p] = << >> /\ to_client[p] = << >> /\ DOMAIN serving[p] = {}
    BY <2>1, Zenon DEF Connections, QueuesOpen, ClientsOpen
  <2>3. session'[p] = NewSession
    BY <1>1, <1>6, Zenon DEF Cleaning
  <2>4. \A id \in session'[p].done : id < session'[p].next_request_id
    BY <2>3, NewSessionType
  <2> QED
    BY <1>1, <2>2, <2>4, EmptyUpstream
<1>7. Numbered'
  <2>1. \A t \in DOMAIN subscriptions' :
            LET p == subscriptions[t].publisher
                q == subscriptions'[t].publisher IN
            \/ q.request_id = None
            \/ /\ t \in DOMAIN subscriptions
               /\ q.client_id = p.client_id
               /\ q.request_id = p.request_id
               /\ Later(p.client_id)
    <3> SUFFICES ASSUME NEW t \in DOMAIN subscriptions', subscriptions'[t].publisher.request_id # None
                 PROVE  /\ t \in DOMAIN subscriptions
                        /\ subscriptions'[t].publisher = subscriptions[t].publisher
                        /\ Later(subscriptions[t].publisher.client_id)
      BY Zenon
    <3>1. /\ t \in DOMAIN subscriptions
          /\ subscriptions[t].publisher.client_id \notin Closed
          /\ subscriptions'[t].publisher = subscriptions[t].publisher
      BY <1>2, <1>3, Zenon DEF PublisherKept, PublisherLost
    <3>2. subscriptions[t].publisher.client_id \in Client
      BY <3>1, SentTo, Constants
    <3> QED
      BY <1>4, <3>1, <3>2, Zenon DEF Later
  <2> QED
    BY <2>1, NumberedStays DEF Upstream
<1> QED
  BY <1>5, <1>6, <1>7, Zenon DEF Upstream

\* The steps of the clients leave the relay's part as it is.
LEMMA ClientUpstream ==
    ASSUME Typing, Upstream, UNCHANGED <<session, subscriptions>>, NEW c,
           \A p \in Publisher : p # c =>
              /\ serving'[p] = serving[p]
              /\ Keeps(to_relay[p], to_relay'[p], "PublishDone")
              /\ Keeps(to_client[p], to_client'[p], "Subscribe"),
           c \in Publisher => Ended(c)' /\ Offering(c)' /\ Served(c)'
    PROVE  Upstream'
<1>1. ASSUME NEW p \in Publisher, p # c
      PROVE  Ended(p)' /\ Offering(p)' /\ Served(p)'
  <2>1. Continues(p)
    BY Zenon DEF Continues, Later
  <2>2. Idle(p)
    BY <1>1, <2>1, Zenon DEF Idle
  <2> QED
    BY <2>2, IdleUpstream, Zenon DEF Upstream
<1>2. Numbered'
  BY DEF Upstream, Numbered
<1> QED
  BY <1>1, <1>2, Zenon DEF Upstream

\* A client that is lost, and takes what was on its way along.
LEMMA LostUpstream ==
    ASSUME Typing, Upstream, NEW c \in Client, Lost(c)
    PROVE  Upstream'
<1>1. Losing(c) /\ UNCHANGED <<session, subscriptions>>
  BY LostEffect DEF Lost, relayVars
<1>2. \A p \in Publisher : p # c =>
          /\ serving'[p] = serving[p]
          /\ Keeps(to_relay[p], to_relay'[p], "PublishDone")
          /\ Keeps(to_client[p], to_client'[p], "Subscribe")
  BY <1>1, KeepsLosing, Constants, Zenon DEF Losing
<1>3. ASSUME c \in Publisher PROVE Ended(c)' /\ Offering(c)' /\ Served(c)'
  <2>1. to_relay'[c] = << >> /\ to_client'[c] = << >> /\ DOMAIN serving'[c] = {}
    BY <1>1, <1>3, Zenon DEF Losing
  <2>2. \A id \in session'[c].done : id < session'[c].next_request_id
    BY <1>1, <1>3 DEF Upstream, Ended
  <2> QED
    BY <2>1, <2>2, EmptyUpstream
<1> QED
  BY <1>1, <1>2, <1>3, ClientUpstream

\* Steps of the clients that neither take nor end a subscription.
LEMMA OtherUpstream ==
    ASSUME Typing, Upstream, UNCHANGED <<session, subscriptions, serving>>,
           \A c \in Client : Keeps(to_relay[c], to_relay'[c], "PublishDone"),
           \A c \in Client : Keeps(to_client[c], to_client'[c], "Subscribe")
    PROVE  Upstream'
<1>1. \A p \in Publisher : serving'[p] = serving[p]
  OBVIOUS
<1>2. \A c \in Client : session'[c].done = session[c].done /\ Later(c)
  BY DEF Later
<1>3. /\ DOMAIN subscriptions' = DOMAIN subscriptions
      /\ \A t \in DOMAIN subscriptions : subscriptions'[t] = subscriptions[t]
  OBVIOUS
<1> QED
  BY <1>1, <1>2, <1>3, AllIdle, Zenon

\* A publisher accepts a subscription, which is from then on the one that it serves.
LEMMA ServeUpstream ==
    ASSUME Typing, Upstream, NEW p \in Publisher, Arrived(p, "Subscribe"), Serving(p),
           UNCHANGED <<session, subscriptions>>
    PROVE  Upstream'
<1> DEFINE q == to_client[p]
           h == Head(q)
           m == Reply("SubscribeOk", h.request_id)
<1>0. p \in Client
  BY Constants
<1>1. /\ q # << >> /\ q \in Seq(ToClient)
      /\ h \in Msgs(q) /\ h.type = "Subscribe"
  BY <1>0, ArrivedAt, QueueOf
<1>2. /\ to_client'[p] = Tail(q)
      /\ Sends(to_relay, to_relay', p, m)
      /\ DOMAIN serving'[p] = DOMAIN serving[p] \cup {h.request_id}
      /\ serving'[p][h.request_id] = h.track
      /\ \A id \in DOMAIN serving[p] : id # h.request_id => serving'[p][id] = serving[p][id]
  BY Zenon DEF Serving, Takes
<1>3. m.type # "PublishDone"
  BY Fields
<1> HIDE DEF m
<1>4. \A c \in Client : Keeps(to_relay[c], to_relay'[c], "PublishDone")
  BY <1>0, <1>2, <1>3, KeepsReaches
<1>5. \A o \in Publisher : o # p =>
          /\ serving'[o] = serving[o]
          /\ Keeps(to_relay[o], to_relay'[o], "PublishDone")
          /\ Keeps(to_client[o], to_client'[o], "Subscribe")
  <2> SUFFICES ASSUME NEW o \in Publisher, o # p
               PROVE  /\ serving'[o] = serving[o]
                      /\ Keeps(to_relay[o], to_relay'[o], "PublishDone")
                      /\ Keeps(to_client[o], to_client'[o], "Subscribe")
    OBVIOUS
  <2>1. o \in Client
    BY Constants
  <2>2. serving'[o] = serving[o] /\ to_client'[o] = to_client[o]
    BY <2>1, Zenon DEF Serving, Takes
  <2>3. Keeps(to_client[o], to_client'[o], "Subscribe")
    BY <2>1, <2>2, QueueOf, KeepsQueue, Zenon
  <2> QED
    BY <1>4, <2>1, <2>2, <2>3
<1>6. Ended(p) /\ Offering(p) /\ Served(p)
  BY Zenon DEF Upstream
<1>7. \A n \in Msgs(to_relay'[p]) : n.type = "PublishDone" => n \in Msgs(to_relay[p])
  BY <1>0, <1>4, Zenon DEF Keeps
<1>8. Ended(p)'
  BY <1>6, <1>7 DEF Ended
<1>9. ASSUME NEW id, NEW t, Current(p, id, t) PROVE Current(p, id, t)'
  <2>1. \A n \in Msgs(to_relay'[p]) : n.type = "PublishDone" => n.request_id # id
    BY <1>7, <1>9, Zenon DEF Current
  <2> QED
    BY <1>9, <2>1 DEF Current
<1>10. Offering(p)'
  <2> SUFFICES /\ Distinct(to_client'[p], "Subscribe")
               /\ \A n \in Msgs(to_client'[p]) :
                     n.type = "Subscribe" =>
                         Current(p, n.request_id, n.track)' /\ n.request_id \notin DOMAIN serving'[p]
    BY Zenon DEF Offering
  <2>1. Distinct(q, "Subscribe")
    BY <1>6 DEF Offering
  <2>2. /\ Distinct(Tail(q), "Subscribe")
        /\ \A n \in Msgs(Tail(q)) : n.type = "Subscribe" => n.request_id # h.request_id
    BY <1>1, <2>1, DistinctTail
  <2>3. Msgs(Tail(q)) \subseteq Msgs(q)
    BY <1>1, MsgsTail
  <2>4. ASSUME NEW n \in Msgs(Tail(q)), n.type = "Subscribe"
        PROVE  Current(p, n.request_id, n.track)' /\ n.request_id \notin DOMAIN serving'[p]
    <3>1. Current(p, n.request_id, n.track) /\ n.request_id \notin DOMAIN serving[p]
      BY <1>6, <2>3, <2>4 DEF Offering
    <3>2. Current(p, n.request_id, n.track)'
      BY <1>9, <3>1
    <3>3. n.request_id # h.request_id
      BY <2>2, <2>4
    <3> QED
      BY <1>2, <3>1, <3>2, <3>3
  <2> QED
    BY <1>2, <2>2, <2>4
<1>11. Served(p)'
  <2> SUFFICES ASSUME NEW id \in DOMAIN serving'[p], NEW t, t = serving'[p][id]
               PROVE  Current(p, id, t)'
    BY Zenon DEF Served
  <2>1. CASE id = h.request_id
    <3>1. Current(p, id, t)
      BY <1>1, <1>2, <1>6, <2>1 DEF Offering
    <3> QED
      BY <1>9, <3>1
  <2>2. CASE id # h.request_id
    <3>1. id \in DOMAIN serving[p] /\ t = serving[p][id]
      BY <1>2, <2>2
    <3>2. Current(p, id, t)
      BY <1>6, <3>1, Zenon DEF Served
    <3> QED
      BY <1>9, <3>2
  <2> QED
    BY <2>1, <2>2
<1> QED
  BY <1>5, <1>8, <1>10, <1>11, ClientUpstream

\* A publisher ends a track: it was the one in the relay's map, and no other request has
\* its id.
LEMMA EndTrackUpstream ==
    ASSUME Typing, Upstream, NEW p \in Publisher, NEW id \in DOMAIN serving[p], EndTrack(p, id)
    PROVE  Upstream'
<1> DEFINE m == Reply("PublishDone", id)
<1>0. p \in Client
  BY Constants
<1>1. Ending(p, id) /\ UNCHANGED <<session, subscriptions, to_client>>
  BY EndingEffect DEF EndTrack, relayVars
<1>2. /\ Sends(to_relay, to_relay', p, m)
      /\ DOMAIN serving'[p] = DOMAIN serving[p] \ {id}
      /\ \A n \in DOMAIN serving'[p] : serving'[p][n] = serving[p][n]
  BY <1>1, Zenon DEF Ending
<1>3. m.type = "PublishDone" /\ m.request_id = id
  BY Fields
<1> HIDE DEF m
<1>4. \A o \in Publisher : o # p =>
          /\ serving'[o] = serving[o]
          /\ Keeps(to_relay[o], to_relay'[o], "PublishDone")
          /\ Keeps(to_client[o], to_client'[o], "Subscribe")
  <2> SUFFICES ASSUME NEW o \in Publisher, o # p
               PROVE  /\ serving'[o] = serving[o]
                      /\ Keeps(to_relay[o], to_relay'[o], "PublishDone")
                      /\ Keeps(to_client[o], to_client'[o], "Subscribe")
    OBVIOUS
  <2>1. o \in Client
    BY Constants
  <2>2. serving'[o] = serving[o] /\ to_relay'[o] = to_relay[o]
    BY <1>1, <1>2, <2>1, Zenon DEF Ending, Sends
  <2>3. Keeps(to_relay[o], to_relay'[o], "PublishDone")
    BY <2>1, <2>2, QueueOf, KeepsQueue, Zenon
  <2>4. Keeps(to_client[o], to_client'[o], "Subscribe")
    BY <1>1, <2>1, KeepsUnchanged
  <2> QED
    BY <2>2, <2>3, <2>4
<1>5. Ended(p) /\ Offering(p) /\ Served(p)
  BY Zenon DEF Upstream
<1>6. Msgs(to_relay'[p]) = Msgs(to_relay[p]) \cup {m}
  <2>1. to_relay'[p] = Append(to_relay[p], m) /\ to_relay[p] \in Seq(ToRelay(p))
    BY <1>0, <1>2, QueueOf, Zenon DEF Sends
  <2> QED
    BY <2>1, MsgsAppend, Zenon
<1>7. id < session[p].next_request_id
  <2>1. Current(p, id, serving[p][id])
    BY <1>5, Zenon DEF Served
  <2>2. id # None
    BY UpstreamIds
  <2>3. PICK t \in DOMAIN subscriptions :
            subscriptions[t].publisher.client_id = p /\ subscriptions[t].publisher.request_id = id
    BY <2>1, Zenon DEF Current
  <2>4. subscriptions[t].publisher.request_id
            < session[subscriptions[t].publisher.client_id].next_request_id
    BY <2>2, <2>3, Zenon DEF Upstream, Numbered
  <2> QED
    BY <2>3, <2>4
<1>8. Ended(p)'
  BY <1>1, <1>3, <1>5, <1>6, <1>7 DEF Ended
<1>9. ASSUME NEW n, NEW t, n # id, Current(p, n, t) PROVE Current(p, n, t)'
  <2>1. \A k \in Msgs(to_relay'[p]) : k.type = "PublishDone" => k.request_id # n
    BY <1>3, <1>6, <1>9 DEF Current
  <2> QED
    BY <1>1, <1>9, <2>1 DEF Current
<1>10. Offering(p)'
  <2> SUFFICES /\ Distinct(to_client'[p], "Subscribe")
               /\ \A n \in Msgs(to_client'[p]) :
                     n.type = "Subscribe" =>
                         Current(p, n.request_id, n.track)' /\ n.request_id \notin DOMAIN serving'[p]
    BY Zenon DEF Offering
  <2>1. ASSUME NEW n \in Msgs(to_client'[p]), n.type = "Subscribe"
        PROVE  Current(p, n.request_id, n.track)' /\ n.request_id \notin DOMAIN serving'[p]
    <3>1. Current(p, n.request_id, n.track) /\ n.request_id \notin DOMAIN serving[p]
      BY <1>1, <1>5, <2>1 DEF Offering
    <3>2. n.request_id # id
      BY <3>1
    <3>3. Current(p, n.request_id, n.track)'
      BY <1>9, <3>1, <3>2
    <3> QED
      BY <1>2, <3>1, <3>3
  <2>2. Distinct(to_client'[p], "Subscribe")
    BY <1>1, <1>5 DEF Offering
  <2> QED
    BY <2>1, <2>2
<1>11. Served(p)'
  <2> SUFFICES ASSUME NEW n \in DOMAIN serving'[p], NEW t, t = serving'[p][n]
               PROVE  Current(p, n, t)'
    BY Zenon DEF Served
  <2>1. n # id /\ n \in DOMAIN serving[p] /\ t = serving[p][n]
    BY <1>2
  <2>2. Current(p, n, t)
    BY <1>5, <2>1, Zenon DEF Served
  <2> QED
    BY <1>9, <2>1, <2>2
<1> QED
  BY <1>1, <1>4, <1>8, <1>10, <1>11, ClientUpstream

\* A publisher's request for another session, and what subscribers say and hear.
LEMMA RecvUpstream ==
    ASSUME Typing, Upstream, NEW c \in Client, Recv(c)
    PROVE  Upstream'
<1>1. CASE Lost(c)
  BY <1>1, LostUpstream
<1>2. CASE RecvAnnouncement(c) /\ ~Lost(c)
  <2>1. Learning(c) /\ UNCHANGED <<session, subscriptions, serving>>
    BY <1>2, LearningEffect DEF relayVars
  <2>2. to_client[c] # << >>
    BY <1>2, ArrivedAt DEF RecvAnnouncement
  <2>3. \A d \in Client : Keeps(to_client[d], to_client'[d], "Subscribe")
    BY <2>1, <2>2, KeepsTakes, Zenon DEF Learning
  <2>4. \A d \in Client : Keeps(to_relay[d], to_relay'[d], "PublishDone")
    <3> DEFINE m == Reply("PublishOk", Head(to_client[c]).request_id)
    <3>1. UNCHANGED to_relay \/ Sends(to_relay, to_relay', c, m)
      BY <2>1, Zenon DEF Learning
    <3>2. m.type # "PublishDone"
      BY Fields
    <3> HIDE DEF m
    <3> QED
      BY <3>1, <3>2, KeepsReaches
  <2> QED
    BY <2>1, <2>3, <2>4, OtherUpstream
<1>3. CASE c \in Publisher /\ RecvSubscribe(c) /\ ~Lost(c)
  <2>1. Serving(c) /\ UNCHANGED <<session, subscriptions>>
    BY <1>3, ServingEffect DEF relayVars
  <2>2. Arrived(c, "Subscribe")
    BY <1>3 DEF RecvSubscribe
  <2> QED
    BY <1>3, <2>1, <2>2, ServeUpstream
<1>4. CASE c \in Subscriber /\ RecvWithdrawal(c)
  <2>1. Forgetting(c) /\ UNCHANGED <<session, subscriptions, serving, to_relay>>
    BY <1>4, ForgettingEffect DEF RecvWithdrawal, relayVars
  <2>2. to_client[c] # << >>
    BY <1>4, ArrivedAt DEF RecvWithdrawal
  <2>3. \A d \in Client : Keeps(to_client[d], to_client'[d], "Subscribe")
    BY <2>1, <2>2, KeepsTakes, Zenon DEF Forgetting
  <2>4. \A d \in Client : Keeps(to_relay[d], to_relay'[d], "PublishDone")
    BY <2>1, KeepsUnchanged
  <2> QED
    BY <2>1, <2>3, <2>4, OtherUpstream
<1>5. CASE c \in Subscriber /\ RecvAnswer(c)
  <2>1. Hearing(c) /\ UNCHANGED <<session, subscriptions, serving, to_relay>>
    BY <1>5, HearingEffect DEF RecvAnswer, relayVars
  <2>2. to_client[c] # << >>
    BY <1>5, ArrivedAt DEF RecvAnswer
  <2>3. \A d \in Client : Keeps(to_client[d], to_client'[d], "Subscribe")
    BY <2>1, <2>2, KeepsTakes, Zenon DEF Hearing
  <2>4. \A d \in Client : Keeps(to_relay[d], to_relay'[d], "PublishDone")
    BY <2>1, KeepsUnchanged
  <2> QED
    BY <2>1, <2>3, <2>4, OtherUpstream
<1> QED
  BY <1>1, <1>2, <1>3, <1>4, <1>5 DEF Recv

LEMMA RequestsUpstream ==
    ASSUME Typing, Upstream
    PROVE  /\ \A c \in Client : Connect(c) => Upstream'
           /\ \A s \in Subscriber : Ask(s) => Upstream'
<1>0. UNCHANGED to_client => \A d \in Client : Keeps(to_client[d], to_client'[d], "Subscribe")
  BY KeepsUnchanged
<1>1. ASSUME NEW c \in Client, Connect(c) PROVE Upstream'
  <2>1. UNCHANGED <<session, subscriptions, serving, to_client>>
    BY <1>1 DEF Connect, relayVars, clientVars
  <2>2. \A d \in Client : Keeps(to_relay[d], to_relay'[d], "PublishDone")
    <3>1. CASE c \in Publisher
      <4> DEFINE m == Announcement(FirstRequestId, NamespaceOf[TrackOf[c]])
      <4>1. Reach(c, m)
        BY <1>1, <3>1 DEF Connect
      <4>2. FirstRequestId \in Nat /\ NamespaceOf[TrackOf[c]] \in Namespace
        BY Constants
      <4>3. m \in ToRelay(c)
        BY <3>1, <4>2, Messages, Zenon
      <4>4. m.type # "PublishDone"
        BY Fields
      <4> HIDE DEF m
      <4>5. Sends(to_relay, to_relay', c, m)
        BY <4>1, <4>3, ReachType, QueuesTyped, Zenon DEF Typing
      <4> QED
        BY <4>4, <4>5, KeepsReaches
    <3>2. CASE c \notin Publisher
      BY <1>1, <3>2, KeepsUnchanged DEF Connect
    <3> QED
      BY <3>1, <3>2
  <2> QED
    BY <1>0, <2>1, <2>2, OtherUpstream
<1>2. ASSUME NEW s \in Subscriber, Ask(s) PROVE Upstream'
  <2> DEFINE m == Subscribe(FirstRequestId, TrackOf[s])
  <2>1. UNCHANGED <<session, subscriptions, serving, to_client>> /\ Reach(s, m)
    BY <1>2 DEF Ask, relayVars
  <2>2. s \in Client
    BY Constants
  <2>3. m \in ToRelay(s)
    BY Messages, Zenon
  <2>4. m.type # "PublishDone"
    BY Fields
  <2> HIDE DEF m
  <2>5. Sends(to_relay, to_relay', s, m)
    BY <2>1, <2>2, <2>3, ReachType, QueuesTyped, Zenon DEF Typing
  <2>6. \A d \in Client : Keeps(to_relay[d], to_relay'[d], "PublishDone")
    BY <2>2, <2>4, <2>5, KeepsReaches
  <2> QED
    BY <1>0, <2>1, <2>6, OtherUpstream
<1> QED
  BY <1>1, <1>2

LEMMA UpstreamStep ==
    ASSUME Typing, Connections, Upstream, [Next]_vars
    PROVE  Upstream'
<1>1. ASSUME NEW c \in Client, Close(c) PROVE Upstream'
  BY <1>1, LostUpstream DEF Close
<1>2. ASSUME Stops PROVE Upstream'
  <2>1. UNCHANGED <<session, subscriptions, serving, to_relay, to_client>>
    BY <1>2 DEF Stops, relayVars, clientVars
  <2> QED
    BY <2>1, KeepsUnchanged, OtherUpstream
<1> QED
  BY <1>1, <1>2, Steps, CleanupUpstream, ReceiveUpstream, LoopUpstream, RequestUpstream,
     ForwardUpstream, RequestsUpstream, RecvUpstream, EndTrackUpstream, Zenon

LEMMA InitUpstream == Init => Upstream
<1> SUFFICES ASSUME Init PROVE Upstream
  OBVIOUS
<1>1. DOMAIN EmptyMap = {} /\ DOMAIN << >> = {}
  BY DEF EmptyMap
<1>2. Numbered
  BY <1>1, Zenon DEF Init, Numbered
<1>3. ASSUME NEW p \in Publisher PROVE Ended(p) /\ Offering(p) /\ Served(p)
  <2>1. /\ to_relay[p] = << >> /\ to_client[p] = << >>
        /\ session[p] = NewSession /\ serving[p] = EmptyMap
    BY Constants DEF Init
  <2>2. Msgs(to_relay[p]) = {} /\ Msgs(to_client[p]) = {}
    BY <1>1, <2>1 DEF Msgs
  <2>3. Ended(p)
    BY <2>1, <2>2, NewSessionType, Zenon DEF Ended
  <2>4. Offering(p)
    BY <1>1, <2>1, <2>2, Zenon DEF Offering, Distinct
  <2>5. Served(p)
    BY <1>1, <2>1, Zenon DEF Served
  <2> QED
    BY <2>3, <2>4, <2>5
<1> QED
  BY <1>2, <1>3, Zenon DEF Upstream

\* Every subscription of the relay that is on its way to a publisher, or served by one, is
\* the one of its track in the relay's map, and has not been ended.
THEOREM RelayUpstream == Spec => []Upstream
<1>1. Init => Upstream
  BY InitUpstream
<1>2. Typing /\ Connections /\ Upstream /\ [Next]_vars => Upstream'
  BY UpstreamStep
<1>3. Spec => []Typing
  BY RelayTyping
<1>4. Spec => []Connections
  BY RelayConnections
<1> QED
  BY <1>1, <1>2, <1>3, <1>4, PTL DEF Spec

\* The relay is subscribed to a track once, whoever has subscribed, left or taken over the
\* namespace since.
THEOREM RelaySubscribedOnce == Spec => []SubscribedOnce
<1>1. Upstream => SubscribedOnce
  <2> SUFFICES ASSUME Upstream, NEW p \in Publisher, NEW id \in DOMAIN serving[p]
               PROVE  LET t == serving[p][id] IN
                      /\ t \in DOMAIN subscriptions
                      /\ subscriptions[t].publisher.client_id = p
                      /\ subscriptions[t].publisher.request_id = id
    BY Zenon DEF SubscribedOnce
  <2>1. Current(p, id, serving[p][id])
    BY Zenon DEF Upstream, Served
  <2> QED
    BY <2>1, Zenon DEF Current
<1>2. Spec => []Upstream
  BY RelayUpstream
<1> QED
  BY <1>1, <1>2, PTL

(***************************************************************************)
(* BelievedBacked.                                                         *)
(***************************************************************************)

\* The relay knows the namespace by this announcement, or has abandoned it.
Announced(s, ns, id) ==
    \/ ns \in DOMAIN announced_namespaces[s] /\ announced_namespaces[s][ns] = id
    \/ id \in abandoned[s]

\* The announcements that the relay has made to s have different ids, and each is one that
\* s has accepted or that is pending.
Known(s) ==
    /\ \A ns \in DOMAIN announced_namespaces[s] : \A id : id = announced_namespaces[s][ns] =>
          /\ id < session[s].next_request_id
          /\ \/ id \in DOMAIN session[s].sent_namespaces
             \/ id \in DOMAIN session[s].pending_sent_publish_namespace
    /\ \A ns, o \in DOMAIN announced_namespaces[s] :
          announced_namespaces[s][ns] = announced_namespaces[s][o] => ns = o
    /\ \A id \in DOMAIN session[s].sent_namespaces : id < session[s].next_request_id
    /\ \A m \in Msgs(to_relay[s]) :
          m.type = "PublishOk" => m.request_id < session[s].next_request_id

\* An announcement on its way to s has not been answered yet, nor withdrawn.
Telling(s) ==
    /\ Distinct(to_client[s], "PublishNamespace")
    /\ \A m \in Msgs(to_client[s]) :
          m.type = "PublishNamespace" =>
              /\ m.request_id < session[s].next_request_id
              /\ Announced(s, m.namespace, m.request_id)
              /\ m.request_id \notin DOMAIN session[s].sent_namespaces
              /\ \A n \in Msgs(to_relay[s]) :
                    n.type = "PublishOk" => n.request_id # m.request_id

Withdrawing(s, id) == Reply("PublishNamespaceDone", id) \in Msgs(to_client[s])

Backed(s) ==
    \A id \in DOMAIN believed[s] : \A ns : ns = believed[s][id] =>
        Announced(s, ns, id) \/ Withdrawing(s, id)

\* An announcement is pending until its PUBLISH_OK is taken, which comes once: the
\* namespace that the relay files then is the one it has announced.
Awaited(s) ==
    LET r == session[s] IN
    /\ \A id \in DOMAIN r.pending_sent_publish_namespace : id < r.next_request_id
    /\ \A id \in DOMAIN r.sent_namespaces : r.sent_namespaces[id] \in Namespace
    /\ Distinct(to_relay[s], "PublishOk")
    /\ \A m \in Msgs(to_relay[s]) :
          m.type = "PublishOk" => m.request_id \in DOMAIN r.pending_sent_publish_namespace
    /\ \A m \in Msgs(to_client[s]) :
          m.type = "PublishNamespace" =>
              m.request_id \in DOMAIN r.pending_sent_publish_namespace

Agreed(s) == Known(s) /\ Telling(s) /\ Backed(s) /\ Awaited(s)

Beliefs == \A s \in Subscriber : Agreed(s)

\* A step that leaves the announcements to s as they are.
Same(s) ==
    /\ announced_namespaces'[s] = announced_namespaces[s]
    /\ abandoned'[s] = abandoned[s]
    /\ believed'[s] = believed[s]
    /\ session'[s].next_request_id = session[s].next_request_id
    /\ SameAnnouncements(session[s], session'[s])

Calm(s) ==
    /\ Same(s)
    /\ Keeps(to_relay[s], to_relay'[s], "PublishOk")
    /\ Keeps(to_client[s], to_client'[s], "PublishNamespace")
    /\ \A id : Withdrawing(s, id) => Withdrawing(s, id)'

LEMMA CalmBeliefs ==
    ASSUME NEW s, Calm(s), Agreed(s)
    PROVE  Agreed(s)'
<1>1. /\ \A m \in Msgs(to_relay'[s]) : m.type = "PublishOk" => m \in Msgs(to_relay[s])
      /\ \A m \in Msgs(to_client'[s]) : m.type = "PublishNamespace" => m \in Msgs(to_client[s])
      /\ Distinct(to_client[s], "PublishNamespace") => Distinct(to_client'[s], "PublishNamespace")
      /\ Distinct(to_relay[s], "PublishOk") => Distinct(to_relay'[s], "PublishOk")
  BY Zenon DEF Calm, Keeps
<1>0. Known(s) /\ Telling(s) /\ Backed(s) /\ Awaited(s)
  BY Zenon DEF Agreed
<1>2. /\ announced_namespaces'[s] = announced_namespaces[s]
      /\ abandoned'[s] = abandoned[s]
      /\ believed'[s] = believed[s]
      /\ session'[s].next_request_id = session[s].next_request_id
      /\ session'[s].sent_namespaces = session[s].sent_namespaces
      /\ session'[s].pending_sent_publish_namespace = session[s].pending_sent_publish_namespace
  BY Zenon DEF Calm, Same, SameAnnouncements
<1>3. \A ns, id : Announced(s, ns, id) => Announced(s, ns, id)'
  BY <1>2 DEF Announced
<1>4. Known(s)'
  BY <1>0, <1>1, <1>2 DEF Known
<1>5. Telling(s)'
  BY <1>0, <1>1, <1>2, <1>3 DEF Telling
<1>6. Backed(s)'
  BY <1>0, <1>2, <1>3, Zenon DEF Backed, Calm
<1>7. Awaited(s)'
  BY <1>0, <1>1, <1>2 DEF Awaited
<1> QED
  BY <1>4, <1>5, <1>6, <1>7, Zenon DEF Agreed

\* The withdrawals that are on their way.
LEMMA WithdrawingQueue ==
    ASSUME NEW S, NEW q \in Seq(S), NEW id, Reply("PublishNamespaceDone", id) \in Msgs(q)
    PROVE  /\ \A m : Reply("PublishNamespaceDone", id) \in Msgs(Append(q, m))
           /\ q # << >> /\ Head(q) # Reply("PublishNamespaceDone", id) =>
                  Reply("PublishNamespaceDone", id) \in Msgs(Tail(q))
<1>1. \A m : Msgs(Append(q, m)) = Msgs(q) \cup {m}
  BY MsgsAppend
<1>2. q # << >> => Msgs(q) \subseteq Msgs(Tail(q)) \cup {Head(q)}
  BY MsgsTail
<1> QED
  BY <1>1, <1>2

LEMMA WithdrawingSends ==
    ASSUME Typing, NEW c \in Client, NEW m, Sends(to_client, to_client', c, m)
    PROVE  \A s \in Subscriber : \A id : Withdrawing(s, id) => Withdrawing(s, id)'
<1> SUFFICES ASSUME NEW s \in Subscriber, NEW id, Withdrawing(s, id) PROVE Withdrawing(s, id)'
  OBVIOUS
<1>1. s \in Client /\ to_client[s] \in Seq(ToClient)
  BY Constants, QueueOf
<1>2. to_client'[s] = to_client[s] \/ to_client'[s] = Append(to_client[s], m)
  BY <1>1, Zenon DEF Sends
<1>3. Reply("PublishNamespaceDone", id) \in Msgs(Append(to_client[s], m))
  BY <1>1, WithdrawingQueue, Zenon DEF Withdrawing
<1> QED
  BY <1>2, <1>3, Zenon DEF Withdrawing

LEMMA WithdrawingTells ==
    ASSUME Typing, NEW C, NEW type, Tells(C, type)
    PROVE  \A s \in Subscriber : \A id : Withdrawing(s, id) => Withdrawing(s, id)'
<1> SUFFICES ASSUME NEW s \in Subscriber, NEW id, Withdrawing(s, id) PROVE Withdrawing(s, id)'
  OBVIOUS
<1> DEFINE m == Reply(type, FirstRequestId)
<1>1. s \in Client /\ to_client[s] \in Seq(ToClient)
  BY Constants, QueueOf
<1>2. to_client'[s] = to_client[s] \/ to_client'[s] = Append(to_client[s], m)
  BY <1>1, Zenon DEF Tells
<1> HIDE DEF m
<1>3. Reply("PublishNamespaceDone", id) \in Msgs(Append(to_client[s], m))
  BY <1>1, WithdrawingQueue, Zenon DEF Withdrawing
<1> QED
  BY <1>2, <1>3, Zenon DEF Withdrawing

\* A message of another kind that a client takes.
LEMMA WithdrawingTakes ==
    ASSUME Typing, NEW c \in Client, to_client[c] # << >>, Takes(to_client, to_client', c)
    PROVE  \A s \in Subscriber : \A id :
              /\ Withdrawing(s, id)
              /\ s = c => Head(to_client[c]) # Reply("PublishNamespaceDone", id)
              => Withdrawing(s, id)'
<1> SUFFICES ASSUME NEW s \in Subscriber, NEW id, Withdrawing(s, id),
                    s = c => Head(to_client[c]) # Reply("PublishNamespaceDone", id)
             PROVE  Withdrawing(s, id)'
  OBVIOUS
<1>1. s \in Client /\ to_client[s] \in Seq(ToClient)
  BY Constants, QueueOf
<1>2. CASE s = c
  <2>1. to_client'[s] = Tail(to_client[s])
    BY <1>2, Zenon DEF Takes
  <2>2. Reply("PublishNamespaceDone", id) \in Msgs(Tail(to_client[s]))
    BY <1>1, <1>2, WithdrawingQueue, Zenon DEF Withdrawing
  <2> QED
    BY <2>1, <2>2, Zenon DEF Withdrawing
<1>3. CASE s # c
  BY <1>1, <1>3, Zenon DEF Takes, Withdrawing
<1> QED
  BY <1>2, <1>3

\* A subscriber that has no part in a step.
LEMMA SparedCalm ==
    ASSUME Typing, NEW s \in Subscriber,
           announced_namespaces'[s] = announced_namespaces[s], abandoned'[s] = abandoned[s],
           believed'[s] = believed[s], session'[s] = session[s],
           to_relay'[s] = to_relay[s], to_client'[s] = to_client[s]
    PROVE  Calm(s)
<1>1. Keeps(to_relay[s], to_relay[s], "PublishOk") /\ Keeps(to_client[s], to_client[s], "PublishNamespace")
  BY Constants, QueueOf, KeepsQueue, Zenon
<1>2. \A id : Withdrawing(s, id) => Withdrawing(s, id)'
  BY Zenon DEF Withdrawing
<1>3. Same(s)
  BY Zenon DEF Same, SameAnnouncements
<1> QED
  BY <1>1, <1>2, <1>3, Zenon DEF Calm

\* Phase 1: PUBLISH_OK moves an announcement from those that are pending to those accepted,
\* and the announcement itself is not on its way any more.
LEMMA ReceiveBeliefs ==
    ASSUME Typing, Beliefs, NEW c \in Client, Receive(c)
    PROVE  Beliefs'
<1>1. Polled(c) /\ UNCHANGED <<announced_namespaces, abandoned, believed, to_client>>
  BY PollEffect DEF Receive, clientVars
<1>2. ASSUME NEW s \in Subscriber, s # c PROVE Agreed(s)'
  <2>1. session'[s] = session[s] /\ to_relay'[s] = to_relay[s]
    BY <1>1, <1>2, Constants, Zenon DEF Polled
  <2>2. Calm(s)
    BY <1>1, <2>1, SparedCalm
  <2> QED
    BY <2>2, CalmBeliefs, Zenon DEF Beliefs
<1>3. ASSUME c \in Subscriber PROVE Agreed(c)'
  <2> DEFINE m == Message(c)
             s == session[c]
             r == session'[c]
  <2>1. Known(c) /\ Telling(c) /\ Backed(c) /\ Awaited(c)
    BY <1>3, Zenon DEF Beliefs, Agreed
  <2>2. /\ r.next_request_id = s.next_request_id
        /\ m.type = "PublishOk" =>
              /\ DOMAIN r.pending_sent_publish_namespace =
                     DOMAIN s.pending_sent_publish_namespace \ {m.request_id}
              /\ DOMAIN r.sent_namespaces = DOMAIN s.sent_namespaces \cup {m.request_id}
        /\ m.type # "PublishOk" =>
              /\ r.pending_sent_publish_namespace = s.pending_sent_publish_namespace
              /\ r.sent_namespaces = s.sent_namespaces
    BY <1>1, Zenon DEF Polled
  <2>3. m.type = "PublishOk" => m \in Msgs(to_relay[c])
    <3> SUFFICES ASSUME m.type = "PublishOk" PROVE m \in Msgs(to_relay[c])
      OBVIOUS
    <3>1. to_relay[c] # << >> /\ m = Head(to_relay[c])
      BY HeadOf DEF Typing
    <3>2. Head(to_relay[c]) \in Msgs(to_relay[c])
      BY <3>1, QueueOf, MsgsTail, Zenon
    <3> QED
      BY <3>1, <3>2
  <2> HIDE DEF m
  <2>4. \A n \in Msgs(to_relay'[c]) : n.type = "PublishOk" => n \in Msgs(to_relay[c])
    BY <1>1, KeepsPolled, Zenon DEF Keeps
  <2>5. /\ to_client'[c] = to_client[c] /\ announced_namespaces'[c] = announced_namespaces[c]
        /\ abandoned'[c] = abandoned[c] /\ believed'[c] = believed[c]
    BY <1>1
  <2>6. \A ns, id : Announced(c, ns, id) => Announced(c, ns, id)'
    BY <2>5, Zenon DEF Announced
  <2>7. Known(c)'
    <3>1. ASSUME NEW ns \in DOMAIN announced_namespaces'[c], NEW id,
                 id = announced_namespaces'[c][ns]
          PROVE  /\ id < r.next_request_id
                 /\ \/ id \in DOMAIN r.sent_namespaces
                    \/ id \in DOMAIN r.pending_sent_publish_namespace
      BY <2>1, <2>2, <2>5, <3>1 DEF Known
    <3>2. \A id \in DOMAIN r.sent_namespaces : id < r.next_request_id
      BY <2>1, <2>2, <2>3 DEF Known
    <3>3. \A n \in Msgs(to_relay'[c]) : n.type = "PublishOk" => n.request_id < r.next_request_id
      BY <2>1, <2>2, <2>4 DEF Known
    <3>4. \A ns, o \in DOMAIN announced_namespaces'[c] :
              announced_namespaces'[c][ns] = announced_namespaces'[c][o] => ns = o
      BY <2>1, <2>5, Zenon DEF Known
    <3> QED
      BY <3>1, <3>2, <3>3, <3>4 DEF Known
  <2>8. Telling(c)'
    <3>1. Distinct(to_client'[c], "PublishNamespace")
      BY <2>1, <2>5 DEF Telling
    <3>2. ASSUME NEW n \in Msgs(to_client'[c]), n.type = "PublishNamespace"
          PROVE  /\ n.request_id < r.next_request_id
                 /\ Announced(c, n.namespace, n.request_id)'
                 /\ n.request_id \notin DOMAIN r.sent_namespaces
                 /\ \A k \in Msgs(to_relay'[c]) :
                       k.type = "PublishOk" => k.request_id # n.request_id
      <4>1. /\ n.request_id < s.next_request_id
            /\ Announced(c, n.namespace, n.request_id)
            /\ n.request_id \notin DOMAIN s.sent_namespaces
            /\ \A k \in Msgs(to_relay[c]) :
                  k.type = "PublishOk" => k.request_id # n.request_id
        BY <2>1, <2>5, <3>2 DEF Telling
      <4>2. m.type = "PublishOk" => m.request_id # n.request_id
        BY <2>3, <4>1
      <4> QED
        BY <2>2, <2>4, <2>6, <4>1, <4>2
    <3> QED
      BY <3>1, <3>2 DEF Telling
  <2>9. Backed(c)'
    BY <2>1, <2>5, <2>6, Zenon DEF Backed, Withdrawing
  <2>10. Awaited(c)'
    <3>1. /\ \A id \in DOMAIN s.pending_sent_publish_namespace : id < s.next_request_id
          /\ \A id \in DOMAIN s.sent_namespaces : s.sent_namespaces[id] \in Namespace
          /\ Distinct(to_relay[c], "PublishOk")
          /\ \A n \in Msgs(to_relay[c]) :
                n.type = "PublishOk" => n.request_id \in DOMAIN s.pending_sent_publish_namespace
          /\ \A n \in Msgs(to_client[c]) : n.type = "PublishNamespace" =>
                n.request_id \in DOMAIN s.pending_sent_publish_namespace
      BY <2>1, Zenon DEF Awaited
    <3>2. Distinct(to_relay'[c], "PublishOk")
      BY <1>1, <3>1, KeepsPolled, Zenon DEF Keeps
    <3>3. CASE m.type # "PublishOk"
      <4>1. /\ r.pending_sent_publish_namespace = s.pending_sent_publish_namespace
            /\ r.sent_namespaces = s.sent_namespaces
        BY <2>2, <3>3
      <4> HIDE DEF s, r
      <4>2. /\ \A id \in DOMAIN r.pending_sent_publish_namespace : id < r.next_request_id
            /\ \A id \in DOMAIN r.sent_namespaces : r.sent_namespaces[id] \in Namespace
            /\ \A n \in Msgs(to_relay'[c]) : n.type = "PublishOk" =>
                  n.request_id \in DOMAIN r.pending_sent_publish_namespace
            /\ \A n \in Msgs(to_client'[c]) : n.type = "PublishNamespace" =>
                  n.request_id \in DOMAIN r.pending_sent_publish_namespace
        BY <2>2, <2>4, <2>5, <3>1, <4>1
      <4> QED
        BY <3>2, <4>2, Zenon DEF Awaited, r
    <3>4. CASE m.type = "PublishOk"
      <4>1. /\ m = Head(to_relay[c]) /\ to_relay[c] # << >>
            /\ to_relay'[c] = Tail(to_relay[c]) /\ to_relay[c] \in Seq(ToRelay(c))
        <5>1. to_relay[c] # << >> /\ m = Head(to_relay[c])
          BY <3>4, HeadOf DEF Typing, m
        <5> QED
          BY <1>1, <5>1, QueueOf, Zenon DEF Polled
      <4>2. /\ DOMAIN r.pending_sent_publish_namespace
                   = DOMAIN s.pending_sent_publish_namespace \ {m.request_id}
            /\ DOMAIN r.sent_namespaces = DOMAIN s.sent_namespaces \cup {m.request_id}
            /\ \A id \in DOMAIN s.sent_namespaces :
                  id # m.request_id => r.sent_namespaces[id] = s.sent_namespaces[id]
            /\ r.sent_namespaces[m.request_id]
                   = s.pending_sent_publish_namespace[m.request_id]
        BY <1>1, <3>4, Zenon DEF Polled, m
      <4>3. m \in Msgs(to_relay[c]) /\ m.request_id \in DOMAIN s.pending_sent_publish_namespace
        BY <2>3, <3>1, <3>4
      <4>4. s.pending_sent_publish_namespace[m.request_id] \in Namespace
        <5>1. AnnouncementsOK(s, c)
          BY Zenon DEF Typing, SessionsType, SessionOK
        <5> QED
          BY <4>3, <5>1, Zenon DEF AnnouncementsOK
      <4>5. \A n \in Msgs(to_relay'[c]) :
                n.type = "PublishOk" => n \in Msgs(to_relay[c]) /\ n.request_id # m.request_id
        <5>1. \A n \in Msgs(Tail(to_relay[c])) :
                  n.type = "PublishOk" => n.request_id # Head(to_relay[c]).request_id
          BY <3>1, <3>4, <4>1, DistinctTail
        <5> QED
          BY <2>4, <4>1, <5>1
      <4>6. \A n \in Msgs(to_client'[c]) :
                n.type = "PublishNamespace" => n \in Msgs(to_client[c]) /\ n.request_id # m.request_id
        BY <2>1, <2>5, <3>4, <4>3 DEF Telling
      <4> HIDE DEF s, r
      <4>7. /\ \A id \in DOMAIN r.pending_sent_publish_namespace : id < r.next_request_id
            /\ \A id \in DOMAIN r.sent_namespaces : r.sent_namespaces[id] \in Namespace
            /\ \A n \in Msgs(to_relay'[c]) : n.type = "PublishOk" =>
                  n.request_id \in DOMAIN r.pending_sent_publish_namespace
            /\ \A n \in Msgs(to_client'[c]) : n.type = "PublishNamespace" =>
                  n.request_id \in DOMAIN r.pending_sent_publish_namespace
        BY <2>2, <3>1, <4>2, <4>4, <4>5, <4>6
      <4> QED
        BY <3>2, <4>7, Zenon DEF Awaited, r
    <3> QED
      BY <3>3, <3>4
  <2> QED
    BY <2>7, <2>8, <2>9, <2>10, Zenon DEF Agreed
<1> QED
  BY <1>2, <1>3, Zenon DEF Beliefs

\* Phase 2: a namespace is withdrawn from those that have accepted it, and given up for
\* those that have not.
LEMMA WithdrawBeliefs ==
    ASSUME Typing, Beliefs, NEW c \in Client, NEW ns \in Namespace, Withdraw(c, ns)
    PROVE  Beliefs'
<1> DEFINE id == announced_namespaces[c][ns]
           m == Reply("PublishNamespaceDone", id)
<1>1. Withdrawn(c, ns) /\ UNCHANGED <<to_relay, believed>>
  BY WithdrawEffect DEF Withdraw, clientVars
<1>2. UNCHANGED to_client \/ Sends(to_client, to_client', c, m)
  BY <1>1, Zenon DEF Withdrawn
<1>3. /\ ns \in DOMAIN announced_namespaces[c]
      /\ \A d \in Client : d # c => announced_namespaces'[d] = announced_namespaces[d]
      /\ DOMAIN announced_namespaces'[c] = DOMAIN announced_namespaces[c] \ {ns}
      /\ \A o \in DOMAIN announced_namespaces'[c] :
            announced_namespaces'[c][o] = announced_namespaces[c][o]
      /\ \A d \in Client : d # c => session'[d] = session[d] /\ abandoned'[d] = abandoned[d]
      /\ session'[c].next_request_id = session[c].next_request_id
      /\ session'[c].pending_sent_publish_namespace = session[c].pending_sent_publish_namespace
      /\ abandoned[c] \subseteq abandoned'[c]
  BY <1>1, Zenon DEF Withdrawn, Loses
<1>4. id \in DOMAIN session[c].sent_namespaces =>
          /\ DOMAIN session'[c].sent_namespaces = DOMAIN session[c].sent_namespaces \ {id}
          /\ \A n \in DOMAIN session'[c].sent_namespaces :
                session'[c].sent_namespaces[n] = session[c].sent_namespaces[n]
          /\ Sends(to_client, to_client', c, m)
  BY <1>1, Zenon DEF Withdrawn, Withdrawable
<1>5. id \notin DOMAIN session[c].sent_namespaces =>
          /\ session'[c].sent_namespaces = session[c].sent_namespaces
          /\ id \in DOMAIN session[c].pending_sent_publish_namespace => id \in abandoned'[c]
  BY <1>1, Zenon DEF Withdrawn, Withdrawable, SameAnnouncements
<1>6. m.type # "PublishNamespace"
  BY Fields
<1> HIDE DEF m
<1>7. \A s \in Subscriber : \A n : Withdrawing(s, n) => Withdrawing(s, n)'
  <2>1. CASE UNCHANGED to_client
    BY <2>1, Zenon DEF Withdrawing
  <2> QED
    BY <1>2, <2>1, WithdrawingSends
<1>8. ASSUME NEW s \in Subscriber, s # c PROVE Agreed(s)'
  <2>1. s \in Client
    BY Constants
  <2>2. to_client'[s] = to_client[s]
    BY <1>2, <1>8, <2>1, Zenon DEF Sends
  <2>3. Calm(s)
    BY <1>1, <1>3, <1>8, <2>1, <2>2, SparedCalm
  <2> QED
    BY <2>3, CalmBeliefs, Zenon DEF Beliefs
<1>9. ASSUME c \in Subscriber PROVE Agreed(c)'
  <2>1. Known(c) /\ Telling(c) /\ Backed(c) /\ Awaited(c)
    BY <1>9, Zenon DEF Beliefs, Agreed
  <2>2. to_relay'[c] = to_relay[c] /\ believed'[c] = believed[c]
    BY <1>1
  <2>3. \/ id \in DOMAIN session[c].sent_namespaces
        \/ id \in DOMAIN session[c].pending_sent_publish_namespace
    BY <1>3, <2>1, Zenon DEF Known
  <2>4. \A o \in DOMAIN announced_namespaces'[c] :
            o \in DOMAIN announced_namespaces[c] /\ o # ns /\ announced_namespaces[c][o] # id
    BY <1>3, <2>1 DEF Known
  <2>5. Keeps(to_client[c], to_client'[c], "PublishNamespace")
    BY <1>2, <1>6, KeepsSends
  <2> HIDE DEF id
  <2>6. DOMAIN session'[c].sent_namespaces \subseteq DOMAIN session[c].sent_namespaces
    BY <1>4, <1>5
  <2>7. Known(c)'
    <3>1. ASSUME NEW o \in DOMAIN announced_namespaces'[c], NEW n,
                 n = announced_namespaces'[c][o]
          PROVE  /\ n < session'[c].next_request_id
                 /\ \/ n \in DOMAIN session'[c].sent_namespaces
                    \/ n \in DOMAIN session'[c].pending_sent_publish_namespace
      <4>1. o \in DOMAIN announced_namespaces[c] /\ n = announced_namespaces[c][o] /\ n # id
        BY <1>3, <2>4, <3>1
      <4>2. /\ n < session[c].next_request_id
            /\ \/ n \in DOMAIN session[c].sent_namespaces
               \/ n \in DOMAIN session[c].pending_sent_publish_namespace
        BY <2>1, <4>1, Zenon DEF Known
      <4> QED
        BY <1>3, <1>4, <1>5, <4>1, <4>2
    <3>2. \A n \in DOMAIN session'[c].sent_namespaces : n < session'[c].next_request_id
      BY <1>3, <2>1, <2>6 DEF Known
    <3>3. \A n \in Msgs(to_relay'[c]) :
              n.type = "PublishOk" => n.request_id < session'[c].next_request_id
      BY <1>3, <2>1, <2>2 DEF Known
    <3>4. \A k, o \in DOMAIN announced_namespaces'[c] :
              announced_namespaces'[c][k] = announced_namespaces'[c][o] => k = o
      BY <1>3, <2>1, <2>4 DEF Known
    <3> QED
      BY <3>1, <3>2, <3>3, <3>4 DEF Known
  <2>8. \A o, n : Announced(c, o, n) /\ n \notin DOMAIN session[c].sent_namespaces =>
                      Announced(c, o, n)'
    BY <1>3, <1>5, <2>3 DEF Announced, id
  <2>9. \A o, n : Announced(c, o, n) => Announced(c, o, n)' \/ Withdrawing(c, n)'
    <3> SUFFICES ASSUME NEW o, NEW n, Announced(c, o, n)
                 PROVE  Announced(c, o, n)' \/ Withdrawing(c, n)'
      OBVIOUS
    <3>1. CASE n \notin DOMAIN session[c].sent_namespaces
      BY <2>8, <3>1
    <3>2. CASE n = id /\ n \in DOMAIN session[c].sent_namespaces
      <4>1. Sends(to_client, to_client', c, m) /\ to_client[c] \in Seq(ToClient)
        BY <1>4, <3>2, QueueOf
      <4>2. m \in Msgs(to_client'[c])
        BY <4>1, MsgsAppend DEF Sends
      <4> QED
        BY <3>2, <4>2, Zenon DEF Withdrawing, m
    <3>3. CASE n # id
      BY <1>3, <3>3 DEF Announced, id
    <3> QED
      BY <3>1, <3>2, <3>3
  <2>10. Telling(c)'
    <3>1. Distinct(to_client'[c], "PublishNamespace")
      BY <2>1, <2>5, Zenon DEF Telling, Keeps
    <3>2. ASSUME NEW n \in Msgs(to_client'[c]), n.type = "PublishNamespace"
          PROVE  /\ n.request_id < session'[c].next_request_id
                 /\ Announced(c, n.namespace, n.request_id)'
                 /\ n.request_id \notin DOMAIN session'[c].sent_namespaces
                 /\ \A k \in Msgs(to_relay'[c]) :
                       k.type = "PublishOk" => k.request_id # n.request_id
      <4>1. n \in Msgs(to_client[c])
        BY <2>5, <3>2, Zenon DEF Keeps
      <4>2. /\ n.request_id < session[c].next_request_id
            /\ Announced(c, n.namespace, n.request_id)
            /\ n.request_id \notin DOMAIN session[c].sent_namespaces
            /\ \A k \in Msgs(to_relay[c]) :
                  k.type = "PublishOk" => k.request_id # n.request_id
        BY <2>1, <3>2, <4>1, Zenon DEF Telling
      <4> QED
        BY <1>3, <2>2, <2>6, <2>8, <4>2
    <3> QED
      BY <3>1, <3>2 DEF Telling
  <2>11. Backed(c)'
    BY <1>7, <1>9, <2>1, <2>2, <2>9, Zenon DEF Backed
  <2>12. Awaited(c)'
    <3>1. \A n \in DOMAIN session'[c].sent_namespaces :
              session'[c].sent_namespaces[n] = session[c].sent_namespaces[n]
      BY <1>4, <1>5
    <3>2. \A n \in Msgs(to_client'[c]) : n.type = "PublishNamespace" => n \in Msgs(to_client[c])
      BY <2>5, Zenon DEF Keeps
    <3> QED
      BY <1>3, <2>1, <2>2, <2>6, <3>1, <3>2 DEF Awaited
  <2> QED
    BY <2>7, <2>10, <2>11, <2>12, Zenon DEF Agreed
<1> QED
  BY <1>8, <1>9, Zenon DEF Beliefs

\* Phase 2: a new announcement, whose id is greater than those of all others.
LEMMA AnnounceBeliefs ==
    ASSUME Typing, Beliefs, NEW c \in Client, NEW ns \in Namespace, Announce(c, ns)
    PROVE  Beliefs'
<1> DEFINE id == session[c].next_request_id
           m == Announcement(id, ns)
<1>1. Told(c, ns) /\ UNCHANGED <<to_relay, believed, abandoned>>
  BY AnnounceEffect DEF Announce, clientVars
<1>2. /\ ns \notin DOMAIN announced_namespaces[c]
      /\ \A d \in Client : d # c => announced_namespaces'[d] = announced_namespaces[d]
      /\ DOMAIN announced_namespaces'[c] = DOMAIN announced_namespaces[c] \cup {ns}
      /\ announced_namespaces'[c][ns] = id
      /\ \A o \in DOMAIN announced_namespaces[c] :
            announced_namespaces'[c][o] = announced_namespaces[c][o]
      /\ Sends(to_client, to_client', c, m)
      /\ \A d \in Client : d # c => session'[d] = session[d]
      /\ session'[c].next_request_id = id + 2
      /\ session'[c].sent_namespaces = session[c].sent_namespaces
      /\ DOMAIN session'[c].pending_sent_publish_namespace
             = DOMAIN session[c].pending_sent_publish_namespace \cup {id}
  BY <1>1, Zenon DEF Told, Gains
<1>3. m.type = "PublishNamespace" /\ m.request_id = id /\ m.namespace = ns
  BY Fields
<1>4. /\ id \in Nat /\ DOMAIN session[c].sent_namespaces \subseteq Nat
      /\ \A o \in DOMAIN announced_namespaces[c] : announced_namespaces[c][o] \in Nat
      /\ DOMAIN session[c].pending_sent_publish_namespace \subseteq Nat
  BY Zenon DEF Typing, SessionsType, SessionOK, AnnouncementsOK, AnnouncedType
<1> HIDE DEF m, id
<1>5. \A s \in Subscriber : \A n : Withdrawing(s, n) => Withdrawing(s, n)'
  BY <1>2, WithdrawingSends
<1>6. ASSUME NEW s \in Subscriber, s # c PROVE Agreed(s)'
  <2>1. s \in Client
    BY Constants
  <2>2. to_client'[s] = to_client[s]
    BY <1>2, <1>6, <2>1, Zenon DEF Sends
  <2>3. Calm(s)
    BY <1>1, <1>2, <1>6, <2>1, <2>2, SparedCalm
  <2> QED
    BY <2>3, CalmBeliefs, Zenon DEF Beliefs
<1>7. ASSUME c \in Subscriber PROVE Agreed(c)'
  <2>1. Known(c) /\ Telling(c) /\ Backed(c) /\ Awaited(c)
    BY <1>7, Zenon DEF Beliefs, Agreed
  <2>2. to_relay'[c] = to_relay[c] /\ believed'[c] = believed[c] /\ abandoned'[c] = abandoned[c]
    BY <1>1
  <2>3. /\ \A n \in Msgs(to_relay[c]) : n.request_id \in Nat
        /\ \A n \in Msgs(to_client[c]) : n.request_id \in Nat
    <3>1. to_relay[c] \in Seq(ToRelay(c)) /\ to_client[c] \in Seq(ToClient)
      BY QueueOf
    <3>2. Msgs(to_relay[c]) \subseteq ToRelay(c) /\ Msgs(to_client[c]) \subseteq ToClient
      BY <3>1, MsgsIn, Zenon
    <3> QED
      BY <3>2, RelayMessages, ClientMessages
  <2>4. /\ \A o \in DOMAIN announced_namespaces[c] : announced_namespaces[c][o] < id
        /\ \A n \in DOMAIN session[c].sent_namespaces : n < id
        /\ \A n \in Msgs(to_relay[c]) : n.type = "PublishOk" => n.request_id < id
        /\ \A n \in Msgs(to_client[c]) : n.type = "PublishNamespace" => n.request_id < id
    BY <2>1, Zenon DEF Known, Telling, id
  <2>5. \A n \in Nat : n < id => n < id + 2 /\ n # id
    BY <1>4
  <2>6. id < id + 2
    BY <1>4
  <2>7. \A o, n : Announced(c, o, n) => Announced(c, o, n)'
    BY <1>2, <2>2 DEF Announced
  <2>8. \A n : n = id => Announced(c, ns, n)'
    BY <1>2, Zenon DEF Announced
  <2>9. Known(c)'
    <3>1. ASSUME NEW o \in DOMAIN announced_namespaces'[c], NEW n,
                 n = announced_namespaces'[c][o]
          PROVE  /\ n < session'[c].next_request_id
                 /\ \/ n \in DOMAIN session'[c].sent_namespaces
                    \/ n \in DOMAIN session'[c].pending_sent_publish_namespace
      <4>1. CASE o = ns
        BY <1>2, <2>6, <3>1, <4>1
      <4>2. CASE o # ns
        <5>1. o \in DOMAIN announced_namespaces[c] /\ n = announced_namespaces[c][o]
          BY <1>2, <3>1, <4>2
        <5>2. n \in Nat /\ n < id
          BY <1>4, <2>4, <5>1
        <5>3. \/ n \in DOMAIN session[c].sent_namespaces
              \/ n \in DOMAIN session[c].pending_sent_publish_namespace
          BY <2>1, <5>1, Zenon DEF Known
        <5> QED
          BY <1>2, <2>5, <5>2, <5>3
      <4> QED
        BY <4>1, <4>2
    <3>2. \A n \in DOMAIN session'[c].sent_namespaces : n < session'[c].next_request_id
      BY <1>2, <1>4, <2>4, <2>5
    <3>3. \A n \in Msgs(to_relay'[c]) :
              n.type = "PublishOk" => n.request_id < session'[c].next_request_id
      BY <1>2, <2>2, <2>3, <2>4, <2>5
    <3>4. ASSUME NEW k \in DOMAIN announced_namespaces'[c],
                 NEW o \in DOMAIN announced_namespaces'[c],
                 announced_namespaces'[c][k] = announced_namespaces'[c][o]
          PROVE  k = o
      <4>1. CASE k \in DOMAIN announced_namespaces[c] /\ o \in DOMAIN announced_namespaces[c]
        BY <1>2, <2>1, <3>4, <4>1 DEF Known
      <4>2. \A u \in DOMAIN announced_namespaces[c] : announced_namespaces'[c][u] # id
        BY <1>2, <1>4, <2>4, <2>5
      <4> QED
        BY <1>2, <3>4, <4>1, <4>2
    <3> QED
      BY <3>1, <3>2, <3>3, <3>4 DEF Known
  <2>10. Telling(c)'
    <3>1. to_client[c] \in Seq(ToClient) /\ to_client'[c] = Append(to_client[c], m)
      BY <1>2, QueueOf, Zenon DEF Sends
    <3>2. Msgs(to_client'[c]) = Msgs(to_client[c]) \cup {m}
      BY <3>1, MsgsAppend, Zenon
    <3>3. Distinct(to_client'[c], "PublishNamespace")
      <4>1. \A n \in Msgs(to_client[c]) :
                n.type = "PublishNamespace" /\ m.type = "PublishNamespace"
                => n.request_id # m.request_id
        BY <1>3, <2>3, <2>4, <2>5
      <4>2. Distinct(to_client[c], "PublishNamespace")
        BY <2>1 DEF Telling
      <4>3. Distinct(Append(to_client[c], m), "PublishNamespace")
        BY <3>1, <4>1, <4>2, DistinctAppend, Zenon
      <4> QED
        BY <3>1, <4>3, Zenon
    <3>4. ASSUME NEW n \in Msgs(to_client'[c]), n.type = "PublishNamespace"
          PROVE  /\ n.request_id < session'[c].next_request_id
                 /\ Announced(c, n.namespace, n.request_id)'
                 /\ n.request_id \notin DOMAIN session'[c].sent_namespaces
                 /\ \A k \in Msgs(to_relay'[c]) :
                       k.type = "PublishOk" => k.request_id # n.request_id
      <4>1. CASE n \in Msgs(to_client[c])
        <5>1. /\ Announced(c, n.namespace, n.request_id)
              /\ n.request_id \notin DOMAIN session[c].sent_namespaces
              /\ \A k \in Msgs(to_relay[c]) :
                    k.type = "PublishOk" => k.request_id # n.request_id
          BY <2>1, <3>4, <4>1, Zenon DEF Telling
        <5>2. n.request_id < id + 2
          BY <2>3, <2>4, <2>5, <3>4, <4>1
        <5> QED
          BY <1>2, <2>2, <2>7, <5>1, <5>2
      <4>2. CASE n = m
        <5>1. id \notin DOMAIN session[c].sent_namespaces
          BY <1>4, <2>4, <2>5
        <5>2. \A k \in Msgs(to_relay[c]) : k.type = "PublishOk" => k.request_id # id
          BY <2>3, <2>4, <2>5
        <5>3. n.request_id = id /\ n.namespace = ns
          BY <1>3, <4>2
        <5>4. Announced(c, n.namespace, n.request_id)'
          BY <2>8, <5>3, Zenon
        <5> QED
          BY <1>2, <2>2, <2>6, <5>1, <5>2, <5>3, <5>4
      <4> QED
        BY <3>2, <4>1, <4>2
    <3> QED
      BY <3>3, <3>4 DEF Telling
  <2>11. Backed(c)'
    BY <1>5, <1>7, <2>1, <2>2, <2>7, Zenon DEF Backed
  <2>12. Awaited(c)'
    <3>1. \A n \in DOMAIN session[c].pending_sent_publish_namespace : n < id
      BY <2>1, Zenon DEF Awaited, id
    <3>2. \A n \in DOMAIN session'[c].pending_sent_publish_namespace :
              n < session'[c].next_request_id
      BY <1>2, <1>4, <2>5, <2>6, <3>1
    <3>3. \A n \in Msgs(to_client'[c]) : n.type = "PublishNamespace" =>
              n.request_id \in DOMAIN session'[c].pending_sent_publish_namespace
      <4>1. to_client[c] \in Seq(ToClient) /\ to_client'[c] = Append(to_client[c], m)
        BY <1>2, QueueOf, Zenon DEF Sends
      <4>2. Msgs(to_client'[c]) = Msgs(to_client[c]) \cup {m}
        BY <4>1, MsgsAppend, Zenon
      <4> QED
        BY <1>2, <1>3, <2>1, <4>2 DEF Awaited
    <3> QED
      BY <1>2, <2>1, <2>2, <3>2, <3>3 DEF Awaited
  <2> QED
    BY <2>9, <2>10, <2>11, <2>12, Zenon DEF Agreed
<1> QED
  BY <1>6, <1>7, Zenon DEF Beliefs

\* Phase 0: nothing is left of a connection that is closed.
LEMMA CleanupBeliefs ==
    ASSUME Typing, Connections, Beliefs, Cleanup
    PROVE  Beliefs'
<1>1. Cleaning /\ UNCHANGED <<to_relay, to_client, believed>>
  BY CleanupEffect DEF Cleanup, clientVars
<1>2. ASSUME NEW s \in Subscriber, s \notin Closed PROVE Agreed(s)'
  <2>1. /\ session'[s] = session[s]
        /\ announced_namespaces'[s] = announced_namespaces[s]
        /\ abandoned'[s] = abandoned[s]
    BY <1>1, <1>2, Constants, Zenon DEF Cleaning
  <2>2. Calm(s)
    BY <1>1, <2>1, SparedCalm
  <2> QED
    BY <2>2, CalmBeliefs, Zenon DEF Beliefs
<1>3. ASSUME NEW s \in Subscriber, s \in Closed PROVE Agreed(s)'
  <2>1. conn[s] # "open" /\ s \in Client
    BY <1>3 DEF Closed
  <2>2. to_relay[s] = << >> /\ to_client[s] = << >> /\ DOMAIN believed[s] = {}
    BY <2>1, Zenon DEF Connections, QueuesOpen, ClientsOpen
  <2>3. session'[s] = NewSession /\ announced_namespaces'[s] = EmptyMap
    BY <1>1, <1>3, Zenon DEF Cleaning
  <2>4. DOMAIN << >> = {} /\ DOMAIN EmptyMap = {}
    BY DEF EmptyMap
  <2>5. Msgs(to_relay'[s]) = {} /\ Msgs(to_client'[s]) = {} /\ DOMAIN believed'[s] = {}
    BY <1>1, <2>2, <2>4 DEF Msgs
  <2>6. Known(s)'
    BY <2>3, <2>4, <2>5, NewSessionType, Zenon DEF Known
  <2>7. Distinct(to_client'[s], "PublishNamespace") /\ Distinct(to_relay'[s], "PublishOk")
    BY <1>1, <2>2, <2>4, Zenon DEF Distinct
  <2>8. Awaited(s)'
    BY <2>3, <2>4, <2>5, <2>7, NewSessionType, Zenon DEF Awaited
  <2> QED
    BY <2>5, <2>6, <2>7, <2>8, Zenon DEF Agreed, Telling, Backed
<1> QED
  BY <1>2, <1>3, Zenon DEF Beliefs

LEMMA LostBeliefs ==
    ASSUME Typing, Beliefs, NEW c \in Client, Lost(c)
    PROVE  Beliefs'
<1>1. Losing(c) /\ UNCHANGED <<session, announced_namespaces, abandoned>>
  BY LostEffect DEF Lost, relayVars
<1>2. ASSUME NEW s \in Subscriber, s # c PROVE Agreed(s)'
  <2>1. /\ believed'[s] = believed[s] /\ to_relay'[s] = to_relay[s]
        /\ to_client'[s] = to_client[s]
    BY <1>1, <1>2, Constants, Zenon DEF Losing
  <2>2. Calm(s)
    BY <1>1, <2>1, SparedCalm
  <2> QED
    BY <2>2, CalmBeliefs, Zenon DEF Beliefs
<1>3. ASSUME c \in Subscriber PROVE Agreed(c)'
  <2>1. to_relay'[c] = << >> /\ to_client'[c] = << >> /\ DOMAIN believed'[c] = {}
    BY <1>1, <1>3, Zenon DEF Losing
  <2>2. DOMAIN << >> = {}
    OBVIOUS
  <2>3. Msgs(to_relay'[c]) = {} /\ Msgs(to_client'[c]) = {}
    BY <2>1, <2>2 DEF Msgs
  <2>4. Known(c) /\ Awaited(c)
    BY <1>3, Zenon DEF Beliefs, Agreed
  <2>5. Known(c)'
    BY <1>1, <2>3, <2>4 DEF Known
  <2>6. Distinct(to_client'[c], "PublishNamespace") /\ Distinct(to_relay'[c], "PublishOk")
    BY <2>1, <2>2, Zenon DEF Distinct
  <2>7. Awaited(c)'
    BY <1>1, <2>3, <2>4, <2>6 DEF Awaited
  <2> QED
    BY <2>1, <2>3, <2>5, <2>6, <2>7, Zenon DEF Agreed, Telling, Backed
<1> QED
  BY <1>2, <1>3, Zenon DEF Beliefs

\* A client takes an announcement.  A subscriber accepts it: from now on its PUBLISH_OK is
\* on its way, and the announcement is not.
LEMMA LearnBeliefs ==
    ASSUME Typing, Beliefs, NEW c \in Client, Arrived(c, "PublishNamespace"), Learning(c),
           UNCHANGED <<session, announced_namespaces, abandoned>>
    PROVE  Beliefs'
<1> DEFINE q == to_client[c]
           h == Head(q)
           m == Reply("PublishOk", h.request_id)
<1>1. /\ q # << >> /\ q \in Seq(ToClient)
      /\ h \in Msgs(q) /\ h.type = "PublishNamespace"
  BY ArrivedAt, QueueOf
<1>2. Takes(to_client, to_client', c)
  BY Zenon DEF Learning
<1>3. \A s \in Subscriber : \A id : Withdrawing(s, id) => Withdrawing(s, id)'
  <2>1. \A id : h # Reply("PublishNamespaceDone", id)
    BY <1>1, Fields
  <2> QED
    BY <1>1, <1>2, <2>1, WithdrawingTakes
<1>4. ASSUME NEW s \in Subscriber, s # c PROVE Agreed(s)'
  <2>1. s \in Client
    BY Constants
  <2>2. to_client'[s] = to_client[s]
    BY <1>2, <1>4, <2>1, Zenon DEF Takes
  <2>3. to_relay'[s] = to_relay[s] /\ believed'[s] = believed[s]
    BY <1>4, <2>1, Zenon DEF Learning, Sends
  <2>4. Calm(s)
    BY <1>4, <2>2, <2>3, SparedCalm
  <2> QED
    BY <2>4, CalmBeliefs, Zenon DEF Beliefs
<1>5. ASSUME c \in Subscriber PROVE Agreed(c)'
  <2>1. Known(c) /\ Telling(c) /\ Backed(c) /\ Awaited(c)
    BY <1>5, Zenon DEF Beliefs, Agreed
  <2>2. /\ DOMAIN believed'[c] = DOMAIN believed[c] \cup {h.request_id}
        /\ believed'[c][h.request_id] = h.namespace
        /\ \A id \in DOMAIN believed[c] : id # h.request_id => believed'[c][id] = believed[c][id]
        /\ Sends(to_relay, to_relay', c, m)
        /\ to_client'[c] = Tail(q)
    BY <1>5, Zenon DEF Learning, Takes
  <2>3. m.request_id = h.request_id
    BY Fields
  <2> HIDE DEF m
  <2>4. Msgs(to_relay'[c]) = Msgs(to_relay[c]) \cup {m}
    <3>1. to_relay'[c] = Append(to_relay[c], m) /\ to_relay[c] \in Seq(ToRelay(c))
      BY <2>2, QueueOf, Zenon DEF Sends
    <3> QED
      BY <3>1, MsgsAppend, Zenon
  <2>5. /\ Distinct(q, "PublishNamespace")
        /\ h.request_id < session[c].next_request_id
        /\ Announced(c, h.namespace, h.request_id)
        /\ \A n \in Msgs(q) : n.type = "PublishNamespace" =>
              /\ n.request_id < session[c].next_request_id
              /\ Announced(c, n.namespace, n.request_id)
              /\ n.request_id \notin DOMAIN session[c].sent_namespaces
              /\ \A k \in Msgs(to_relay[c]) :
                    k.type = "PublishOk" => k.request_id # n.request_id
    BY <1>1, <2>1, Zenon DEF Telling
  <2>6. /\ Distinct(Tail(q), "PublishNamespace")
        /\ \A n \in Msgs(Tail(q)) : n.type = "PublishNamespace" => n.request_id # h.request_id
        /\ Msgs(Tail(q)) \subseteq Msgs(q)
    BY <1>1, <2>5, DistinctTail, MsgsTail
  <2>7. \A o, n : Announced(c, o, n) => Announced(c, o, n)'
    BY Zenon DEF Announced
  <2> HIDE DEF h, q
  <2>8. Known(c)'
    <3>1. \A n \in Msgs(to_relay'[c]) :
              n.type = "PublishOk" => n.request_id < session'[c].next_request_id
      BY <2>1, <2>3, <2>4, <2>5 DEF Known
    <3> QED
      BY <2>1, <3>1 DEF Known
  <2>9. Telling(c)'
    <3>1. ASSUME NEW n \in Msgs(to_client'[c]), n.type = "PublishNamespace"
          PROVE  /\ n.request_id < session'[c].next_request_id
                 /\ Announced(c, n.namespace, n.request_id)'
                 /\ n.request_id \notin DOMAIN session'[c].sent_namespaces
                 /\ \A k \in Msgs(to_relay'[c]) :
                       k.type = "PublishOk" => k.request_id # n.request_id
      <4>1. n \in Msgs(q) /\ n.request_id # h.request_id
        BY <2>2, <2>6, <3>1
      <4>2. /\ n.request_id < session[c].next_request_id
            /\ Announced(c, n.namespace, n.request_id)
            /\ n.request_id \notin DOMAIN session[c].sent_namespaces
            /\ \A k \in Msgs(to_relay[c]) :
                  k.type = "PublishOk" => k.request_id # n.request_id
        BY <2>5, <3>1, <4>1
      <4> QED
        BY <2>3, <2>4, <2>7, <4>1, <4>2
    <3> QED
      BY <2>2, <2>6, <3>1 DEF Telling
  <2>10. Backed(c)'
    <3> SUFFICES ASSUME NEW id \in DOMAIN believed'[c], NEW ns, ns = believed'[c][id]
                 PROVE  Announced(c, ns, id)' \/ Withdrawing(c, id)'
      BY Zenon DEF Backed
    <3>1. CASE id = h.request_id
      <4>1. Announced(c, ns, id)
        BY <2>2, <2>5, <3>1
      <4> QED
        BY <2>7, <4>1
    <3>2. CASE id # h.request_id
      <4>1. id \in DOMAIN believed[c] /\ ns = believed[c][id]
        BY <2>2, <3>2
      <4>2. Announced(c, ns, id) \/ Withdrawing(c, id)
        BY <2>1, <4>1, Zenon DEF Backed
      <4> QED
        BY <1>3, <1>5, <2>7, <4>2, Zenon
    <3> QED
      BY <3>1, <3>2
  <2>11. Awaited(c)'
    <3>1. Distinct(to_relay'[c], "PublishOk")
      <4>1. to_relay'[c] = Append(to_relay[c], m) /\ to_relay[c] \in Seq(ToRelay(c))
        BY <2>2, QueueOf, Zenon DEF Sends
      <4>2. Distinct(to_relay[c], "PublishOk")
        BY <2>1, Zenon DEF Awaited
      <4>3. \A n \in Msgs(to_relay[c]) :
                n.type = "PublishOk" /\ m.type = "PublishOk" => n.request_id # m.request_id
        BY <1>1, <2>3, <2>5
      <4>4. Distinct(Append(to_relay[c], m), "PublishOk")
        BY <4>1, <4>2, <4>3, DistinctAppend, Zenon
      <4> QED
        BY <4>1, <4>4, Zenon
    <3>2. \A n \in Msgs(to_relay'[c]) : n.type = "PublishOk" =>
              n.request_id \in DOMAIN session[c].pending_sent_publish_namespace
      BY <1>1, <2>1, <2>3, <2>4 DEF Awaited, q
    <3>3. \A n \in Msgs(to_client'[c]) : n.type = "PublishNamespace" =>
              n.request_id \in DOMAIN session[c].pending_sent_publish_namespace
      BY <2>1, <2>2, <2>6 DEF Awaited, q
    <3> QED
      BY <2>1, <3>1, <3>2, <3>3 DEF Awaited
  <2> QED
    BY <2>8, <2>9, <2>10, <2>11, Zenon DEF Agreed
<1> QED
  BY <1>4, <1>5, Zenon DEF Beliefs

\* A subscriber takes a withdrawal, and forgets the namespace that it names.
LEMMA ForgetBeliefs ==
    ASSUME Typing, Beliefs, NEW c \in Subscriber, Arrived(c, "PublishNamespaceDone"), Forgetting(c),
           UNCHANGED <<session, announced_namespaces, abandoned, to_relay>>
    PROVE  Beliefs'
<1> DEFINE h == Head(to_client[c])
<1>0. c \in Client
  BY Constants
<1>1. /\ to_client[c] # << >> /\ h.type = "PublishNamespaceDone"
      /\ Takes(to_client, to_client', c)
  BY <1>0, ArrivedAt, Zenon DEF Forgetting
<1>2. /\ DOMAIN believed'[c] = DOMAIN believed[c] \ {h.request_id}
      /\ \A id \in DOMAIN believed'[c] : believed'[c][id] = believed[c][id]
      /\ \A s \in Subscriber : s # c => believed'[s] = believed[s]
  BY Zenon DEF Forgetting
<1>3. \A id : id # h.request_id => (Withdrawing(c, id) => Withdrawing(c, id)')
  <2>1. \A id : Reply("PublishNamespaceDone", id) = h => id = h.request_id
    BY Fields
  <2> QED
    BY <1>0, <1>1, <2>1, WithdrawingTakes
<1> HIDE DEF h
<1>4. ASSUME NEW s \in Subscriber, s # c PROVE Agreed(s)'
  <2>1. s \in Client
    BY Constants
  <2>2. to_client'[s] = to_client[s]
    BY <1>1, <1>4, <2>1, Zenon DEF Takes
  <2>3. Calm(s)
    BY <1>2, <1>4, <2>2, SparedCalm
  <2> QED
    BY <2>3, CalmBeliefs, Zenon DEF Beliefs
<1>5. Known(c) /\ Telling(c) /\ Backed(c) /\ Awaited(c)
  BY Zenon DEF Beliefs, Agreed
<1>6. Known(c)'
  BY <1>5 DEF Known
<1>7. \A o, n : Announced(c, o, n) => Announced(c, o, n)'
  BY Zenon DEF Announced
<1>8. Telling(c)'
  <2>1. Keeps(to_client[c], to_client'[c], "PublishNamespace")
    BY <1>0, <1>1, KeepsTakes
  <2>2. \A m \in Msgs(to_client'[c]) : m.type = "PublishNamespace" => m \in Msgs(to_client[c])
    BY <2>1, Zenon DEF Keeps
  <2>3. Distinct(to_client'[c], "PublishNamespace")
    BY <1>5, <2>1, Zenon DEF Keeps, Telling
  <2> QED
    BY <1>5, <1>7, <2>2, <2>3 DEF Telling
<1>9. Backed(c)'
  <2> SUFFICES ASSUME NEW id \in DOMAIN believed'[c], NEW ns, ns = believed'[c][id]
               PROVE  Announced(c, ns, id)' \/ Withdrawing(c, id)'
    BY Zenon DEF Backed
  <2>1. id \in DOMAIN believed[c] /\ ns = believed[c][id] /\ id # h.request_id
    BY <1>2
  <2>2. Announced(c, ns, id) \/ Withdrawing(c, id)
    BY <1>5, <2>1, Zenon DEF Backed
  <2> QED
    BY <1>3, <1>7, <2>1, <2>2, Zenon
<1>10. Awaited(c)'
  <2>1. \A m \in Msgs(to_client'[c]) : m.type = "PublishNamespace" => m \in Msgs(to_client[c])
    BY <1>0, <1>1, KeepsTakes, Zenon DEF Keeps
  <2> QED
    BY <1>5, <2>1 DEF Awaited
<1> QED
  BY <1>4, <1>6, <1>8, <1>9, <1>10, Zenon DEF Beliefs, Agreed

\* The other steps leave the announcements as they are.
LEMMA AllCalm ==
    ASSUME Typing, Beliefs, \A s \in Subscriber : Same(s),
           \A c \in Client : Keeps(to_relay[c], to_relay'[c], "PublishOk"),
           \A c \in Client : Keeps(to_client[c], to_client'[c], "PublishNamespace"),
           \A s \in Subscriber : \A id : Withdrawing(s, id) => Withdrawing(s, id)'
    PROVE  Beliefs'
<1>1. \A s \in Subscriber : Calm(s)
  BY Constants, Zenon DEF Calm
<1> QED
  BY <1>1, CalmBeliefs, Zenon DEF Beliefs

LEMMA LoopBeliefs ==
    ASSUME Typing, Beliefs
    PROVE  /\ \A t \in Track : Request(t) => Beliefs'
           /\ Respond => Beliefs'
           /\ Accept /\ Accepting => Beliefs'
           /\ Finish => Beliefs'
           /\ Forward => Beliefs'
<1>0. /\ UNCHANGED to_relay => \A c \in Client : Keeps(to_relay[c], to_relay'[c], "PublishOk")
      /\ UNCHANGED to_client =>
            \A c \in Client : Keeps(to_client[c], to_client'[c], "PublishNamespace")
      /\ UNCHANGED to_client =>
            \A s \in Subscriber : \A id : Withdrawing(s, id) => Withdrawing(s, id)'
  BY KeepsUnchanged DEF Withdrawing
<1>1. ASSUME NEW t \in Track, Request(t) PROVE Beliefs'
  <2> DEFINE c == subscriptions'[t].publisher.client_id
             m == Subscribe(session[c].next_request_id, t)
  <2>1. Requested(t) /\ UNCHANGED <<announced_namespaces, abandoned, believed, to_relay>>
    BY <1>1, RequestEffect DEF Request, clientVars
  <2>2. \/ UNCHANGED <<session, to_client>>
        \/ /\ c \in Publisher
           /\ Sends(to_client, to_client', c, m)
           /\ \A d \in Client : d # c => session'[d] = session[d]
    BY <2>1, Zenon DEF Requested
  <2>3. m.type # "PublishNamespace"
    BY Fields
  <2> HIDE DEF c, m
  <2>4. \A s \in Subscriber : session'[s] = session[s]
    BY <2>2, Constants
  <2>5. \A s \in Subscriber : Same(s)
    BY <2>1, <2>4, Zenon DEF Same, SameAnnouncements
  <2>6. \A d \in Client : Keeps(to_client[d], to_client'[d], "PublishNamespace")
    BY <1>0, <2>2, <2>3, Constants, KeepsSends
  <2>7. \A s \in Subscriber : \A id : Withdrawing(s, id) => Withdrawing(s, id)'
    BY <1>0, <2>2, Constants, WithdrawingSends
  <2> QED
    BY <1>0, <2>1, <2>5, <2>6, <2>7, AllCalm
<1>2. ASSUME Respond PROVE Beliefs'
  <2>1. /\ Responding
        /\ UNCHANGED <<announced_namespaces, abandoned, believed, to_relay, to_client>>
    BY <1>2, RespondEffect DEF Respond, clientVars
  <2>2. \A s \in Subscriber : Same(s)
    BY <2>1, Constants, Zenon DEF Same, Responding
  <2> QED
    BY <1>0, <2>1, <2>2, AllCalm
<1>3. ASSUME Accept, Accepting PROVE Beliefs'
  <2>1. UNCHANGED <<announced_namespaces, abandoned, believed, to_relay>>
    BY <1>3, AcceptStays DEF clientVars
  <2>2. \A s \in Subscriber : Same(s)
    BY <1>3, <2>1, Constants, Zenon DEF Same, Accepting
  <2>3. Tells(AcceptedClients, "SubscribeOk")
    BY <1>3, Zenon DEF Accepting
  <2>4. \A d \in Client : Keeps(to_client[d], to_client'[d], "PublishNamespace")
    BY <2>3, KeepsTells
  <2> QED
    BY <1>0, <2>1, <2>2, <2>3, <2>4, WithdrawingTells, AllCalm
<1>4. ASSUME Finish PROVE Beliefs'
  <2>1. Finishing /\ UNCHANGED <<session, announced_namespaces, abandoned, believed, to_relay>>
    BY <1>4, FinishEffect DEF Finish, clientVars
  <2>2. \A s \in Subscriber : Same(s)
    BY <2>1, Zenon DEF Same, SameAnnouncements
  <2>3. Tells(LeavingClients, "PublishDone")
    BY <2>1, Zenon DEF Finishing
  <2>4. \A d \in Client : Keeps(to_client[d], to_client'[d], "PublishNamespace")
    BY <2>3, KeepsTells
  <2> QED
    BY <1>0, <2>1, <2>2, <2>3, <2>4, WithdrawingTells, AllCalm
<1>5. ASSUME Forward PROVE Beliefs'
  <2>1. UNCHANGED <<session, announced_namespaces, abandoned, believed, to_relay, to_client>>
    BY <1>5 DEF Forward, clientVars
  <2>2. \A s \in Subscriber : Same(s)
    BY <2>1, Zenon DEF Same, SameAnnouncements
  <2> QED
    BY <1>0, <2>1, <2>2, AllCalm
<1> QED
  BY <1>1, <1>2, <1>3, <1>4, <1>5

\* Steps of the clients that are about subscriptions.
LEMMA OtherBeliefs ==
    ASSUME Typing, Beliefs, UNCHANGED <<session, announced_namespaces, abandoned, believed>>,
           \A c \in Client : Keeps(to_relay[c], to_relay'[c], "PublishOk"),
           \A c \in Client : Keeps(to_client[c], to_client'[c], "PublishNamespace"),
           \A s \in Subscriber : \A id : Withdrawing(s, id) => Withdrawing(s, id)'
    PROVE  Beliefs'
<1>1. \A s \in Subscriber : Same(s)
  BY Zenon DEF Same, SameAnnouncements
<1> QED
  BY <1>1, AllCalm

LEMMA RecvBeliefs ==
    ASSUME Typing, Beliefs, NEW c \in Client, Recv(c)
    PROVE  Beliefs'
<1>1. CASE Lost(c)
  BY <1>1, LostBeliefs
<1>2. CASE RecvAnnouncement(c) /\ ~Lost(c)
  <2>1. Learning(c) /\ UNCHANGED <<session, announced_namespaces, abandoned>>
    BY <1>2, LearningEffect DEF relayVars
  <2>2. Arrived(c, "PublishNamespace")
    BY <1>2 DEF RecvAnnouncement
  <2> QED
    BY <2>1, <2>2, LearnBeliefs
<1>3. CASE c \in Publisher /\ RecvSubscribe(c) /\ ~Lost(c)
  <2> DEFINE h == Head(to_client[c])
             m == Reply("SubscribeOk", h.request_id)
  <2>1. Serving(c) /\ UNCHANGED <<session, announced_namespaces, abandoned, believed>>
    BY <1>3, ServingEffect DEF relayVars
  <2>2. to_client[c] # << >> /\ h.type = "Subscribe"
    BY <1>3, ArrivedAt DEF RecvSubscribe
  <2>3. Sends(to_relay, to_relay', c, m) /\ Takes(to_client, to_client', c)
    BY <2>1, Zenon DEF Serving
  <2>4. m.type # "PublishOk"
    BY Fields
  <2> HIDE DEF m
  <2>5. \A d \in Client : Keeps(to_relay[d], to_relay'[d], "PublishOk")
    BY <2>3, <2>4, KeepsReaches
  <2>6. \A d \in Client : Keeps(to_client[d], to_client'[d], "PublishNamespace")
    BY <2>2, <2>3, KeepsTakes
  <2>7. \A id : h # Reply("PublishNamespaceDone", id)
    BY <2>2, Fields
  <2>8. \A s \in Subscriber : \A id : Withdrawing(s, id) => Withdrawing(s, id)'
    BY <2>2, <2>3, <2>7, WithdrawingTakes
  <2> QED
    BY <2>1, <2>5, <2>6, <2>8, OtherBeliefs
<1>4. CASE c \in Subscriber /\ RecvWithdrawal(c)
  <2>1. Forgetting(c) /\ UNCHANGED <<session, announced_namespaces, abandoned, to_relay>>
    BY <1>4, ForgettingEffect DEF RecvWithdrawal, relayVars
  <2>2. Arrived(c, "PublishNamespaceDone")
    BY <1>4 DEF RecvWithdrawal
  <2> QED
    BY <1>4, <2>1, <2>2, ForgetBeliefs
<1>5. CASE c \in Subscriber /\ RecvAnswer(c)
  <2> DEFINE h == Head(to_client[c])
  <2>1. /\ Hearing(c)
        /\ UNCHANGED <<session, announced_namespaces, abandoned, believed, to_relay>>
    BY <1>5, HearingEffect DEF RecvAnswer, relayVars
  <2>2. to_client[c] # << >>
    BY <1>5, ArrivedAt DEF RecvAnswer
  <2>3. /\ h.type \in {"SubscribeOk", "PublishDone"}
        /\ Takes(to_client, to_client', c)
    BY <2>1, Zenon DEF Hearing
  <2>4. \A d \in Client : Keeps(to_client[d], to_client'[d], "PublishNamespace")
    BY <2>2, <2>3, KeepsTakes
  <2>5. \A d \in Client : Keeps(to_relay[d], to_relay'[d], "PublishOk")
    BY <2>1, KeepsUnchanged
  <2>6. \A id : h # Reply("PublishNamespaceDone", id)
    BY <2>3, Fields
  <2>7. \A s \in Subscriber : \A id : Withdrawing(s, id) => Withdrawing(s, id)'
    BY <2>2, <2>3, <2>6, WithdrawingTakes
  <2> QED
    BY <2>1, <2>4, <2>5, <2>7, OtherBeliefs
<1> QED
  BY <1>1, <1>2, <1>3, <1>4, <1>5 DEF Recv

LEMMA RequestsBeliefs ==
    ASSUME Typing, Beliefs
    PROVE  /\ \A c \in Client : Connect(c) => Beliefs'
           /\ \A s \in Subscriber : Ask(s) => Beliefs'
           /\ \A p \in Publisher : \A id \in DOMAIN serving[p] : EndTrack(p, id) => Beliefs'
<1>0. UNCHANGED to_client =>
          /\ \A d \in Client : Keeps(to_client[d], to_client'[d], "PublishNamespace")
          /\ \A s \in Subscriber : \A id : Withdrawing(s, id) => Withdrawing(s, id)'
  BY KeepsUnchanged DEF Withdrawing
<1>1. ASSUME NEW c \in Client, Connect(c) PROVE Beliefs'
  <2>1. UNCHANGED <<session, announced_namespaces, abandoned, believed, to_client>>
    BY <1>1 DEF Connect, relayVars, clientVars
  <2>2. \A d \in Client : Keeps(to_relay[d], to_relay'[d], "PublishOk")
    <3>1. CASE c \in Publisher
      <4> DEFINE m == Announcement(FirstRequestId, NamespaceOf[TrackOf[c]])
      <4>1. Reach(c, m)
        BY <1>1, <3>1 DEF Connect
      <4>2. FirstRequestId \in Nat /\ NamespaceOf[TrackOf[c]] \in Namespace
        BY Constants
      <4>3. m \in ToRelay(c)
        BY <3>1, <4>2, Messages, Zenon
      <4>4. m.type # "PublishOk"
        BY Fields
      <4> HIDE DEF m
      <4>5. Sends(to_relay, to_relay', c, m)
        BY <4>1, <4>3, ReachType, QueuesTyped, Zenon DEF Typing
      <4> QED
        BY <4>4, <4>5, KeepsReaches
    <3>2. CASE c \notin Publisher
      BY <1>1, <3>2, KeepsUnchanged DEF Connect
    <3> QED
      BY <3>1, <3>2
  <2> QED
    BY <1>0, <2>1, <2>2, OtherBeliefs
<1>2. ASSUME NEW s \in Subscriber, Ask(s) PROVE Beliefs'
  <2> DEFINE m == Subscribe(FirstRequestId, TrackOf[s])
  <2>1. /\ UNCHANGED <<session, announced_namespaces, abandoned, believed, to_client>>
        /\ Reach(s, m)
    BY <1>2 DEF Ask, relayVars
  <2>2. s \in Client
    BY Constants
  <2>3. m \in ToRelay(s)
    BY Messages, Zenon
  <2>4. m.type # "PublishOk"
    BY Fields
  <2> HIDE DEF m
  <2>5. Sends(to_relay, to_relay', s, m)
    BY <2>1, <2>2, <2>3, ReachType, QueuesTyped, Zenon DEF Typing
  <2>6. \A d \in Client : Keeps(to_relay[d], to_relay'[d], "PublishOk")
    BY <2>2, <2>4, <2>5, KeepsReaches
  <2> QED
    BY <1>0, <2>1, <2>6, OtherBeliefs
<1>3. ASSUME NEW p \in Publisher, NEW id \in DOMAIN serving[p], EndTrack(p, id) PROVE Beliefs'
  <2> DEFINE m == Reply("PublishDone", id)
  <2>1. /\ Ending(p, id)
        /\ UNCHANGED <<session, announced_namespaces, abandoned, believed, to_client>>
    BY <1>3, EndingEffect DEF EndTrack, relayVars
  <2>2. Sends(to_relay, to_relay', p, m) /\ p \in Client
    BY <2>1, Constants, Zenon DEF Ending
  <2>3. m.type # "PublishOk"
    BY Fields
  <2> HIDE DEF m
  <2>4. \A d \in Client : Keeps(to_relay[d], to_relay'[d], "PublishOk")
    BY <2>2, <2>3, KeepsReaches
  <2> QED
    BY <1>0, <2>1, <2>4, OtherBeliefs
<1> QED
  BY <1>1, <1>2, <1>3

LEMMA BeliefsStep ==
    ASSUME Typing, Connections, Beliefs, [Next]_vars
    PROVE  Beliefs'
<1>1. ASSUME NEW c \in Client, Close(c) PROVE Beliefs'
  BY <1>1, LostBeliefs DEF Close
<1>2. ASSUME Stops PROVE Beliefs'
  <2>1. UNCHANGED <<session, announced_namespaces, abandoned, believed, to_relay, to_client>>
    BY <1>2 DEF Stops, relayVars, clientVars
  <2> QED
    BY <2>1, SparedCalm, CalmBeliefs DEF Beliefs
<1> QED
  BY <1>1, <1>2, Steps, CleanupBeliefs, ReceiveBeliefs, WithdrawBeliefs, AnnounceBeliefs,
     LoopBeliefs, RequestsBeliefs, RecvBeliefs, Zenon

LEMMA InitBeliefs == Init => Beliefs
<1> SUFFICES ASSUME Init, NEW s \in Subscriber PROVE Agreed(s)
  BY DEF Beliefs
<1>1. DOMAIN EmptyMap = {} /\ DOMAIN << >> = {}
  BY DEF EmptyMap
<1>2. /\ to_relay[s] = << >> /\ to_client[s] = << >> /\ session[s] = NewSession
      /\ announced_namespaces[s] = EmptyMap /\ believed[s] = EmptyMap
  BY Constants DEF Init
<1>3. Msgs(to_relay[s]) = {} /\ Msgs(to_client[s]) = {}
  BY <1>1, <1>2 DEF Msgs
<1>4. Known(s)
  BY <1>1, <1>2, <1>3, NewSessionType, Zenon DEF Known
<1>5. Telling(s)
  BY <1>1, <1>2, <1>3, Zenon DEF Telling, Distinct
<1>6. Backed(s)
  BY <1>1, <1>2, Zenon DEF Backed
<1>7. Awaited(s)
  BY <1>1, <1>2, <1>3, NewSessionType, Zenon DEF Awaited, Distinct
<1> QED
  BY <1>4, <1>5, <1>6, <1>7, Zenon DEF Agreed

\* The announcements that are made, on their way, accepted and believed agree.
THEOREM RelayBeliefs == Spec => []Beliefs
<1>1. Init => Beliefs
  BY InitBeliefs
<1>2. Typing /\ Connections /\ Beliefs /\ [Next]_vars => Beliefs'
  BY BeliefsStep
<1>3. Spec => []Typing
  BY RelayTyping
<1>4. Spec => []Connections
  BY RelayConnections
<1> QED
  BY <1>1, <1>2, <1>3, <1>4, PTL DEF Spec

\* A client believes in a namespace only as long as the relay knows by which announcement,
\* or the withdrawal of it is on its way; the announcements that were abandoned before the
\* client had accepted them are the only ones that are never withdrawn.
THEOREM RelayBelievedBacked == Spec => []BelievedBacked
<1>1. Beliefs => BelievedBacked
  <2> SUFFICES ASSUME Beliefs, NEW s \in Subscriber, NEW id \in DOMAIN believed[s]
               PROVE  LET ns == believed[s][id] IN
                      \/ ns \in DOMAIN announced_namespaces[s] /\ announced_namespaces[s][ns] = id
                      \/ \E i \in DOMAIN to_client[s] :
                            to_client[s][i] = Reply("PublishNamespaceDone", id)
                      \/ id \in abandoned[s]
    BY Zenon DEF BelievedBacked
  <2>1. Announced(s, believed[s][id], id) \/ Withdrawing(s, id)
    BY Zenon DEF Beliefs, Agreed, Backed
  <2>2. CASE Announced(s, believed[s][id], id)
    BY <2>2, Zenon DEF Announced
  <2>3. CASE Withdrawing(s, id)
    BY <2>3 DEF Withdrawing, Msgs
  <2> QED
    BY <2>1, <2>2, <2>3
<1>2. Spec => []Beliefs
  BY RelayBeliefs
<1> QED
  BY <1>1, <1>2, PTL

(***************************************************************************)
(* TypeOK, from the types and from what the clients have been told: which  *)
(* namespaces the relay has filed as accepted takes more than the types.   *)
(***************************************************************************)

LEMMA SessionTypes ==
    ASSUME Typing, Beliefs, NEW c \in Client
    PROVE  IsSession(session[c], c)
<1> DEFINE r == session[c]
<1>1. SessionOK(r, c) /\ AnnouncementsOK(r, c)
  BY Zenon DEF Typing, SessionsType, SessionOK
<1>2. \A id \in DOMAIN r.sent_namespaces : c \in Subscriber /\ r.sent_namespaces[id] \in Namespace
  <2>1. c \in Subscriber => Awaited(c)
    BY Zenon DEF Beliefs, Agreed
  <2> QED
    BY <1>1, <2>1 DEF AnnouncementsOK, Awaited
<1> HIDE DEF r
<1>3. IsMap(r.pending_received_subscriptions, {id \in {FirstRequestId} : c \in Subscriber}, {TrackOf[c]})
  BY <1>1 DEF SessionOK, IsMap
<1>4. IsMap(r.pending_sent_publish_namespace, Nat, Namespace)
  BY <1>1, Zenon DEF AnnouncementsOK, IsMap
<1>5. IsMap(r.sent_namespaces, {id \in Nat : c \in Subscriber}, Namespace)
  BY <1>1, <1>2 DEF AnnouncementsOK, IsMap
<1>6. IsSession(r, c)
  BY <1>1, <1>3, <1>4, <1>5, Zenon DEF SessionOK, IsSession
<1> QED
  BY <1>6 DEF r

\* Every variable of the relay, of its queues and of its clients keeps its type: the maps
\* are keyed by what they are looked up by, only publishers own namespaces and tracks, the
\* relay files as accepted only announcements that it has made, of namespaces, to
\* subscribers, and a queue carries only what its client and the relay say to each other.
THEOREM RelayTypes == Spec => []TypeOK
<1>1. Typing /\ Beliefs => TypeOK
  <2> SUFFICES ASSUME Typing, Beliefs PROVE TypeOK
    OBVIOUS
  <2>1. IsMap(namespaces, Namespace, Publisher)
    BY Zenon DEF Typing, NamespacesType, IsMap
  <2>2. /\ DOMAIN subscriptions \subseteq Track
        /\ \A t \in DOMAIN subscriptions :
              /\ subscriptions[t].publisher \in PublisherInfo
              /\ subscriptions[t].subscribers \in Seq(SubscriberInfo)
    BY Zenon DEF Typing, SubscriptionsType, PublisherOK
  <2>3. ASSUME NEW c \in Client
        PROVE  /\ IsMap(announced_namespaces[c], Namespace, Nat)
               /\ IsSession(session[c], c)
               /\ to_relay[c] \in Seq(ToRelay(c))
               /\ to_client[c] \in Seq(ToClient)
    <3>1. IsMap(announced_namespaces[c], Namespace, Nat)
      BY DEF Typing, AnnouncedType, IsMap
    <3>2. to_relay[c] \in Seq(ToRelay(c)) /\ to_client[c] \in Seq(ToClient)
      BY Zenon DEF Typing, QueuesType
    <3> QED
      BY <3>1, <3>2, SessionTypes
  <2>4. /\ abandoned \in [Client -> SUBSET Nat]
        /\ next_expected \in [Client -> Nat]
        /\ DOMAIN serving = Publisher
        /\ asked \in [Subscriber -> {"no", "waiting", "accepted", "done"}]
        /\ DOMAIN believed = Subscriber
    BY Zenon DEF Typing, AnnouncedType, ClientsType
  <2>5. \A p \in Publisher : IsMap(serving[p], Nat, {TrackOf[p]})
    BY DEF Typing, ClientsType, IsMap
  <2>6. \A s \in Subscriber : IsMap(believed[s], Nat, Namespace)
    BY DEF Typing, ClientsType, IsMap
  <2>7. LoopType
    BY Zenon DEF Typing
  <2> QED
    BY <2>1, <2>2, <2>3, <2>4, <2>5, <2>6, <2>7, Zenon DEF TypeOK, LoopType
<1>2. Spec => []Typing
  BY RelayTyping
<1>3. Spec => []Beliefs
  BY RelayBeliefs
<1> QED
  BY <1>1, <1>2, <1>3, PTL

(***************************************************************************)
(* The relay implements FanOut.                                            *)
(***************************************************************************)

Items(v) == {v[i] : i \in DOMAIN v}

\* Vec::retain() leaves the elements that are selected, all of them.
LEMMA ElementsItems ==
    ASSUME NEW S, NEW v \in Seq(S), NEW I \in SUBSET DOMAIN v
    PROVE  Items(Elements(v, I)) = {v[i] : i \in I}
<1> DEFINE n == Cardinality(I)
           e == Elements(v, I)
<1>1. IsFiniteSet(I) /\ n \in Nat
  <2>1. DOMAIN v = 1..Len(v) /\ Len(v) \in Nat
    OBVIOUS
  <2>2. IsFiniteSet(1..Len(v))
    BY <2>1, FS_Interval
  <2>3. IsFiniteSet(I)
    BY <2>1, <2>2, FS_Subset
  <2> QED
    BY <2>3, FS_CardinalityType
<1>2. DOMAIN e = 1..n
  BY DEF Elements
<1>3. \E f : /\ \A k \in DOMAIN e : f[k] \in I /\ e[k] = v[f[k]]
            /\ \A k, l \in DOMAIN e : f[k] = f[l] => k = l
  BY ElementsOf
<1> HIDE DEF e
<1>a. PICK f : /\ \A k \in DOMAIN e : f[k] \in I /\ e[k] = v[f[k]]
               /\ \A k, l \in DOMAIN e : f[k] = f[l] => k = l
  BY <1>3
<1> DEFINE h == [k \in 1..n |-> f[k]]
<1> HIDE DEF n
<1>4. h \in Injection(1..n, I)
  BY <1>2, <1>a DEF Injection, IsInjective
<1>5. Cardinality(1..n) = Cardinality(I)
  <2>1. Cardinality(1..n) = IF 1 > n THEN 0 ELSE n - 1 + 1
    BY <1>1, FS_Interval
  <2>2. Cardinality(1..n) = n
    BY <1>1, <2>1
  <2> QED
    BY <2>2 DEF n
<1>6. h \in Surjection(1..n, I)
  BY <1>1, <1>4, <1>5, FS_Injection
<1>7. \A i \in I : \E k \in 1..n : f[k] = i
  BY <1>6 DEF Surjection
<1>8. \A k \in DOMAIN e : f[k] \in I /\ e[k] = v[f[k]]
  BY <1>a
<1>9. \A i \in I : \E k \in DOMAIN e : e[k] = v[i]
  BY <1>2, <1>7, <1>8
<1>10. \A x : (\E k \in DOMAIN e : x = e[k]) <=> (\E i \in I : x = v[i])
  BY <1>8, <1>9, Zenon
<1>11. Items(e) = {v[i] : i \in I}
  BY <1>10 DEF Items
<1> QED
  BY <1>11 DEF e

\* What a step makes of one entry: T are the tracks that lose their source.
Follows(r, q, T) ==
    /\ q.client_id = r.client_id
    /\ q.accepted = r.accepted
    /\ q.publisher_gone <=> r.publisher_gone \/ TrackOf[r.client_id] \in T

\* The entries of a track, and of all of them.
LEMMA Listing ==
    /\ \A r : r \in Listed <=> \E t \in DOMAIN subscriptions : r \in Items(subscriptions[t].subscribers)
    /\ \A r : r \in Listed' <=>
          \E t \in DOMAIN subscriptions' : r \in Items(subscriptions'[t].subscribers)
<1>1. Listed = UNION {Items(subscriptions[t].subscribers) : t \in DOMAIN subscriptions}
  BY DEF Listed, Entries, Items
<1>2. Listed' = UNION {Items(subscriptions'[t].subscribers) : t \in DOMAIN subscriptions'}
  BY DEF Listed, Entries, Items
<1> QED
  BY <1>1, <1>2

\* Each entry is of the track that its client asked for.
LEMMA EntryOf ==
    ASSUME Typing, Requests, NEW t \in DOMAIN subscriptions,
           NEW r \in Items(subscriptions[t].subscribers)
    PROVE  /\ r \in SubscriberInfo
           /\ r.client_id \in Subscriber
           /\ r.accepted \in BOOLEAN
           /\ t = TrackOf[r.client_id]
<1>1. PICK i \in DOMAIN subscriptions[t].subscribers : r = subscriptions[t].subscribers[i]
  BY DEF Items
<1>2. subscriptions[t].subscribers \in Seq(SubscriberInfo)
  BY Zenon DEF Typing, SubscriptionsType
<1>3. r \in SubscriberInfo
  BY <1>1, <1>2
<1>4. QueuedFor(t, r.client_id, r.accepted)
  BY <1>1, Zenon DEF Requests, Queue
<1>5. t = TrackOf[r.client_id]
  BY <1>4, Zenon DEF QueuedFor
<1>6. r.client_id \in Subscriber /\ r.accepted \in BOOLEAN
  BY <1>3 DEF SubscriberInfo
<1> QED
  BY <1>3, <1>5, <1>6

LEMMA Listeds ==
    ASSUME Typing, Requests, NEW r \in Listed
    PROVE  /\ r \in SubscriberInfo
           /\ r.client_id \in Subscriber
           /\ r.accepted \in BOOLEAN
           /\ TrackOf[r.client_id] \in DOMAIN subscriptions
           /\ r \in Items(subscriptions[TrackOf[r.client_id]].subscribers)
<1>1. PICK t \in DOMAIN subscriptions : r \in Items(subscriptions[t].subscribers)
  BY Listing, Zenon
<1> QED
  BY <1>1, EntryOf

\* Where the subscribers are, by their entries.
LEMMA Standing ==
    /\ \A s : s \in Waiting <=>
          \E r \in Listed : r.client_id = s /\ ~r.accepted /\ ~r.publisher_gone
    /\ \A s : s \in Joined <=>
          \E r \in Listed : r.client_id = s /\ r.accepted /\ ~r.publisher_gone
    /\ \A s : s \in Orphans <=> \E r \in Listed : r.client_id = s /\ r.publisher_gone
    /\ \A s : s \in Waiting' <=>
          \E r \in Listed' : r.client_id = s /\ ~r.accepted /\ ~r.publisher_gone
    /\ \A s : s \in Joined' <=>
          \E r \in Listed' : r.client_id = s /\ r.accepted /\ ~r.publisher_gone
    /\ \A s : s \in Orphans' <=> \E r \in Listed' : r.client_id = s /\ r.publisher_gone
BY DEF Waiting, Joined, Orphans

\* The subscribers when some of the tracks lose their source and some subscribers go.
LEMMA EndedStanding ==
    ASSUME NEW T, NEW D,
           \A q \in Listed' : \E r \in Listed : Follows(r, q, T) /\ r.client_id \notin D,
           \A r \in Listed : r.client_id \notin D => \E q \in Listed' : Follows(r, q, T)
    PROVE  LET orphans == {s \in Waiting \cup Joined : TrackOf[s] \in T} IN
           /\ Waiting' = (Waiting \ orphans) \ D
           /\ Joined' = (Joined \ orphans) \ D
           /\ Orphans' = (Orphans \cup orphans) \ D
<1> DEFINE orphans == {s \in Waiting \cup Joined : TrackOf[s] \in T}
<1>0. \A s : s \in orphans <=> (s \in Waiting \/ s \in Joined) /\ TrackOf[s] \in T
  OBVIOUS
<1> HIDE DEF orphans
<1>1. ASSUME NEW s PROVE s \in Waiting' <=> s \in Waiting /\ s \notin orphans /\ s \notin D
  <2>1. ASSUME s \in Waiting' PROVE s \in Waiting /\ s \notin orphans /\ s \notin D
    <3>1. PICK q \in Listed' : q.client_id = s /\ ~q.accepted /\ ~q.publisher_gone
      BY <2>1, Standing
    <3>2. PICK r \in Listed : Follows(r, q, T) /\ r.client_id \notin D
      BY <3>1
    <3>3. r.client_id = s /\ ~r.accepted /\ ~r.publisher_gone /\ TrackOf[s] \notin T
      BY <3>1, <3>2 DEF Follows
    <3> QED
      BY <1>0, <3>2, <3>3, Standing
  <2>2. ASSUME s \in Waiting, s \notin orphans, s \notin D PROVE s \in Waiting'
    <3>1. PICK r \in Listed : r.client_id = s /\ ~r.accepted /\ ~r.publisher_gone
      BY <2>2, Standing
    <3>2. PICK q \in Listed' : Follows(r, q, T)
      BY <2>2, <3>1
    <3>3. TrackOf[s] \notin T
      BY <1>0, <2>2
    <3>4. q.client_id = s /\ ~q.accepted /\ ~q.publisher_gone
      BY <3>1, <3>2, <3>3 DEF Follows
    <3> QED
      BY <3>4, Standing
  <2> QED
    BY <2>1, <2>2
<1>2. ASSUME NEW s PROVE s \in Joined' <=> s \in Joined /\ s \notin orphans /\ s \notin D
  <2>1. ASSUME s \in Joined' PROVE s \in Joined /\ s \notin orphans /\ s \notin D
    <3>1. PICK q \in Listed' : q.client_id = s /\ q.accepted /\ ~q.publisher_gone
      BY <2>1, Standing
    <3>2. PICK r \in Listed : Follows(r, q, T) /\ r.client_id \notin D
      BY <3>1
    <3>3. r.client_id = s /\ r.accepted /\ ~r.publisher_gone /\ TrackOf[s] \notin T
      BY <3>1, <3>2 DEF Follows
    <3> QED
      BY <1>0, <3>2, <3>3, Standing
  <2>2. ASSUME s \in Joined, s \notin orphans, s \notin D PROVE s \in Joined'
    <3>1. PICK r \in Listed : r.client_id = s /\ r.accepted /\ ~r.publisher_gone
      BY <2>2, Standing
    <3>2. PICK q \in Listed' : Follows(r, q, T)
      BY <2>2, <3>1
    <3>3. TrackOf[s] \notin T
      BY <1>0, <2>2
    <3>4. q.client_id = s /\ q.accepted /\ ~q.publisher_gone
      BY <3>1, <3>2, <3>3 DEF Follows
    <3> QED
      BY <3>4, Standing
  <2> QED
    BY <2>1, <2>2
<1>3. ASSUME NEW s PROVE s \in Orphans' <=> (s \in Orphans \/ s \in orphans) /\ s \notin D
  <2>1. ASSUME s \in Orphans' PROVE (s \in Orphans \/ s \in orphans) /\ s \notin D
    <3>1. PICK q \in Listed' : q.client_id = s /\ q.publisher_gone
      BY <2>1, Standing
    <3>2. PICK r \in Listed : Follows(r, q, T) /\ r.client_id \notin D
      BY <3>1
    <3>3. r.client_id = s /\ (r.publisher_gone \/ TrackOf[s] \in T)
      BY <3>1, <3>2 DEF Follows
    <3>4. ~r.publisher_gone => s \in Waiting \/ s \in Joined
      BY <3>3, Standing
    <3>5. r.publisher_gone => s \in Orphans
      BY <3>3, Standing
    <3> QED
      BY <1>0, <3>2, <3>3, <3>4, <3>5
  <2>2. ASSUME s \in Orphans \/ s \in orphans, s \notin D PROVE s \in Orphans'
    <3>1. \/ \E r \in Listed : r.client_id = s /\ r.publisher_gone
          \/ TrackOf[s] \in T /\ \E r \in Listed : r.client_id = s
      BY <1>0, <2>2, Standing
    <3>2. PICK r \in Listed : r.client_id = s /\ (r.publisher_gone \/ TrackOf[s] \in T)
      BY <3>1
    <3>3. PICK q \in Listed' : Follows(r, q, T)
      BY <2>2, <3>2
    <3>4. q.client_id = s /\ q.publisher_gone
      BY <3>2, <3>3 DEF Follows
    <3> QED
      BY <3>4, Standing
  <2> QED
    BY <2>1, <2>2
<1>4. /\ Waiting' = (Waiting \ orphans) \ D
      /\ Joined' = (Joined \ orphans) \ D
      /\ Orphans' = (Orphans \cup orphans) \ D
  BY <1>1, <1>2, <1>3
<1> QED
  BY <1>4 DEF orphans

Ends(v, w, T, D) ==
    /\ \A q \in Items(w) : \E r \in Items(v) : Follows(r, q, T) /\ r.client_id \notin D
    /\ \A r \in Items(v) : r.client_id \notin D => \E q \in Items(w) : Follows(r, q, T)

LEMMA EndedTracks ==
    ASSUME NEW T, NEW D, DOMAIN subscriptions' = DOMAIN subscriptions,
           \A t \in DOMAIN subscriptions :
               Ends(subscriptions[t].subscribers, subscriptions'[t].subscribers, T, D)
    PROVE  LET orphans == {s \in Waiting \cup Joined : TrackOf[s] \in T} IN
           /\ Waiting' = (Waiting \ orphans) \ D
           /\ Joined' = (Joined \ orphans) \ D
           /\ Orphans' = (Orphans \cup orphans) \ D
<1>1. ASSUME NEW q \in Listed'
      PROVE  \E r \in Listed : Follows(r, q, T) /\ r.client_id \notin D
  <2>1. PICK t \in DOMAIN subscriptions : q \in Items(subscriptions'[t].subscribers)
    BY Listing, Zenon
  <2>2. PICK r \in Items(subscriptions[t].subscribers) : Follows(r, q, T) /\ r.client_id \notin D
    BY <2>1, Zenon DEF Ends
  <2>3. r \in Listed
    BY <2>1, Listing, Zenon
  <2> QED
    BY <2>2, <2>3, Zenon
<1>2. ASSUME NEW r \in Listed, r.client_id \notin D PROVE \E q \in Listed' : Follows(r, q, T)
  <2>1. PICK t \in DOMAIN subscriptions : r \in Items(subscriptions[t].subscribers)
    BY Listing, Zenon
  <2>2. PICK q \in Items(subscriptions'[t].subscribers) : Follows(r, q, T)
    BY <1>2, <2>1, Zenon DEF Ends
  <2>3. q \in Listed'
    BY <2>1, Listing, Zenon
  <2> QED
    BY <2>2, <2>3, Zenon
<1> QED
  BY <1>1, <1>2, EndedStanding

\* The entries of one track, when the step marks each and takes those of D.
LEMMA Marks ==
    ASSUME NEW v, NEW w, NEW x, NEW T, NEW D,
           \A i \in DOMAIN v : Follows(v[i], w[i], T),
           \A q : q \in Items(x) <=> \E i \in DOMAIN v : q = w[i] /\ v[i].client_id \notin D
    PROVE  Ends(v, x, T, D)
<1>1. ASSUME NEW q \in Items(x)
      PROVE  \E r \in Items(v) : Follows(r, q, T) /\ r.client_id \notin D
  <2>1. PICK i \in DOMAIN v : q = w[i] /\ v[i].client_id \notin D
    OBVIOUS
  <2>2. v[i] \in Items(v) /\ Follows(v[i], q, T)
    BY <2>1 DEF Items
  <2> QED
    BY <2>1, <2>2
<1>2. ASSUME NEW r \in Items(v), r.client_id \notin D
      PROVE  \E q \in Items(x) : Follows(r, q, T)
  <2>1. PICK i \in DOMAIN v : r = v[i]
    BY DEF Items
  <2>2. w[i] \in Items(x) /\ Follows(r, w[i], T)
    BY <1>2, <2>1
  <2> QED
    BY <2>2
<1> QED
  BY <1>1, <1>2, Zenon DEF Ends

\* The entries of one track when it loses its source, and when it does not.
LEMMA Marked ==
    ASSUME Typing, Requests, NEW t \in DOMAIN subscriptions, NEW w, NEW T,
           \/ t \in T /\ w = ForEach(subscriptions[t].subscribers, Gone)
           \/ t \notin T /\ w = subscriptions[t].subscribers
    PROVE  /\ w \in Seq(SubscriberInfo)
           /\ DOMAIN w = DOMAIN subscriptions[t].subscribers
           /\ \A i \in DOMAIN w :
                 /\ w[i].client_id = subscriptions[t].subscribers[i].client_id
                 /\ Follows(subscriptions[t].subscribers[i], w[i], T)
<1> DEFINE v == subscriptions[t].subscribers
<1>1. v \in Seq(SubscriberInfo)
  BY Zenon DEF Typing, SubscriptionsType
<1>2. \A r \in Items(v) : TrackOf[r.client_id] = t
  BY EntryOf, Zenon
<1>3. /\ w \in Seq(SubscriberInfo)
      /\ DOMAIN w = DOMAIN v
      /\ \A i \in DOMAIN v : /\ w[i].client_id = v[i].client_id
                             /\ w[i].accepted = v[i].accepted
                             /\ w[i].publisher_gone <=> v[i].publisher_gone \/ t \in T
  <2>1. CASE t \in T /\ w = ForEach(v, Gone)
    <3>1. /\ w \in Seq(SubscriberInfo)
          /\ DOMAIN w = DOMAIN v
          /\ \A i \in DOMAIN v : /\ w[i].client_id = v[i].client_id
                                 /\ w[i].accepted = v[i].accepted
                                 /\ w[i].publisher_gone = TRUE
      BY <1>1, <2>1, GoneOf, Zenon
    <3> HIDE DEF v
    <3> QED
      BY <2>1, <3>1
  <2>2. CASE t \notin T /\ w = v
    BY <1>1, <2>2, Zenon
  <2> QED
    BY <2>1, <2>2
<1> HIDE DEF v
<1>4. ASSUME NEW i \in DOMAIN v PROVE Follows(v[i], w[i], T)
  <2>1. v[i] \in Items(v)
    BY Zenon DEF Items
  <2>2. TrackOf[v[i].client_id] = t
    BY <1>2, <2>1
  <2> QED
    BY <1>3, <2>2, Zenon DEF Follows
<1> QED
  BY <1>3, <1>4, Zenon DEF v

\* The same when the entries of the clients D are not retained.
LEMMA EndsTrack ==
    ASSUME Typing, Requests, NEW t \in DOMAIN subscriptions, NEW w, NEW T, NEW D,
           NEW I, I = {i \in DOMAIN w : w[i].client_id \notin D},
           \/ t \in T /\ w = ForEach(subscriptions[t].subscribers, Gone)
           \/ t \notin T /\ w = subscriptions[t].subscribers
    PROVE  Ends(subscriptions[t].subscribers, Elements(w, I), T, D)
<1> DEFINE v == subscriptions[t].subscribers
<1>1. /\ w \in Seq(SubscriberInfo)
      /\ DOMAIN w = DOMAIN v
      /\ \A i \in DOMAIN w : w[i].client_id = v[i].client_id /\ Follows(v[i], w[i], T)
  BY Marked, Zenon
<1> HIDE DEF v
<1>2. Items(Elements(w, I)) = {w[i] : i \in I}
  <2>1. I \in SUBSET DOMAIN w
    OBVIOUS
  <2> QED
    BY <1>1, <2>1, ElementsItems
<1>3. \A q : q \in Items(Elements(w, I)) <=> \E i \in DOMAIN v : q = w[i] /\ v[i].client_id \notin D
  <2>1. \A q : q \in {w[i] : i \in I} <=> \E i \in I : q = w[i]
    OBVIOUS
  <2>2. \A i : i \in I <=> i \in DOMAIN v /\ v[i].client_id \notin D
    BY <1>1
  <2> QED
    BY <1>2, <2>1, <2>2, Zenon
<1>4. Ends(v, Elements(w, I), T, D)
  BY <1>1, <1>3, Marks
<1> QED
  BY <1>4 DEF v

(***************************************************************************)
(* The steps, as those of FanOut.                                          *)
(***************************************************************************)

Shown == <<Sources, Live, Waiting, Joined, Orphans, Departed>>

LEMMA SameStanding ==
    ASSUME \A r : r \in Listed' <=> r \in Listed
    PROVE  UNCHANGED <<Waiting, Joined, Orphans>>
<1>1. Listed' = Listed
  OBVIOUS
<1> QED
  BY <1>1 DEF Waiting, Joined, Orphans

LEMMA SameSources ==
    ASSUME DOMAIN subscriptions' = DOMAIN subscriptions,
           \A t \in DOMAIN subscriptions :
               subscriptions'[t].publisher.client_id = subscriptions[t].publisher.client_id
    PROVE  UNCHANGED Sources
BY DEF Sources

LEMMA SameLive ==
    ASSUME DOMAIN subscriptions' = DOMAIN subscriptions,
           \A t \in DOMAIN subscriptions :
               subscriptions'[t].publisher.accepted <=> subscriptions[t].publisher.accepted
    PROVE  UNCHANGED Live
BY DEF Live, IsPublisherAccepted

\* A step that leaves the vectors of subscribers alone.
LEMMA SameVectors ==
    ASSUME DOMAIN subscriptions' = DOMAIN subscriptions,
           \A t \in DOMAIN subscriptions :
               subscriptions'[t].subscribers = subscriptions[t].subscribers
    PROVE  UNCHANGED <<Waiting, Joined, Orphans>>
<1>1. \A r : r \in Listed' <=> r \in Listed
  BY Listing, Zenon
<1> QED
  BY <1>1, SameStanding

LEMMA SameShown ==
    ASSUME UNCHANGED <<subscriptions, conn>>
    PROVE  UNCHANGED Shown
<1>1. UNCHANGED <<Sources, Live, Waiting, Joined, Orphans>>
  BY SameSources, SameLive, SameVectors
<1>2. UNCHANGED Departed
  BY DEF Departed
<1> QED
  BY <1>1, <1>2 DEF Shown

LEMMA SameDeparted ==
    ASSUME UNCHANGED conn
    PROVE  UNCHANGED Departed
BY DEF Departed

\* Phase 1 queues the request of a client that has none.
LEMMA ReceiveShown ==
    ASSUME Typing, Requests, NEW c \in Client, Receive(c)
    PROVE  Promise!Next \/ UNCHANGED Shown
<1>1. /\ Polled(c) /\ (UNCHANGED subscriptions \/ QueuedOne(c))
      /\ UNCHANGED conn
  BY PollEffect, DecideEffect DEF Receive
<1>2. CASE UNCHANGED subscriptions
  BY <1>1, <1>2, SameShown
<1>3. CASE QueuedOne(c)
  <2> DEFINE t == TrackOf[c]
             e == NewSubscriber(c, FirstRequestId)
  <2>1. /\ c \in Subscriber
        /\ DOMAIN subscriptions' = DOMAIN subscriptions \cup {t}
        /\ \A u \in DOMAIN subscriptions : u # t => subscriptions'[u] = subscriptions[u]
        /\ t \in DOMAIN subscriptions =>
              /\ subscriptions'[t].publisher = subscriptions[t].publisher
              /\ subscriptions'[t].subscribers = Append(subscriptions[t].subscribers, e)
        /\ t \notin DOMAIN subscriptions =>
              /\ NamespaceOf[t] \in DOMAIN namespaces
              /\ subscriptions'[t].publisher = NewPublisher(namespaces[NamespaceOf[t]])
              /\ subscriptions'[t].subscribers = << e >>
    BY <1>3, Zenon DEF QueuedOne
  <2>2. e.client_id = c /\ e.accepted = FALSE /\ e.publisher_gone = FALSE
    BY Infos, Zenon
  <2> HIDE DEF e
  <2>3. ASSUME NEW r \in Listed PROVE r.client_id # c
    <3>1. PICK u \in DOMAIN subscriptions : r \in Items(subscriptions[u].subscribers)
      BY Listing, Zenon
    <3>2. PICK i \in DOMAIN subscriptions[u].subscribers : r = subscriptions[u].subscribers[i]
      BY <3>1 DEF Items
    <3> QED
      BY <1>1, <1>3, <3>2, NotQueued
  <2>4. /\ t \in DOMAIN subscriptions =>
               \A r : r \in Items(subscriptions'[t].subscribers)
                      <=> r \in Items(subscriptions[t].subscribers) \/ r = e
        /\ t \notin DOMAIN subscriptions =>
               \A r : r \in Items(subscriptions'[t].subscribers) <=> r = e
    <3>1. ASSUME NEW v \in Seq(SubscriberInfo)
          PROVE  \A r : r \in Items(Append(v, e)) <=> r \in Items(v) \/ r = e
      <4> DEFINE w == Append(v, e)
                 n == Len(v) + 1
      <4>1. /\ DOMAIN w = DOMAIN v \cup {n}
            /\ \A i \in DOMAIN v : w[i] = v[i]
            /\ w[n] = e
        OBVIOUS
      <4> HIDE DEF w, n
      <4> QED
        BY <4>1 DEF Items, w
    <3>2. \A r : r \in Items(<< e >>) <=> r = e
      BY DEF Items
    <3>3. t \in DOMAIN subscriptions => subscriptions[t].subscribers \in Seq(SubscriberInfo)
      BY Zenon DEF Typing, SubscriptionsType
    <3> QED
      BY <2>1, <3>1, <3>2, <3>3, Zenon
  <2>5. \A r : r \in Listed' <=> r \in Listed \/ r = e
    <3>1. \A r, u : u # t => (u \in DOMAIN subscriptions' /\ r \in Items(subscriptions'[u].subscribers)
                             <=> u \in DOMAIN subscriptions /\ r \in Items(subscriptions[u].subscribers))
      BY <2>1
    <3>2. t \in DOMAIN subscriptions'
      BY <2>1
    <3>3. \A r : r \in Items(subscriptions'[t].subscribers)
                 <=> r = e \/ (t \in DOMAIN subscriptions /\ r \in Items(subscriptions[t].subscribers))
      BY <2>4
    <3> QED
      BY <3>1, <3>2, <3>3, Listing, Zenon
  <2>6. c \notin Waiting \cup Joined \cup Orphans
    BY <2>3, Standing
  <2>7. Waiting' = Waiting \cup {c}
    <3>1. ASSUME NEW s PROVE s \in Waiting' <=> s \in Waiting \/ s = c
      BY <2>2, <2>5, Standing
    <3> QED
      BY <3>1
  <2>8. Joined' = Joined /\ Orphans' = Orphans
    <3>1. ASSUME NEW s PROVE s \in Joined' <=> s \in Joined
      BY <2>2, <2>5, Standing
    <3>2. ASSUME NEW s PROVE s \in Orphans' <=> s \in Orphans
      BY <2>2, <2>5, Standing
    <3> QED
      BY <3>1, <3>2
  <2>9. Live' = Live
    <3>1. t \notin DOMAIN subscriptions => subscriptions'[t].publisher.accepted = FALSE
      BY <2>1, Infos
    <3> QED
      BY <2>1, <3>1 DEF Live, IsPublisherAccepted
  <2>10. \/ UNCHANGED Sources
         \/ \E p \in Promise!Chosen(TrackOf[c]) : Sources' = [Sources EXCEPT ![TrackOf[c]] = p]
    <3>1. CASE t \in DOMAIN subscriptions
      BY <2>1, <3>1, SameSources
    <3>2. CASE t \notin DOMAIN subscriptions
      <4> DEFINE p == namespaces[NamespaceOf[t]]
      <4>1. /\ p \in Publisher
            /\ subscriptions'[t].publisher.client_id = p
        BY <2>1, <3>2, Infos, Zenon DEF Typing, NamespacesType
      <4>2. t \in Track
        BY <2>1, Constants
      <4>3. Sources[t] = None
        BY <3>2, <4>2 DEF Sources
      <4> HIDE DEF p
      <4>4. Sources' = [Sources EXCEPT ![t] = p]
        BY <2>1, <3>2, <4>1, <4>2 DEF Sources
      <4>5. p \in Promise!Chosen(t)
        BY <4>1, <4>3 DEF Promise!Chosen
      <4> QED
        BY <4>4, <4>5
    <3> QED
      BY <3>1, <3>2
  <2>11. Promise!Queue(c)
    BY <1>1, <2>6, <2>7, <2>8, <2>9, <2>10, SameDeparted DEF Promise!Queue
  <2> QED
    BY <2>1, <2>11 DEF Promise!Next
<1> QED
  BY <1>1, <1>2, <1>3

\* The steps of phases 3 and 4 choose a publisher, and note that it has accepted.
LEMMA RequestShown ==
    ASSUME Typing, NEW t \in Track, Request(t)
    PROVE  Promise!Next \/ UNCHANGED Shown
<1> DEFINE c == subscriptions'[t].publisher.client_id
<1>1. Requested(t) /\ UNCHANGED conn
  BY RequestEffect DEF Request
<1>2. /\ t \in DOMAIN subscriptions
      /\ DOMAIN subscriptions' = DOMAIN subscriptions
      /\ \A u \in DOMAIN subscriptions : u # t => subscriptions'[u] = subscriptions[u]
      /\ subscriptions'[t].subscribers = subscriptions[t].subscribers
      /\ subscriptions'[t].publisher.accepted = subscriptions[t].publisher.accepted
      /\ \/ c = subscriptions[t].publisher.client_id
         \/ /\ subscriptions[t].publisher.client_id = None
            /\ NamespaceOf[t] \in DOMAIN namespaces
            /\ c = namespaces[NamespaceOf[t]]
  BY <1>1, Zenon DEF Requested
<1>3. UNCHANGED <<Waiting, Joined, Orphans>>
  BY <1>2, SameVectors
<1>4. UNCHANGED Live
  BY <1>2, SameLive
<1>5. UNCHANGED Departed
  BY <1>1, SameDeparted
<1>6. CASE c = subscriptions[t].publisher.client_id
  <2>1. UNCHANGED Sources
    BY <1>2, <1>6, SameSources
  <2> QED
    BY <1>3, <1>4, <1>5, <2>1 DEF Shown
<1>7. CASE /\ subscriptions[t].publisher.client_id = None
           /\ NamespaceOf[t] \in DOMAIN namespaces
           /\ c = namespaces[NamespaceOf[t]]
  <2>1. c \in Publisher
    BY <1>7, Zenon DEF Typing, NamespacesType
  <2>2. Sources[t] = None
    BY <1>2, <1>7 DEF Sources
  <2>3. Sources' = [Sources EXCEPT ![t] = c]
    BY <1>2 DEF Sources
  <2> HIDE DEF c
  <2>4. c \in Promise!Chosen(t)
    BY <2>1, <2>2 DEF Promise!Chosen
  <2>5. Promise!Choose(t)
    BY <1>3, <1>4, <1>5, <2>3, <2>4 DEF Promise!Choose
  <2> QED
    BY <2>5 DEF Promise!Next
<1> QED
  BY <1>2, <1>6, <1>7

LEMMA RespondShown ==
    ASSUME Typing, Respond
    PROVE  Promise!Next
<1>1. Responding /\ UNCHANGED conn
  BY RespondEffect DEF Respond
<1>2. /\ DOMAIN subscriptions' = DOMAIN subscriptions
      /\ \A t \in DOMAIN subscriptions :
            /\ subscriptions'[t].subscribers = subscriptions[t].subscribers
            /\ PublisherOK(subscriptions'[t].publisher)
            /\ subscriptions'[t].publisher.client_id = subscriptions[t].publisher.client_id
            /\ subscriptions[t].publisher.accepted => subscriptions'[t].publisher.accepted
  BY <1>1, Zenon DEF Responding
<1>3. UNCHANGED <<Waiting, Joined, Orphans>>
  BY <1>2, SameVectors
<1>4. UNCHANGED Sources
  BY <1>2, SameSources
<1>5. UNCHANGED Departed
  BY <1>1, SameDeparted
<1> DEFINE T == {t \in DOMAIN subscriptions : subscriptions'[t].publisher.accepted}
<1>6. Live' = Live \cup T
  BY <1>2 DEF Live, IsPublisherAccepted
<1>7. T \in SUBSET Track
  BY Zenon DEF Typing, SubscriptionsType
<1>8. \A t \in T : Sources[t] # None
  <2> SUFFICES ASSUME NEW t \in DOMAIN subscriptions, subscriptions'[t].publisher.accepted
               PROVE  Sources[t] # None
    OBVIOUS
  <2>1. subscriptions'[t].publisher.client_id # None
    BY <1>2, Zenon DEF PublisherOK
  <2>2. t \in Track
    BY Zenon DEF Typing, SubscriptionsType
  <2> QED
    BY <1>2, <2>1, <2>2 DEF Sources
<1> HIDE DEF T
<1>9. Promise!Answer(T)
  BY <1>3, <1>4, <1>5, <1>6, <1>8 DEF Promise!Answer
<1> QED
  BY <1>7, <1>9 DEF Promise!Next

\* Phase 4.5 joins those that wait for a track whose publisher has accepted.
LEMMA AcceptShown ==
    ASSUME Typing, Requests, Accepting, UNCHANGED conn
    PROVE  Promise!Next
<1> DEFINE S == {s \in Waiting : TrackOf[s] \in Live /\ s \in Open}
           Joins(r, q) == /\ q.client_id = r.client_id
                          /\ q.publisher_gone <=> r.publisher_gone
                          /\ q.accepted <=> \/ r.accepted
                                            \/ TrackOf[r.client_id] \in Live /\ r.client_id \in Open
<1>1. /\ DOMAIN subscriptions' = DOMAIN subscriptions
      /\ \A t \in DOMAIN subscriptions :
            LET v == subscriptions[t].subscribers
                w == subscriptions'[t].subscribers IN
            /\ subscriptions'[t].publisher = subscriptions[t].publisher
            /\ DOMAIN w = DOMAIN v
            /\ \A i \in DOMAIN v :
                  /\ w[i].client_id = v[i].client_id
                  /\ w[i].publisher_gone = v[i].publisher_gone
                  /\ w[i].accepted <=> v[i].accepted \/ CanAccept(t, i)
  BY Zenon DEF Accepting, PublisherKept
<1>2. UNCHANGED <<Sources, Live, Departed>>
  BY <1>1, SameSources, SameLive, SameDeparted
<1>3. ASSUME NEW t \in DOMAIN subscriptions, NEW i \in DOMAIN subscriptions[t].subscribers
      PROVE  /\ subscriptions[t].subscribers[i] \in Listed
             /\ subscriptions'[t].subscribers[i] \in Listed'
             /\ Joins(subscriptions[t].subscribers[i], subscriptions'[t].subscribers[i])
  <2> DEFINE v == subscriptions[t].subscribers
             w == subscriptions'[t].subscribers
  <2>1. v[i] \in Items(v) /\ w[i] \in Items(w)
    BY <1>1, Zenon DEF Items
  <2>2. v[i] \in Listed /\ w[i] \in Listed'
    BY <1>1, <2>1, Listing
  <2>3. TrackOf[v[i].client_id] = t
    BY <2>1, EntryOf
  <2>4. t \in Live <=> subscriptions[t].publisher.accepted
    BY DEF Live, IsPublisherAccepted
  <2>5. CanAccept(t, i) <=> t \in Live /\ ~v[i].accepted /\ v[i].client_id \in Open
    BY <2>4, Zenon DEF CanAccept
  <2>6. /\ w[i].client_id = v[i].client_id
        /\ w[i].publisher_gone = v[i].publisher_gone
        /\ w[i].accepted <=> v[i].accepted \/ CanAccept(t, i)
    BY <1>1, Zenon
  <2> HIDE DEF v, w
  <2>7. Joins(v[i], w[i])
    BY <2>3, <2>5, <2>6
  <2> QED
    BY <2>2, <2>7 DEF v, w
<1> HIDE DEF Joins
<1>4. \A q \in Listed' : \E r \in Listed : Joins(r, q)
  <2> SUFFICES ASSUME NEW q \in Listed' PROVE \E r \in Listed : Joins(r, q)
    OBVIOUS
  <2>1. PICK t \in DOMAIN subscriptions : q \in Items(subscriptions'[t].subscribers)
    BY <1>1, Listing
  <2>2. PICK i \in DOMAIN subscriptions[t].subscribers : q = subscriptions'[t].subscribers[i]
    BY <1>1, <2>1 DEF Items
  <2> QED
    BY <1>3, <2>2
<1>5. \A r \in Listed : \E q \in Listed' : Joins(r, q)
  <2> SUFFICES ASSUME NEW r \in Listed PROVE \E q \in Listed' : Joins(r, q)
    OBVIOUS
  <2>1. PICK t \in DOMAIN subscriptions : r \in Items(subscriptions[t].subscribers)
    BY Listing
  <2>2. PICK i \in DOMAIN subscriptions[t].subscribers : r = subscriptions[t].subscribers[i]
    BY <2>1 DEF Items
  <2> QED
    BY <1>3, <2>2
<1>6. \A s : s \in S <=> s \in Waiting /\ TrackOf[s] \in Live /\ s \in Open
  OBVIOUS
<1> HIDE DEF S
<1>7. Waiting' = Waiting \ S
  <2>1. ASSUME NEW s \in Waiting' PROVE s \in Waiting /\ s \notin S
    <3>1. PICK q \in Listed' : q.client_id = s /\ ~q.accepted /\ ~q.publisher_gone
      BY Standing
    <3>2. PICK r \in Listed : Joins(r, q)
      BY <1>4
    <3>3. /\ r.client_id = s /\ ~r.accepted /\ ~r.publisher_gone
          /\ ~(TrackOf[s] \in Live /\ s \in Open)
      BY <3>1, <3>2 DEF Joins
    <3> QED
      BY <1>6, <3>3, Standing
  <2>2. ASSUME NEW s \in Waiting, s \notin S PROVE s \in Waiting'
    <3>1. PICK r \in Listed : r.client_id = s /\ ~r.accepted /\ ~r.publisher_gone
      BY Standing
    <3>2. PICK q \in Listed' : Joins(r, q)
      BY <1>5
    <3>3. q.client_id = s /\ ~q.accepted /\ ~q.publisher_gone
      BY <1>6, <2>2, <3>1, <3>2 DEF Joins
    <3> QED
      BY <3>3, Standing
  <2> QED
    BY <2>1, <2>2
<1>8. Joined' = Joined \cup S
  <2>1. ASSUME NEW s \in Joined' PROVE s \in Joined \/ s \in S
    <3>1. PICK q \in Listed' : q.client_id = s /\ q.accepted /\ ~q.publisher_gone
      BY Standing
    <3>2. PICK r \in Listed : Joins(r, q)
      BY <1>4
    <3>3. /\ r.client_id = s /\ ~r.publisher_gone
          /\ r.accepted \/ (TrackOf[s] \in Live /\ s \in Open)
      BY <3>1, <3>2 DEF Joins
    <3>4. s \in Joined \/ s \in Waiting
      BY <3>3, Standing
    <3>5. r.accepted => s \in Joined
      BY <3>3, Standing
    <3> QED
      BY <1>6, <3>3, <3>4, <3>5
  <2>2. ASSUME NEW s \in Joined PROVE s \in Joined'
    <3>1. PICK r \in Listed : r.client_id = s /\ r.accepted /\ ~r.publisher_gone
      BY Standing
    <3>2. PICK q \in Listed' : Joins(r, q)
      BY <1>5
    <3>3. q.client_id = s /\ q.accepted /\ ~q.publisher_gone
      BY <3>1, <3>2 DEF Joins
    <3> QED
      BY <3>3, Standing
  <2>3. ASSUME NEW s \in S PROVE s \in Joined'
    <3>0. s \in Waiting /\ TrackOf[s] \in Live /\ s \in Open
      BY <1>6
    <3>1. PICK r \in Listed : r.client_id = s /\ ~r.accepted /\ ~r.publisher_gone
      BY <3>0, Standing
    <3>2. PICK q \in Listed' : Joins(r, q)
      BY <1>5
    <3>3. q.client_id = s /\ q.accepted /\ ~q.publisher_gone
      BY <3>0, <3>1, <3>2 DEF Joins
    <3> QED
      BY <3>3, Standing
  <2> QED
    BY <2>1, <2>2, <2>3
<1>9. Orphans' = Orphans
  <2>1. ASSUME NEW s \in Orphans' PROVE s \in Orphans
    <3>1. PICK q \in Listed' : q.client_id = s /\ q.publisher_gone
      BY Standing
    <3>2. PICK r \in Listed : Joins(r, q)
      BY <1>4
    <3>3. r.client_id = s /\ r.publisher_gone
      BY <3>1, <3>2 DEF Joins
    <3> QED
      BY <3>3, Standing
  <2>2. ASSUME NEW s \in Orphans PROVE s \in Orphans'
    <3>1. PICK r \in Listed : r.client_id = s /\ r.publisher_gone
      BY Standing
    <3>2. PICK q \in Listed' : Joins(r, q)
      BY <1>5
    <3>3. q.client_id = s /\ q.publisher_gone
      BY <3>1, <3>2 DEF Joins
    <3> QED
      BY <3>3, Standing
  <2> QED
    BY <2>1, <2>2
<1>10. S \in SUBSET Subscriber
  <2>1. ASSUME NEW s \in Waiting PROVE s \in Subscriber
    <3>1. PICK r \in Listed : r.client_id = s
      BY Standing
    <3> QED
      BY <3>1, Listeds
  <2> QED
    BY <1>6, <2>1
<1>11. S \subseteq {s \in Waiting : TrackOf[s] \in Live}
  BY <1>6
<1>12. Promise!Join(S)
  BY <1>2, <1>7, <1>8, <1>9, <1>11 DEF Promise!Join
<1> QED
  BY <1>10, <1>12 DEF Promise!Next

\* Phase 4.6 tells those that are leaving.
LEMMA FinishShown ==
    ASSUME Typing, Finish
    PROVE  Promise!Next
<1>1. /\ DOMAIN subscriptions' = DOMAIN subscriptions
      /\ \A t \in DOMAIN subscriptions :
            /\ PublisherKept(t)
            /\ subscriptions'[t] =
                   [subscriptions[t] EXCEPT !.subscribers = Retain(@, Staying)]
      /\ UNCHANGED conn
  BY FinishEffect DEF Finish, Finishing
<1>2. UNCHANGED <<Sources, Live, Departed>>
  BY <1>1, SameSources, SameLive, SameDeparted DEF PublisherKept
<1>3. ASSUME NEW t \in DOMAIN subscriptions
      PROVE  \A r : r \in Items(subscriptions'[t].subscribers)
                    <=> r \in Items(subscriptions[t].subscribers) /\ ~r.publisher_gone
  <2> DEFINE v == subscriptions[t].subscribers
             I == {i \in DOMAIN v : ~v[i].publisher_gone}
  <2>1. v \in Seq(SubscriberInfo) /\ DOMAIN subscriptions[t] = {"publisher", "subscribers"}
    BY Zenon DEF Typing, SubscriptionsType
  <2>2. subscriptions'[t].subscribers = Elements(v, I)
    BY <1>1, <2>1 DEF Retain, Staying
  <2>3. I \in SUBSET DOMAIN v
    OBVIOUS
  <2>4. \A i : i \in I <=> i \in DOMAIN v /\ ~v[i].publisher_gone
    OBVIOUS
  <2> HIDE DEF v, I
  <2>5. Items(Elements(v, I)) = {v[i] : i \in I}
    BY <2>1, <2>3, ElementsItems
  <2>6. \A r : r \in Items(Elements(v, I)) <=> r \in Items(v) /\ ~r.publisher_gone
    BY <2>4, <2>5 DEF Items
  <2> QED
    BY <2>2, <2>6 DEF v
<1>4. \A r : r \in Listed' <=> r \in Listed /\ ~r.publisher_gone
  BY <1>1, <1>3, Listing
<1>5. Waiting' = Waiting /\ Joined' = Joined
  <2>1. ASSUME NEW s PROVE s \in Waiting' <=> s \in Waiting
    BY <1>4, Standing
  <2>2. ASSUME NEW s PROVE s \in Joined' <=> s \in Joined
    BY <1>4, Standing
  <2> QED
    BY <2>1, <2>2
<1>6. Orphans' = {}
  <2>1. ASSUME NEW s PROVE s \notin Orphans'
    BY <1>4, Standing
  <2> QED
    BY <2>1
<1>7. Promise!Release
  BY <1>2, <1>5, <1>6 DEF Promise!Release
<1> QED
  BY <1>7 DEF Promise!Next

\* The tracks T lose their source.
LEMMA EndShown ==
    ASSUME Typing, NEW T \in SUBSET DOMAIN subscriptions,
           NEW D \in SUBSET Subscriber, D \subseteq Departed, UNCHANGED Departed,
           DOMAIN subscriptions' = DOMAIN subscriptions,
           \A t \in DOMAIN subscriptions :
               /\ t \in T => /\ subscriptions[t].publisher.client_id # None
                             /\ subscriptions'[t].publisher = NoPublisher
               /\ t \notin T => PublisherKept(t)
               /\ Ends(subscriptions[t].subscribers, subscriptions'[t].subscribers, T, D)
    PROVE  Promise!Next
<1>1. DOMAIN subscriptions \subseteq Track
  BY Zenon DEF Typing, SubscriptionsType
<1>2. NoPublisher.client_id = None /\ NoPublisher.accepted = FALSE
  BY Infos, Zenon
<1>3. \A t \in T : Sources[t] # None
  BY <1>1 DEF Sources
<1>4. Sources' = [t \in Track |-> IF t \in T THEN None ELSE Sources[t]]
  BY <1>1, <1>2 DEF Sources, PublisherKept
<1>5. Live' = Live \ T
  BY <1>2 DEF Live, IsPublisherAccepted, PublisherKept
<1>6. LET orphans == {s \in Waiting \cup Joined : TrackOf[s] \in T} IN
      /\ Waiting' = (Waiting \ orphans) \ D
      /\ Joined' = (Joined \ orphans) \ D
      /\ Orphans' = (Orphans \cup orphans) \ D
  BY EndedTracks
<1>7. Promise!End(T, D)
  BY <1>3, <1>4, <1>5, <1>6, Zenon DEF Promise!End
<1>8. T \in SUBSET Track
  BY <1>1
<1> QED
  BY <1>7, <1>8 DEF Promise!Next

LEMMA ForwardShown ==
    ASSUME Typing, Requests, Forward
    PROVE  Promise!Next
<1>1. PICK T \in SUBSET Finishable :
          subscriptions' = [t \in DOMAIN subscriptions |->
              IF t \in T THEN Orphaned(subscriptions[t]) ELSE subscriptions[t]]
  BY Zenon DEF Forward
<1>2. UNCHANGED Departed
  BY SameDeparted DEF Forward
<1>3. /\ T \in SUBSET DOMAIN subscriptions
      /\ \A t \in T : subscriptions[t].publisher.accepted
  BY DEF Finishable, IsPublisherAccepted
<1>4. DOMAIN subscriptions' = DOMAIN subscriptions
  BY <1>1
<1> DEFINE D == {}
<1>5. D \in SUBSET Subscriber /\ D \subseteq Departed
  OBVIOUS
<1>6. \A s : s \notin D
  OBVIOUS
<1> HIDE DEF D
<1>7. ASSUME NEW t \in DOMAIN subscriptions
      PROVE  /\ t \in T => /\ subscriptions[t].publisher.client_id # None
                           /\ subscriptions'[t].publisher = NoPublisher
             /\ t \notin T => PublisherKept(t)
             /\ Ends(subscriptions[t].subscribers, subscriptions'[t].subscribers, T, D)
  <2> DEFINE v == subscriptions[t].subscribers
             w == subscriptions'[t].subscribers
  <2>1. t \in T => subscriptions[t].publisher.client_id # None
    BY <1>3, Zenon DEF Typing, SubscriptionsType, PublisherOK
  <2>2. t \in T => subscriptions'[t].publisher = NoPublisher /\ w = ForEach(v, Gone)
    <3>1. t \in T => subscriptions'[t] = Orphaned(subscriptions[t])
      BY <1>1
    <3> QED
      BY <3>1, OrphanedOf
  <2>3. t \notin T => PublisherKept(t) /\ w = v
    BY <1>1 DEF PublisherKept
  <2>4. /\ DOMAIN w = DOMAIN v
        /\ \A i \in DOMAIN w : Follows(v[i], w[i], T)
    BY <2>2, <2>3, Marked
  <2> HIDE DEF v, w
  <2>5. \A q : q \in Items(w) <=> \E i \in DOMAIN v : q = w[i] /\ v[i].client_id \notin D
    BY <1>6, <2>4 DEF Items
  <2>6. Ends(v, w, T, D)
    BY <2>4, <2>5, Marks
  <2> QED
    BY <2>1, <2>2, <2>3, <2>6 DEF v, w
<1> QED
  BY <1>2, <1>3, <1>4, <1>5, <1>7, EndShown

\* Phase 0 sees that connections have ended, of publishers and of subscribers.
LEMMA CleanupShown ==
    ASSUME Typing, Requests, Cleanup
    PROVE  Promise!Next
<1> DEFINE T == {t \in DOMAIN subscriptions : subscriptions[t].publisher.client_id \in Closed}
           D == Closed \cap Subscriber
<1>1. /\ Cleaning
      /\ \A t \in DOMAIN subscriptions : subscriptions'[t] = Cleaned(subscriptions[t])
  BY CleanupEffect DEF Cleanup
<1>2. UNCHANGED Departed
  BY <1>1, Constants DEF Cleaning, Departed, Closed
<1>3. D \in SUBSET Subscriber /\ D \subseteq Departed
  BY DEF Departed, Closed
<1>4. T \in SUBSET DOMAIN subscriptions
  OBVIOUS
<1>5. DOMAIN subscriptions' = DOMAIN subscriptions
  BY <1>1, Zenon DEF Cleaning, Selects
<1>6. None \notin Closed
  BY Constants DEF Closed
<1>7. \A s \in Subscriber : s \in D <=> conn[s] = "closed"
  BY Constants DEF Closed
<1>8. \A t \in DOMAIN subscriptions :
          t \in T <=> subscriptions[t].publisher.client_id \in Closed
  OBVIOUS
<1> HIDE DEF T, D
<1>9. ASSUME NEW t \in DOMAIN subscriptions
      PROVE  /\ t \in T => /\ subscriptions[t].publisher.client_id # None
                           /\ subscriptions'[t].publisher = NoPublisher
             /\ t \notin T => PublisherKept(t)
             /\ Ends(subscriptions[t].subscribers, subscriptions'[t].subscribers, T, D)
  <2> DEFINE v == subscriptions[t].subscribers
             rest == IF t \in T THEN Orphaned(subscriptions[t]) ELSE subscriptions[t]
             w == rest.subscribers
             I == {i \in DOMAIN w : StillConnected(w[i])}
             J == {i \in DOMAIN w : w[i].client_id \notin D}
  <2>1. /\ t \in T => /\ subscriptions[t].publisher.client_id # None
                      /\ subscriptions'[t].publisher = NoPublisher
        /\ t \notin T => PublisherKept(t)
    <3>1. /\ subscriptions[t].publisher.client_id \in Closed => PublisherLost(t)
          /\ subscriptions[t].publisher.client_id \notin Closed => PublisherKept(t)
      BY <1>1, Zenon DEF Cleaning
    <3>2. PublisherLost(t) => subscriptions'[t].publisher = NoPublisher
      BY Zenon DEF PublisherLost
    <3> QED
      BY <1>6, <1>8, <3>1, <3>2
  <2>2. subscriptions'[t] = [rest EXCEPT !.subscribers = Elements(w, I)]
    BY <1>1, <1>8 DEF Cleaned, Retain
  <2>3. /\ DOMAIN rest = {"publisher", "subscribers"}
        /\ \/ t \in T /\ w = ForEach(v, Gone)
           \/ t \notin T /\ w = v
    <3>1. DOMAIN subscriptions[t] = {"publisher", "subscribers"}
      BY Zenon DEF Typing, SubscriptionsType
    <3>2. CASE t \in T
      BY <3>2, OrphanedOf
    <3>3. CASE t \notin T
      BY <3>1, <3>3
    <3> QED
      BY <3>2, <3>3
  <2> HIDE DEF rest
  <2>4. subscriptions'[t].subscribers = Elements(w, I)
    BY <2>2, <2>3
  <2> HIDE DEF v, w
  <2>5. w \in Seq(SubscriberInfo)
    BY <2>3, Marked DEF v
  <2>6. I = J
    <3>1. \A i \in DOMAIN w : w[i] \in SubscriberInfo
      BY <2>5
    <3>2. \A i \in DOMAIN w : w[i].client_id \in Subscriber
      BY <3>1 DEF SubscriberInfo
    <3> QED
      BY <1>7, <3>2 DEF StillConnected
  <2>7. Ends(v, Elements(w, J), T, D)
    BY <2>3, EndsTrack DEF v
  <2> QED
    BY <2>1, <2>4, <2>6, <2>7 DEF v
<1> QED
  BY <1>2, <1>3, <1>4, <1>5, <1>9, EndShown

\* The end of a connection, and the other steps of the clients.
LEMMA LostShown ==
    ASSUME Typing, NEW c \in Client, Lost(c)
    PROVE  Promise!Next \/ UNCHANGED Shown
<1>1. Losing(c) /\ UNCHANGED subscriptions
  BY LostEffect DEF Lost, relayVars
<1>2. UNCHANGED <<Sources, Live, Waiting, Joined, Orphans>>
  BY <1>1, SameSources, SameLive, SameVectors
<1>3. conn'[c] = "closed" /\ \A d \in Client : d # c => conn'[d] = conn[d]
  BY <1>1, Zenon DEF Losing
<1>4. CASE c \in Subscriber
  <2>1. Departed' = Departed \cup {c}
    BY <1>3, <1>4, Constants DEF Departed
  <2>2. Promise!Depart(c)
    BY <1>2, <2>1 DEF Promise!Depart
  <2> QED
    BY <1>4, <2>2 DEF Promise!Next
<1>5. CASE c \notin Subscriber
  <2>1. Departed' = Departed
    BY <1>3, <1>5, Constants DEF Departed
  <2> QED
    BY <1>2, <2>1 DEF Shown
<1> QED
  BY <1>4, <1>5

LEMMA ConnectShown ==
    ASSUME Typing, NEW c \in Client, Connect(c)
    PROVE  UNCHANGED Shown
<1>1. /\ conn[c] = "new" /\ conn' = [conn EXCEPT ![c] = "open"]
      /\ UNCHANGED subscriptions
  BY DEF Connect, relayVars
<1>2. UNCHANGED <<Sources, Live, Waiting, Joined, Orphans>>
  BY <1>1, SameSources, SameLive, SameVectors
<1>3. UNCHANGED Departed
  BY <1>1, Constants DEF Departed
<1> QED
  BY <1>2, <1>3 DEF Shown

LEMMA ClientsShown ==
    ASSUME Typing, NEW c \in Client,
           \/ Recv(c)
           \/ c \in Subscriber /\ Ask(c)
           \/ c \in Publisher /\ \E id \in DOMAIN serving[c] : EndTrack(c, id)
    PROVE  Promise!Next \/ UNCHANGED Shown
<1>1. CASE Lost(c)
  BY <1>1, LostShown
<1>2. CASE ~Lost(c)
  <2>1. UNCHANGED <<subscriptions, conn>>
    BY <1>2 DEF Recv, RecvAnnouncement, RecvSubscribe, RecvWithdrawal, RecvAnswer, Ask, EndTrack,
                relayVars
  <2> QED
    BY <2>1, SameShown
<1> QED
  BY <1>1, <1>2

LEMMA StepShown ==
    ASSUME Typing, Requests, [Next]_vars
    PROVE  Promise!Next \/ UNCHANGED Shown
<1>1. ASSUME Stops PROVE UNCHANGED Shown
  BY <1>1, SameShown DEF Stops, relayVars
<1>2. ASSUME NEW c, NEW ns, Withdraw(c, ns) \/ Announce(c, ns) PROVE UNCHANGED Shown
  BY <1>2, SameShown DEF Withdraw, Announce
<1>3. ASSUME Accept, Accepting PROVE Promise!Next
  BY <1>3, AcceptStays, AcceptShown
<1>4. ASSUME NEW c \in Client, Close(c) PROVE Promise!Next \/ UNCHANGED Shown
  BY <1>4, LostShown DEF Close
<1>5. ASSUME NEW s \in Subscriber, Ask(s) PROVE Promise!Next \/ UNCHANGED Shown
  BY <1>5, ClientsShown, Constants
<1>6. ASSUME NEW p \in Publisher, NEW id \in DOMAIN serving[p], EndTrack(p, id)
      PROVE  Promise!Next \/ UNCHANGED Shown
  BY <1>6, ClientsShown, Constants
<1> QED
  BY <1>1, <1>2, <1>3, <1>4, <1>5, <1>6, Steps, CleanupShown, ReceiveShown, RequestShown,
     RespondShown, FinishShown, ForwardShown, ConnectShown, ClientsShown, Zenon

\* The relay and its clients implement FanOut: a subscriber is joined only to a source that
\* has accepted, is served by that one until it is told that it has ended, and is never
\* handed on to the next in silence, whatever publishers and subscribers come and go.
THEOREM RelayImplementsFanOut == Spec => ServedByOneSource
<1>1. Init => Promise!Init
  <2> SUFFICES ASSUME Init PROVE Promise!Init
    OBVIOUS
  <2>1. DOMAIN subscriptions = {} /\ \A c \in Client : conn[c] = "new"
    BY DEF Init, EmptyMap
  <2>2. Sources = [t \in Track |-> None] /\ Live = {} /\ Departed = {}
    BY <2>1, Constants DEF Sources, Live, Departed
  <2>3. Listed = {}
    BY <2>1 DEF Listed
  <2>4. Waiting = {} /\ Joined = {} /\ Orphans = {}
    BY <2>3 DEF Waiting, Joined, Orphans
  <2> QED
    BY <2>2, <2>4 DEF Promise!Init
<1>2. Typing /\ Requests /\ [Next]_vars
      => [Promise!Next]_<<Sources, Live, Waiting, Joined, Orphans, Departed>>
  BY StepShown DEF Shown
<1> QED
  BY <1>1, <1>2, RelayTyping, RelayRequests, PTL DEF Spec, ServedByOneSource, Promise!Spec

=============================================================================
