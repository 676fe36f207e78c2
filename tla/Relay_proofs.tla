----------------------------- MODULE Relay_proofs -----------------------------
(***************************************************************************)
(* Proofs about Relay: the types of what it and its clients keep and send, *)
(* and the lemmas on vectors that these need, for any number of clients,   *)
(* tracks and namespaces and any quota.  RelaySafety_proofs has the rest,  *)
(* TypeOK included.                                                        *)
(***************************************************************************)
EXTENDS Relay, SequenceTheorems, FiniteSetTheorems, WellFoundedInduction, TLAPS

(***************************************************************************)
(* The inductive invariant.                                                *)
(***************************************************************************)

\* The messages of a queue, and whether a type has no request id twice among them.
Msgs(q) == {q[i] : i \in DOMAIN q}

Distinct(q, type) ==
    \A i, j \in DOMAIN q :
        /\ q[i].type = type
        /\ q[j].type = type
        /\ q[i].request_id = q[j].request_id
        => i = j

NamespacesType ==
    /\ DOMAIN namespaces \subseteq Namespace
    /\ \A ns \in DOMAIN namespaces : namespaces[ns] \in Publisher

\* A publisher that has been sent a request is a client, one that has accepted it has
\* been sent it.
PublisherOK(p) ==
    /\ p \in PublisherInfo
    /\ p.request_id # None => p.client_id # None
    /\ p.accepted => p.request_id # None

SubscriptionsType ==
    /\ DOMAIN subscriptions \subseteq Track
    /\ \A t \in DOMAIN subscriptions :
          /\ DOMAIN subscriptions[t] = {"publisher", "subscribers"}
          /\ PublisherOK(subscriptions[t].publisher)
          /\ subscriptions[t].subscribers \in Seq(SubscriberInfo)

SessionFields ==
    {"next_request_id", "pending_received_subscriptions", "pending_sent_publish_namespace",
     "sent_namespaces", "pending_subscribe_responses", "done"}

\* The announcements of a session: which namespaces were accepted is for Known in
\* RelaySafety_proofs, as it takes more than the types.
AnnouncementsOK(s, c) ==
    /\ \A id \in DOMAIN s.pending_sent_publish_namespace :
          id \in Nat /\ s.pending_sent_publish_namespace[id] \in Namespace
    /\ DOMAIN s.sent_namespaces \subseteq Nat
    /\ DOMAIN s.sent_namespaces # {} => c \in Subscriber

SessionOK(s, c) ==
    /\ DOMAIN s = SessionFields
    /\ s.next_request_id \in Nat /\ s.next_request_id % 2 = 1
    /\ DOMAIN s.pending_received_subscriptions \subseteq {FirstRequestId}
    /\ \A id \in DOMAIN s.pending_received_subscriptions :
          /\ c \in Subscriber
          /\ s.pending_received_subscriptions[id] = TrackOf[c]
    /\ AnnouncementsOK(s, c)
    /\ s.pending_subscribe_responses \subseteq Nat
    /\ s.done \subseteq Nat

SessionsType ==
    /\ DOMAIN session = Client
    /\ \A c \in Client : SessionOK(session[c], c)

AnnouncedType ==
    /\ DOMAIN announced_namespaces = Client
    /\ abandoned \in [Client -> SUBSET Nat]
    /\ \A c \in Client : \A ns \in DOMAIN announced_namespaces[c] :
          ns \in Namespace /\ announced_namespaces[c][ns] \in Nat

QueuesType ==
    /\ DOMAIN to_relay = Client
    /\ DOMAIN to_client = Client
    /\ \A c \in Client : to_relay[c] \in Seq(ToRelay(c)) /\ to_client[c] \in Seq(ToClient)

ClientsType ==
    /\ next_expected \in [Client -> Nat]
    /\ DOMAIN serving = Publisher
    /\ \A p \in Publisher : \A id \in DOMAIN serving[p] :
          id \in Nat /\ serving[p][id] = TrackOf[p]
    /\ asked \in [Subscriber -> {"no", "waiting", "accepted", "done"}]
    /\ DOMAIN believed = Subscriber
    /\ \A s \in Subscriber : \A id \in DOMAIN believed[s] :
          id \in Nat /\ believed[s][id] \in Namespace

LoopType ==
    /\ phase \in Phases
    /\ turns \subseteq Client
    /\ conn \in [Client -> {"new", "open", "closed", "dropped"}]
    /\ panicked \in {"no", "REQUEST_ERROR not implemented", "accept unwrap"}

Typing ==
    /\ NamespacesType
    /\ SubscriptionsType
    /\ SessionsType
    /\ AnnouncedType
    /\ QueuesType
    /\ ClientsType
    /\ LoopType

(***************************************************************************)
(* Elements of a sequence.                                                 *)
(***************************************************************************)

\* A set of numbers that is not empty has a least one.
LEMMA Least ==
    ASSUME NEW S \in SUBSET Nat, S # {}
    PROVE  \E n \in S : \A m \in S : n <= m
<1> DEFINE R == {p \in Nat \X Nat : p[1] < p[2]}
<1>1. IsWellFoundedOn(R, Nat)
  BY NatLessThanWellFounded, Zenon DEF OpToRel
<1>2. PICK n \in S : \A m \in S : ~(<<m, n>> \in R)
  BY <1>1, WFMin, Zenon
<1>3. \A m \in S : ~(m < n)
  BY <1>2
<1> QED
  BY <1>3

\* Every place up to its size is that of some element of a finite set of numbers.
LEMMA Places ==
    ASSUME NEW I \in SUBSET Nat, IsFiniteSet(I), NEW k \in 1..Cardinality(I)
    PROVE  \E i \in I : Cardinality({j \in I : j < i}) = k - 1
<1> DEFINE below(i) == {j \in I : j < i}
           Free == {n \in 1..Cardinality(I) : \A i \in I : Cardinality(below(i)) # n - 1}
<1>0. Cardinality(I) \in Nat
  BY FS_CardinalityType
<1>a. \A i, j \in I : /\ i \in Nat /\ j \in Nat
                      /\ (i < j \/ i = j \/ j < i) /\ (i <= j => ~(j < i)) /\ ~(i < i)
  OBVIOUS
<1>b. \A i \in I : \A m \in I : m \in below(i) <=> m < i
  OBVIOUS
<1>1. \A i \in I : IsFiniteSet(below(i)) /\ below(i) \subseteq I
  <2>1. \A i \in I : below(i) \subseteq I
    OBVIOUS
  <2> QED
    BY <2>1, FS_Subset
<1> SUFFICES ASSUME Free # {} PROVE FALSE
  BY Zenon
<1>2. Free \subseteq Nat
  BY <1>0
<1> HIDE DEF Free
<1>3. PICK n \in Free : \A m \in Free : n <= m
  BY <1>2, Least
<1>4. n \in 1..Cardinality(I) /\ \A i \in I : Cardinality(below(i)) # n - 1
  BY <1>3 DEF Free
<1>5. CASE n = 1
  <2>1. I # {}
    BY <1>0, <1>4, FS_EmptySet
  <2>2. PICK i \in I : \A j \in I : i <= j
    BY <2>1, Least
  <2>3. below(i) = {}
    BY <1>a, <2>2, Zenon
  <2> QED
    BY <1>4, <1>5, <2>3, FS_EmptySet
<1>6. CASE n # 1
  <2>1. n - 1 \in 1..Cardinality(I) /\ n - 1 \notin Free
    BY <1>0, <1>3, <1>4, <1>6, <1>2
  <2>2. PICK p \in I : Cardinality(below(p)) = n - 2
    <3>1. \E p \in I : Cardinality(below(p)) = (n - 1) - 1
      BY <2>1 DEF Free
    <3>2. (n - 1) - 1 = n - 2
      BY <1>0, <1>4
    <3> QED
      BY <3>1, <3>2, Zenon
  <2> DEFINE upto == below(p) \cup {p}
             above == {j \in I : p < j}
  <2>3. p \notin below(p) /\ I = upto \cup above
    <3>1. p \notin below(p)
      BY <1>a, Zenon
    <3>2. \A j \in I : j \in upto \cup above
      BY <1>a, Zenon
    <3>3. \A j \in upto \cup above : j \in I
      BY Zenon
    <3> QED
      BY <3>1, <3>2, <3>3, Zenon
  <2>4. Cardinality(upto) = n - 1
    <3>1. Cardinality(below(p) \cup {p}) = Cardinality(below(p)) + 1
      BY <1>1, <2>3, FS_AddElement
    <3> QED
      BY <1>0, <1>4, <2>2, <3>1
  <2>5. above # {}
    <3>1. n - 1 # Cardinality(I)
      BY <1>0, <1>4
    <3> QED
      BY <2>3, <2>4, <3>1
  <2>6. above \in SUBSET Nat
    OBVIOUS
  <2>7. PICK i \in above : \A j \in above : i <= j
    BY <2>5, <2>6, Least
  <2>8. below(i) = upto
    <3>1. i \in I /\ p < i
      BY <2>7
    <3>2. \A j \in I : j < i => j < p \/ j = p
      BY <1>a, <2>7, <3>1, Zenon
    <3>3. \A j \in I : j < p => j < i
      BY <1>a, <3>1
    <3> HIDE DEF above
    <3> QED
      BY <3>1, <3>2, <3>3, Zenon
  <2> QED
    BY <1>4, <2>4, <2>7, <2>8
<1> QED
  BY <1>5, <1>6

\* What Vec::retain() leaves: elements of the vector, each from an index of its own.
LEMMA ElementsOf ==
    ASSUME NEW S, NEW v \in Seq(S), NEW I \in SUBSET DOMAIN v
    PROVE  /\ Elements(v, I) \in Seq(S)
           /\ \E f : /\ \A k \in DOMAIN Elements(v, I) :
                            f[k] \in I /\ Elements(v, I)[k] = v[f[k]]
                     /\ \A k, l \in DOMAIN Elements(v, I) : f[k] = f[l] => k = l
<1> DEFINE n == Cardinality(I)
           place(i) == Cardinality({j \in I : j < i})
           f == [k \in 1..n |-> CHOOSE i \in I : place(i) = k - 1]
<1>1. I \in SUBSET Nat /\ IsFiniteSet(I)
  <2>1. DOMAIN v = 1..Len(v) /\ Len(v) \in Nat
    OBVIOUS
  <2>2. IsFiniteSet(1..Len(v))
    BY <2>1, FS_Interval
  <2>3. IsFiniteSet(I)
    BY <2>1, <2>2, FS_Subset
  <2> QED
    BY <2>1, <2>3
<1>2. n \in Nat
  BY <1>1, FS_CardinalityType
<1>3. \A k \in 1..n : f[k] \in I /\ place(f[k]) = k - 1
  <2> SUFFICES ASSUME NEW k \in 1..n PROVE f[k] \in I /\ place(f[k]) = k - 1
    OBVIOUS
  <2>1. \E i \in I : place(i) = k - 1
    BY <1>1, Places
  <2> QED
    BY <2>1, Zenon
<1>4. Elements(v, I) = [k \in 1..n |-> v[f[k]]]
  <2>1. \A k \in 1..n : f[k] = CHOOSE i \in I : place(i) = k - 1
    OBVIOUS
  <2>2. Elements(v, I) = [k \in 1..n |-> v[CHOOSE i \in I : place(i) = k - 1]]
    BY DEF Elements
  <2> HIDE DEF f, n, place
  <2>3. \A k \in 1..n : v[CHOOSE i \in I : place(i) = k - 1] = v[f[k]]
    BY <2>1, Zenon
  <2> QED
    BY <2>2, <2>3, Zenon
<1>5. \A k \in 1..n : v[f[k]] \in S
  <2>1. \A i \in DOMAIN v : v[i] \in S
    OBVIOUS
  <2> QED
    BY <1>3, <2>1, Zenon
<1> HIDE DEF f, n, place
<1>6. Elements(v, I) \in Seq(S)
  BY <1>2, <1>4, <1>5
<1>7. DOMAIN Elements(v, I) = 1..n
  BY <1>4
<1>8. \A k, l \in 1..n : f[k] = f[l] => k = l
  <2> SUFFICES ASSUME NEW k \in 1..n, NEW l \in 1..n, f[k] = f[l] PROVE k = l
    OBVIOUS
  <2>1. k - 1 = l - 1
    BY <1>3
  <2> QED
    BY <1>2, <2>1
<1>9. \A k \in 1..n : f[k] \in I /\ Elements(v, I)[k] = v[f[k]]
  BY <1>3, <1>4
<1> QED
  BY <1>6, <1>7, <1>8, <1>9, Zenon

(***************************************************************************)
(* Queues.                                                                 *)
(***************************************************************************)

\* The messages of a queue when one is appended, and when the first is taken.
LEMMA MsgsAppend ==
    ASSUME NEW S, NEW q \in Seq(S), NEW m
    PROVE  Msgs(Append(q, m)) = Msgs(q) \cup {m}
<1>1. /\ DOMAIN q = 1..Len(q) /\ Len(q) \in Nat
      /\ DOMAIN Append(q, m) = 1..(Len(q) + 1)
      /\ \A i \in 1..Len(q) : Append(q, m)[i] = q[i]
      /\ Append(q, m)[Len(q) + 1] = m
  OBVIOUS
<1>2. 1..(Len(q) + 1) = 1..Len(q) \cup {Len(q) + 1}
  BY <1>1
<1> QED
  BY <1>1, <1>2, Zenon DEF Msgs

LEMMA TailIndices ==
    ASSUME NEW S, NEW q \in Seq(S), q # << >>
    PROVE  /\ DOMAIN Tail(q) \subseteq Nat
           /\ \A i \in DOMAIN Tail(q) : i + 1 \in DOMAIN q /\ Tail(q)[i] = q[i + 1] /\ i + 1 # 1
           /\ 1 \in DOMAIN q /\ Head(q) = q[1]
OBVIOUS

LEMMA MsgsTail ==
    ASSUME NEW S, NEW q \in Seq(S), q # << >>
    PROVE  /\ Msgs(Tail(q)) \subseteq Msgs(q)
           /\ Head(q) \in Msgs(q)
           /\ Msgs(q) \subseteq Msgs(Tail(q)) \cup {Head(q)}
           /\ Head(q) \in S
           /\ Tail(q) \in Seq(S)
<1>0. /\ \A i \in DOMAIN Tail(q) : i + 1 \in DOMAIN q /\ Tail(q)[i] = q[i + 1]
      /\ 1 \in DOMAIN q /\ Head(q) = q[1]
  BY TailIndices
<1>1. Msgs(Tail(q)) \subseteq Msgs(q) /\ Head(q) \in Msgs(q)
  <2>1. \A i \in DOMAIN q : q[i] \in Msgs(q)
    BY Zenon DEF Msgs
  <2>2. \A i \in DOMAIN Tail(q) : Tail(q)[i] \in Msgs(q)
    BY <1>0, <2>1
  <2> QED
    BY <1>0, <2>1, <2>2, Zenon DEF Msgs
<1>2. \A i \in DOMAIN q : i = 1 \/ (i - 1 \in DOMAIN Tail(q) /\ Tail(q)[i - 1] = q[i])
  OBVIOUS
<1>3. Msgs(q) \subseteq Msgs(Tail(q)) \cup {Head(q)}
  <2>1. \A i \in DOMAIN Tail(q) : Tail(q)[i] \in Msgs(Tail(q))
    BY Zenon DEF Msgs
  <2>2. \A i \in DOMAIN q : q[i] = Head(q) \/ q[i] \in Msgs(Tail(q))
    BY <1>0, <1>2, <2>1
  <2> QED
    BY <2>2, Zenon DEF Msgs
<1> QED
  BY <1>1, <1>3, HeadTailProperties

LEMMA MsgsIn ==
    ASSUME NEW S, NEW q \in Seq(S)
    PROVE  /\ Msgs(q) \subseteq S
           /\ q = << >> => Msgs(q) = {}
           /\ \A i \in DOMAIN q : q[i] \in Msgs(q)
<1>1. \A i \in DOMAIN q : q[i] \in S
  OBVIOUS
<1>2. q = << >> => DOMAIN q = {}
  OBVIOUS
<1> QED
  BY <1>1, <1>2, Zenon DEF Msgs

\* No request id comes to be twice among the messages of a type.
LEMMA DistinctAppend ==
    ASSUME NEW S, NEW q \in Seq(S), NEW m, NEW type, Distinct(q, type),
           \A n \in Msgs(q) : n.type = type /\ m.type = type => n.request_id # m.request_id
    PROVE  Distinct(Append(q, m), type)
<1> DEFINE r == Append(q, m)
<1>1. /\ DOMAIN q = 1..Len(q) /\ Len(q) \in Nat
      /\ DOMAIN r = 1..(Len(q) + 1)
      /\ \A i \in 1..Len(q) : r[i] = q[i]
      /\ r[Len(q) + 1] = m
  OBVIOUS
<1> HIDE DEF r
<1> SUFFICES ASSUME NEW i \in DOMAIN r, NEW j \in DOMAIN r, r[i].type = type,
                    r[j].type = type, r[i].request_id = r[j].request_id
             PROVE  i = j
  BY Zenon DEF Distinct, r
<1>2. /\ i \in DOMAIN q \/ i = Len(q) + 1
      /\ j \in DOMAIN q \/ j = Len(q) + 1
  BY <1>1
<1>3. CASE i \in DOMAIN q /\ j \in DOMAIN q
  BY <1>1, <1>3, Zenon DEF Distinct
<1>4. CASE i \in DOMAIN q /\ j = Len(q) + 1
  BY <1>1, <1>4, Zenon DEF Msgs
<1>5. CASE i = Len(q) + 1 /\ j \in DOMAIN q
  BY <1>1, <1>5, Zenon DEF Msgs
<1> QED
  BY <1>2, <1>3, <1>4, <1>5

LEMMA DistinctTail ==
    ASSUME NEW S, NEW q \in Seq(S), q # << >>, NEW type, Distinct(q, type)
    PROVE  /\ Distinct(Tail(q), type)
           /\ \A m \in Msgs(Tail(q)) :
                 m.type = type /\ Head(q).type = type => m.request_id # Head(q).request_id
<1>1. /\ DOMAIN Tail(q) \subseteq Nat
      /\ \A i \in DOMAIN Tail(q) : i + 1 \in DOMAIN q /\ Tail(q)[i] = q[i + 1] /\ i + 1 # 1
      /\ 1 \in DOMAIN q /\ Head(q) = q[1]
  BY TailIndices
<1>2. Distinct(Tail(q), type)
  <2> SUFFICES ASSUME NEW i \in DOMAIN Tail(q), NEW j \in DOMAIN Tail(q),
                      Tail(q)[i].type = type, Tail(q)[j].type = type,
                      Tail(q)[i].request_id = Tail(q)[j].request_id
               PROVE  i = j
    BY Zenon DEF Distinct
  <2>1. i + 1 = j + 1
    BY <1>1, Zenon DEF Distinct
  <2>2. i \in Nat /\ j \in Nat
    BY <1>1
  <2> QED
    BY <2>1, <2>2
<1>3. ASSUME NEW i \in DOMAIN Tail(q), Tail(q)[i].type = type, Head(q).type = type,
             Tail(q)[i].request_id = Head(q).request_id
      PROVE  FALSE
  BY <1>1, <1>3, Zenon DEF Distinct
<1> QED
  BY <1>2, <1>3, Zenon DEF Msgs

\* A queue that has no more messages of a type than it had.
Keeps(q, r, type) ==
    /\ \A m \in Msgs(r) : m.type = type => m \in Msgs(q)
    /\ Distinct(q, type) => Distinct(r, type)

LEMMA KeepsQueue ==
    ASSUME NEW S, NEW q \in Seq(S), NEW type
    PROVE  /\ Keeps(q, q, type)
           /\ Keeps(q, << >>, type)
           /\ q # << >> => Keeps(q, Tail(q), type)
           /\ \A m : m.type # type => Keeps(q, Append(q, m), type)
<1>1. Keeps(q, q, type)
  BY Zenon DEF Keeps
<1>2. Keeps(q, << >>, type)
  <2>1. DOMAIN << >> = {}
    OBVIOUS
  <2> QED
    BY <2>1, Zenon DEF Keeps, Msgs, Distinct
<1>3. ASSUME q # << >> PROVE Keeps(q, Tail(q), type)
  BY <1>3, MsgsTail, DistinctTail, Zenon DEF Keeps
<1>4. ASSUME NEW m, m.type # type PROVE Keeps(q, Append(q, m), type)
  <2>1. Msgs(Append(q, m)) = Msgs(q) \cup {m}
    BY MsgsAppend
  <2>2. Distinct(q, type) => Distinct(Append(q, m), type)
    BY <1>4, DistinctAppend, Zenon
  <2> QED
    BY <1>4, <2>1, <2>2, Zenon DEF Keeps
<1> QED
  BY <1>1, <1>2, <1>3, <1>4, Zenon

(***************************************************************************)
(* Messages and what they are put on.                                      *)
(***************************************************************************)

LEMMA Fields ==
    /\ \A id, ns : /\ Announcement(id, ns).type = "PublishNamespace"
                   /\ Announcement(id, ns).request_id = id
                   /\ Announcement(id, ns).namespace = ns
    /\ \A id, t : /\ Subscribe(id, t).type = "Subscribe"
                  /\ Subscribe(id, t).request_id = id
                  /\ Subscribe(id, t).track = t
    /\ \A type, id : Reply(type, id).type = type /\ Reply(type, id).request_id = id
BY DEF Announcement, Subscribe, Reply

\* What is said of a message by its type and the client it comes from or goes to.
LEMMA RelayMessages ==
    ASSUME NEW c \in Client, NEW m \in ToRelay(c)
    PROVE  /\ m.type \in {"PublishNamespace", "Subscribe", "SubscribeOk", "PublishDone",
                          "PublishOk"}
           /\ m.request_id \in Nat
           /\ m.type = "PublishNamespace" => c \in Publisher /\ m.namespace \in Namespace
           /\ m.type = "Subscribe" => /\ c \in Subscriber
                                      /\ m.request_id = FirstRequestId
                                      /\ m.track = TrackOf[c]
           /\ m.type = "PublishOk" => c \in Subscriber
BY DEF ToRelay, Announcements, FirstRequestId

LEMMA ClientMessages ==
    ASSUME NEW m \in ToClient
    PROVE  /\ m.type \in {"PublishNamespace", "Subscribe", "SubscribeOk", "PublishDone",
                          "PublishNamespaceDone"}
           /\ m.request_id \in Nat
           /\ m.type = "PublishNamespace" => m.namespace \in Namespace
           /\ m.type = "Subscribe" => m.track \in Track
           /\ m.type = "SubscribeOk" => m.request_id = FirstRequestId
           /\ m.type = "PublishNamespaceDone" => m = Reply("PublishNamespaceDone", m.request_id)
<1>1. CASE m \in Announcements
  BY <1>1 DEF Announcements
<1>2. CASE m \in [type : {"Subscribe"}, request_id : Nat, track : Track]
  BY <1>2
<1>3. CASE m \in [type : {"SubscribeOk", "PublishDone"}, request_id : {FirstRequestId}]
  BY <1>3 DEF FirstRequestId
<1>4. CASE m \in [type : {"PublishNamespaceDone"}, request_id : Nat]
  BY <1>4 DEF Reply
<1> QED
  BY <1>1, <1>2, <1>3, <1>4 DEF ToClient

LEMMA Messages ==
    /\ \A id \in Nat, ns \in Namespace : Announcement(id, ns) \in ToClient
    /\ \A id \in Nat, t \in Track : Subscribe(id, t) \in ToClient
    /\ \A type \in {"SubscribeOk", "PublishDone"} : Reply(type, FirstRequestId) \in ToClient
    /\ \A id \in Nat : Reply("PublishNamespaceDone", id) \in ToClient
    /\ \A p \in Publisher : \A id \in Nat, ns \in Namespace : Announcement(id, ns) \in ToRelay(p)
    /\ \A s \in Subscriber : Subscribe(FirstRequestId, TrackOf[s]) \in ToRelay(s)
    /\ \A p \in Publisher, id \in Nat :
          \A type \in {"SubscribeOk", "PublishDone"} : Reply(type, id) \in ToRelay(p)
    /\ \A s \in Subscriber, id \in Nat : Reply("PublishOk", id) \in ToRelay(s)
<1>1. /\ \A id \in Nat, ns \in Namespace : Announcement(id, ns) \in Announcements
      /\ \A id \in Nat, t \in Track :
            Subscribe(id, t) \in [type : {"Subscribe"}, request_id : Nat, track : Track]
      /\ \A type \in {"SubscribeOk", "PublishDone"} :
            Reply(type, FirstRequestId)
                \in [type : {"SubscribeOk", "PublishDone"}, request_id : {FirstRequestId}]
      /\ \A id \in Nat : Reply("PublishNamespaceDone", id)
                             \in [type : {"PublishNamespaceDone"}, request_id : Nat]
  BY DEF Announcement, Announcements, Subscribe, Reply
<1>2. /\ \A s \in Subscriber :
            Subscribe(FirstRequestId, TrackOf[s])
                \in [type : {"Subscribe"}, request_id : {FirstRequestId}, track : {TrackOf[s]}]
      /\ \A id \in Nat : \A type \in {"SubscribeOk", "PublishDone"} :
            Reply(type, id) \in [type : {"SubscribeOk", "PublishDone"}, request_id : Nat]
      /\ \A id \in Nat : Reply("PublishOk", id) \in [type : {"PublishOk"}, request_id : Nat]
  BY DEF Subscribe, Reply
<1>3. /\ \A id \in Nat, ns \in Namespace : Announcement(id, ns) \in ToClient
      /\ \A id \in Nat, t \in Track : Subscribe(id, t) \in ToClient
      /\ \A type \in {"SubscribeOk", "PublishDone"} : Reply(type, FirstRequestId) \in ToClient
      /\ \A id \in Nat : Reply("PublishNamespaceDone", id) \in ToClient
  BY <1>1, Zenon DEF ToClient
<1>4. \A p \in Publisher : \A id \in Nat, ns \in Namespace : Announcement(id, ns) \in ToRelay(p)
  BY <1>1, Zenon DEF ToRelay
<1>5. \A s \in Subscriber : Subscribe(FirstRequestId, TrackOf[s]) \in ToRelay(s)
  BY <1>2, Zenon DEF ToRelay
<1>6. /\ \A p \in Publisher, id \in Nat :
            \A type \in {"SubscribeOk", "PublishDone"} : Reply(type, id) \in ToRelay(p)
      /\ \A s \in Subscriber, id \in Nat : Reply("PublishOk", id) \in ToRelay(s)
  BY <1>2, Zenon DEF ToRelay
<1> QED
  BY <1>3, <1>4, <1>5, <1>6

\* Constants: None is no client, no id, and no client has both roles.
LEMMA Constants ==
    /\ None \notin Client /\ None \notin Nat
    /\ Publisher \subseteq Client /\ Subscriber \subseteq Client
    /\ \A p \in Publisher : p \notin Subscriber
    /\ \A c \in Client : c \in Publisher \/ c \in Subscriber
    /\ \A t \in Track : NamespaceOf[t] \in Namespace
    /\ \A c \in Client : TrackOf[c] \in Track
    /\ FirstRequestId \in Nat
BY RolesAssumption, TracksAssumption, NoneAssumption DEF Client, None, FirstRequestId

\* The head of a queue is a message of its client.
LEMMA HeadOf ==
    ASSUME QueuesType, NEW c \in Client
    PROVE  /\ to_relay[c] # << >> => /\ Head(to_relay[c]) \in ToRelay(c)
                                     /\ Message(c) = Head(to_relay[c])
           /\ to_relay[c] = << >> => Message(c).type = "nothing"
           /\ to_client[c] # << >> => Head(to_client[c]) \in ToClient
<1>1. to_relay[c] \in Seq(ToRelay(c)) /\ to_client[c] \in Seq(ToClient)
  BY Zenon DEF QueuesType
<1>2. to_relay[c] # << >> => Head(to_relay[c]) \in ToRelay(c)
  BY <1>1, MsgsTail
<1>3. to_client[c] # << >> => Head(to_client[c]) \in ToClient
  BY <1>1, MsgsTail
<1>4. to_relay[c] = << >> => Message(c).type = "nothing"
  BY DEF Message
<1> QED
  BY <1>2, <1>3, <1>4, Zenon DEF Message

\* The records of publishers and subscribers.
LEMMA Infos ==
    /\ \A c \in Publisher \cup {None} : PublisherOK(NewPublisher(c))
    /\ \A c : /\ NewPublisher(c).client_id = c
              /\ NewPublisher(c).request_id = None
              /\ NewPublisher(c).accepted = FALSE
    /\ NoPublisher = NewPublisher(None)
    /\ \A c \in Subscriber : NewSubscriber(c, FirstRequestId) \in SubscriberInfo
    /\ \A c, id : /\ NewSubscriber(c, id).client_id = c
                  /\ NewSubscriber(c, id).request_id = id
                  /\ NewSubscriber(c, id).accepted = FALSE
                  /\ NewSubscriber(c, id).publisher_gone = FALSE
<1>1. \A c \in Publisher \cup {None} : NewPublisher(c) \in PublisherInfo
  BY DEF NewPublisher, PublisherInfo
<1>2. \A c : /\ NewPublisher(c).client_id = c
             /\ NewPublisher(c).request_id = None
             /\ NewPublisher(c).accepted = FALSE
  BY DEF NewPublisher
<1>3. \A c \in Publisher \cup {None} : PublisherOK(NewPublisher(c))
  BY <1>1, <1>2, Zenon DEF PublisherOK
<1>4. \A c \in Subscriber : NewSubscriber(c, FirstRequestId) \in SubscriberInfo
  BY DEF NewSubscriber, SubscriberInfo
<1>5. \A c, id : /\ NewSubscriber(c, id).client_id = c
                 /\ NewSubscriber(c, id).request_id = id
                 /\ NewSubscriber(c, id).accepted = FALSE
                 /\ NewSubscriber(c, id).publisher_gone = FALSE
  BY DEF NewSubscriber
<1> QED
  BY <1>2, <1>3, <1>4, <1>5, Zenon DEF NoPublisher

(***************************************************************************)
(* What each step of the relay does, field by field.                       *)
(***************************************************************************)

\* The requests a session is offered are of one id, and for the track of its client.
LEMMA InboxOf ==
    ASSUME Typing, NEW c \in Client
    PROVE  /\ DOMAIN Inbox(c) \subseteq {FirstRequestId}
           /\ \A id \in DOMAIN Inbox(c) : c \in Subscriber /\ Inbox(c)[id] = TrackOf[c]
           /\ Message(c).type = "Subscribe" => DOMAIN Inbox(c) = {FirstRequestId}
           /\ Message(c).type # "Subscribe" =>
                  Inbox(c) = session[c].pending_received_subscriptions
<1> DEFINE m == Message(c)
           kept == session[c].pending_received_subscriptions
<1>1. /\ DOMAIN kept \subseteq {FirstRequestId}
      /\ \A id \in DOMAIN kept : c \in Subscriber /\ kept[id] = TrackOf[c]
  BY Zenon DEF Typing, SessionsType, SessionOK
<1>2. CASE m.type = "Subscribe"
  <2>1. to_relay[c] # << >>
    <3>1. "nothing" # "Subscribe"
      OBVIOUS
    <3> QED
      BY <1>2, <3>1, HeadOf, Zenon DEF Typing
  <2>2. m \in ToRelay(c)
    BY <2>1, HeadOf, Zenon DEF Typing
  <2>3. c \in Subscriber /\ m.request_id = FirstRequestId /\ m.track = TrackOf[c]
    BY <1>2, <2>2, RelayMessages, Zenon
  <2>4. Inbox(c) = Put(kept, m.request_id, m.track)
    BY <1>2, Zenon DEF Inbox
  <2> HIDE DEF m, kept
  <2>5. /\ DOMAIN Inbox(c) = DOMAIN kept \cup {FirstRequestId}
        /\ \A id \in DOMAIN Inbox(c) : id = FirstRequestId
        /\ Inbox(c)[FirstRequestId] = TrackOf[c]
    BY <1>1, <2>3, <2>4 DEF Put
  <2> QED
    BY <1>1, <1>2, <2>3, <2>5, Zenon DEF m
<1>3. CASE m.type # "Subscribe"
  <2>1. Inbox(c) = kept
    BY <1>3, Zenon DEF Inbox
  <2> QED
    BY <1>1, <1>3, <2>1, Zenon
<1> QED
  BY <1>2, <1>3

\* Phase 1, the session: one message is taken off the queue, and put where it belongs.
Polled(c) ==
    LET m == Message(c)
        s == session[c]
        r == session'[c] IN
    /\ DOMAIN session' = Client
    /\ DOMAIN to_relay' = Client
    /\ \A d \in Client : d # c => session'[d] = session[d] /\ to_relay'[d] = to_relay[d]
    /\ to_relay[c] = << >> => to_relay'[c] = to_relay[c]
    /\ to_relay[c] # << >> => to_relay'[c] = Tail(to_relay[c])
    /\ DOMAIN r = SessionFields
    /\ r.next_request_id = s.next_request_id
    /\ r.pending_received_subscriptions = Inbox(c)
    /\ m.type = "SubscribeOk" =>
           r.pending_subscribe_responses = s.pending_subscribe_responses \cup {m.request_id}
    /\ m.type # "SubscribeOk" =>
           r.pending_subscribe_responses = s.pending_subscribe_responses
    /\ m.type = "PublishDone" => r.done = s.done \cup {m.request_id}
    /\ m.type # "PublishDone" => r.done = s.done
    /\ m.type = "PublishOk" =>
           /\ DOMAIN r.pending_sent_publish_namespace =
                  DOMAIN s.pending_sent_publish_namespace \ {m.request_id}
           /\ \A id \in DOMAIN r.pending_sent_publish_namespace :
                 r.pending_sent_publish_namespace[id] = s.pending_sent_publish_namespace[id]
           /\ DOMAIN r.sent_namespaces = DOMAIN s.sent_namespaces \cup {m.request_id}
           /\ \A id \in DOMAIN s.sent_namespaces :
                 id # m.request_id => r.sent_namespaces[id] = s.sent_namespaces[id]
           /\ r.sent_namespaces[m.request_id] = s.pending_sent_publish_namespace[m.request_id]
    /\ m.type # "PublishOk" =>
           /\ r.pending_sent_publish_namespace = s.pending_sent_publish_namespace
           /\ r.sent_namespaces = s.sent_namespaces

LEMMA PollEffect ==
    ASSUME Typing, NEW c \in Client, Poll(c)
    PROVE  Polled(c)
<1> DEFINE m == Message(c)
           s == session[c]
           r == session'[c]
           w == CASE m.type = "Subscribe" ->
                       [s EXCEPT !.pending_received_subscriptions = Inbox(c)]
                  [] m.type = "SubscribeOk" ->
                       [s EXCEPT !.pending_subscribe_responses = @ \cup {m.request_id}]
                  [] m.type = "PublishDone" ->
                       [s EXCEPT !.done = @ \cup {m.request_id}]
                  [] m.type = "PublishOk" ->
                       [s EXCEPT !.pending_sent_publish_namespace = Without(@, {m.request_id}),
                                 !.sent_namespaces =
                                     Put(@, m.request_id,
                                         s.pending_sent_publish_namespace[m.request_id])]
                  [] OTHER -> s
<1>1. /\ DOMAIN session = Client /\ DOMAIN to_relay = Client
      /\ DOMAIN s = SessionFields
  BY Zenon DEF Typing, SessionsType, SessionOK, QueuesType
<1>2. /\ session' = [session EXCEPT ![c] = w]
      /\ to_relay' = [to_relay EXCEPT ![c] = IF @ = << >> THEN @ ELSE Tail(@)]
  BY DEF Poll
<1>3. /\ DOMAIN session' = Client /\ DOMAIN to_relay' = Client
      /\ \A d \in Client : d # c => session'[d] = session[d] /\ to_relay'[d] = to_relay[d]
      /\ to_relay[c] = << >> => to_relay'[c] = to_relay[c]
      /\ to_relay[c] # << >> => to_relay'[c] = Tail(to_relay[c])
  <2> HIDE DEF w
  <2> QED
    BY <1>1, <1>2
<1>4. r = w
  <2> HIDE DEF w
  <2> QED
    BY <1>1, <1>2
<1>5. m.type # "Subscribe" => Inbox(c) = s.pending_received_subscriptions
  BY InboxOf
<1> DEFINE Same(f) == r[f] = s[f]
<1>6. CASE m.type = "Subscribe"
  <2>1. r = [s EXCEPT !.pending_received_subscriptions = Inbox(c)]
    BY <1>4, <1>6
  <2> HIDE DEF m, s, r
  <2>2. /\ DOMAIN r = SessionFields /\ r.pending_received_subscriptions = Inbox(c)
        /\ r.next_request_id = s.next_request_id
        /\ r.pending_subscribe_responses = s.pending_subscribe_responses
        /\ r.done = s.done
        /\ r.pending_sent_publish_namespace = s.pending_sent_publish_namespace
        /\ r.sent_namespaces = s.sent_namespaces
    BY <1>1, <2>1 DEF SessionFields
  <2>3. m.type \notin {"SubscribeOk", "PublishDone", "PublishOk"}
    BY <1>6
  <2> QED
    BY <1>3, <2>2, <2>3 DEF Polled, m, s, r
<1>7. CASE m.type = "SubscribeOk"
  <2>1. r = [s EXCEPT !.pending_subscribe_responses = @ \cup {m.request_id}]
    BY <1>4, <1>7
  <2>3. m.type \notin {"Subscribe", "PublishDone", "PublishOk"}
    BY <1>7
  <2> HIDE DEF m, s, r
  <2>2. /\ DOMAIN r = SessionFields
        /\ r.pending_received_subscriptions = s.pending_received_subscriptions
        /\ r.next_request_id = s.next_request_id
        /\ r.pending_subscribe_responses = s.pending_subscribe_responses \cup {m.request_id}
        /\ r.done = s.done
        /\ r.pending_sent_publish_namespace = s.pending_sent_publish_namespace
        /\ r.sent_namespaces = s.sent_namespaces
    BY <1>1, <2>1 DEF SessionFields
  <2> QED
    BY <1>3, <1>5, <1>7, <2>2, <2>3 DEF Polled, m, s, r
<1>8. CASE m.type = "PublishDone"
  <2>1. r = [s EXCEPT !.done = @ \cup {m.request_id}]
    BY <1>4, <1>8
  <2>3. m.type \notin {"Subscribe", "SubscribeOk", "PublishOk"}
    BY <1>8
  <2> HIDE DEF m, s, r
  <2>2. /\ DOMAIN r = SessionFields
        /\ r.pending_received_subscriptions = s.pending_received_subscriptions
        /\ r.next_request_id = s.next_request_id
        /\ r.pending_subscribe_responses = s.pending_subscribe_responses
        /\ r.done = s.done \cup {m.request_id}
        /\ r.pending_sent_publish_namespace = s.pending_sent_publish_namespace
        /\ r.sent_namespaces = s.sent_namespaces
    BY <1>1, <2>1 DEF SessionFields
  <2> QED
    BY <1>3, <1>5, <1>8, <2>2, <2>3 DEF Polled, m, s, r
<1>9. CASE m.type = "PublishOk"
  <2>1. r = [s EXCEPT !.pending_sent_publish_namespace = Without(@, {m.request_id}),
                      !.sent_namespaces =
                          Put(@, m.request_id,
                              s.pending_sent_publish_namespace[m.request_id])]
    BY <1>4, <1>9
  <2>3. m.type \notin {"Subscribe", "SubscribeOk", "PublishDone"}
    BY <1>9
  <2> HIDE DEF m, s, r
  <2>2. /\ DOMAIN r = SessionFields
        /\ r.pending_received_subscriptions = s.pending_received_subscriptions
        /\ r.next_request_id = s.next_request_id
        /\ r.pending_subscribe_responses = s.pending_subscribe_responses
        /\ r.done = s.done
        /\ r.pending_sent_publish_namespace =
               Without(s.pending_sent_publish_namespace, {m.request_id})
        /\ r.sent_namespaces = Put(s.sent_namespaces, m.request_id,
                                   s.pending_sent_publish_namespace[m.request_id])
    BY <1>1, <2>1 DEF SessionFields
  <2>4. /\ DOMAIN r.pending_sent_publish_namespace =
               DOMAIN s.pending_sent_publish_namespace \ {m.request_id}
        /\ \A id \in DOMAIN r.pending_sent_publish_namespace :
              r.pending_sent_publish_namespace[id] = s.pending_sent_publish_namespace[id]
        /\ DOMAIN r.sent_namespaces = DOMAIN s.sent_namespaces \cup {m.request_id}
        /\ \A id \in DOMAIN s.sent_namespaces :
              id # m.request_id => r.sent_namespaces[id] = s.sent_namespaces[id]
        /\ r.sent_namespaces[m.request_id] = s.pending_sent_publish_namespace[m.request_id]
    BY <2>2 DEF Without, Put
  <2> QED
    BY <1>3, <1>5, <1>9, <2>2, <2>3, <2>4 DEF Polled, m, s, r
<1>10. CASE m.type \notin {"Subscribe", "SubscribeOk", "PublishDone", "PublishOk"}
  <2>1. r = s
    BY <1>4, <1>10
  <2> HIDE DEF m, s, r
  <2> QED
    BY <1>1, <1>3, <1>5, <1>10, <2>1 DEF Polled, m, s, r
<1> QED
  BY <1>6, <1>7, <1>8, <1>9, <1>10

\* Phase 1, the application: the request is queued as one more subscriber of its track.
QueuedOne(c) ==
    LET t == TrackOf[c] IN
    /\ c \in Subscriber
    /\ FirstRequestId \in DOMAIN Inbox(c)
    /\ ~AlreadyQueued(t, FirstRequestId)
    /\ DOMAIN subscriptions' = DOMAIN subscriptions \cup {t}
    /\ \A u \in DOMAIN subscriptions : u # t => subscriptions'[u] = subscriptions[u]
    /\ DOMAIN subscriptions'[t] = {"publisher", "subscribers"}
    /\ t \in DOMAIN subscriptions =>
          /\ subscriptions'[t].publisher = subscriptions[t].publisher
          /\ subscriptions'[t].subscribers =
                 Append(subscriptions[t].subscribers, NewSubscriber(c, FirstRequestId))
    /\ t \notin DOMAIN subscriptions =>
          /\ NamespaceOf[t] \in DOMAIN namespaces
          /\ subscriptions'[t].publisher = NewPublisher(namespaces[NamespaceOf[t]])
          /\ subscriptions'[t].subscribers = << NewSubscriber(c, FirstRequestId) >>

LEMMA DecideEffect ==
    ASSUME Typing, NEW c \in Client, Decide(c)
    PROVE  UNCHANGED subscriptions \/ QueuedOne(c)
<1> SUFFICES ASSUME ~UNCHANGED subscriptions PROVE QueuedOne(c)
  OBVIOUS
<1> DEFINE t == TrackOf[c]
           e == Entry(t, NewPublisher(namespaces[NamespaceOf[t]]))
<1>1. PICK id \in DOMAIN Inbox(c) :
          /\ ~AlreadyQueued(Inbox(c)[id], id)
          /\ NamespaceOf[Inbox(c)[id]] \in DOMAIN namespaces
          /\ subscriptions' = Put(subscriptions, Inbox(c)[id],
                 Queued(Entry(Inbox(c)[id],
                              NewPublisher(namespaces[NamespaceOf[Inbox(c)[id]]])), c, id))
  BY Zenon DEF Decide
<1>2. id = FirstRequestId /\ c \in Subscriber /\ Inbox(c)[id] = t
  BY InboxOf, Zenon
<1>3. /\ ~AlreadyQueued(t, FirstRequestId)
      /\ NamespaceOf[t] \in DOMAIN namespaces
      /\ subscriptions' = Put(subscriptions, t, Queued(e, c, FirstRequestId))
      /\ FirstRequestId \in DOMAIN Inbox(c)
  BY <1>1, <1>2
<1>4. /\ t \in DOMAIN subscriptions =>
             /\ e = subscriptions[t]
             /\ DOMAIN e = {"publisher", "subscribers"}
      /\ t \notin DOMAIN subscriptions =>
             e = [publisher |-> NewPublisher(namespaces[NamespaceOf[t]]), subscribers |-> << >>]
  BY Zenon DEF Entry, Typing, SubscriptionsType
<1> HIDE DEF e
<1>5. /\ DOMAIN subscriptions' = DOMAIN subscriptions \cup {t}
      /\ \A u \in DOMAIN subscriptions : u # t => subscriptions'[u] = subscriptions[u]
      /\ subscriptions'[t] = Queued(e, c, FirstRequestId)
  BY <1>3 DEF Put
<1>6. DOMAIN e = {"publisher", "subscribers"}
  BY <1>4
<1>7. /\ DOMAIN Queued(e, c, FirstRequestId) = {"publisher", "subscribers"}
      /\ Queued(e, c, FirstRequestId).publisher = e.publisher
      /\ Queued(e, c, FirstRequestId).subscribers =
             Append(e.subscribers, NewSubscriber(c, FirstRequestId))
  BY <1>6 DEF Queued
<1>8. \A x : Append(<< >>, x) = << x >>
  OBVIOUS
<1>9. t \notin DOMAIN subscriptions =>
          /\ e.publisher = NewPublisher(namespaces[NamespaceOf[t]])
          /\ e.subscribers = << >>
  BY <1>4
<1> QED
  BY <1>2, <1>3, <1>4, <1>5, <1>7, <1>8, <1>9, Zenon DEF QueuedOne

\* Parts of a session that a step leaves as they are.
SameRequests(s, r) == r.pending_received_subscriptions = s.pending_received_subscriptions
SameResponses(s, r) ==
    r.pending_subscribe_responses = s.pending_subscribe_responses /\ r.done = s.done
SameAnnouncements(s, r) ==
    /\ r.pending_sent_publish_namespace = s.pending_sent_publish_namespace
    /\ r.sent_namespaces = s.sent_namespaces

\* The map of c in f loses the key k, or gains it, and the other maps stay.
Loses(f, g, c, k) ==
    /\ DOMAIN g = Client
    /\ \A d \in Client : d # c => g[d] = f[d]
    /\ DOMAIN g[c] = DOMAIN f[c] \ {k}
    /\ \A n \in DOMAIN g[c] : g[c][n] = f[c][n]

Gains(f, g, c, k, v) ==
    /\ DOMAIN g = Client
    /\ \A d \in Client : d # c => g[d] = f[d]
    /\ DOMAIN g[c] = DOMAIN f[c] \cup {k}
    /\ g[c][k] = v
    /\ \A n \in DOMAIN f[c] : n # k => g[c][n] = f[c][n]

\* One message is appended to the queue of c.
Sends(q, r, c, m) ==
    /\ DOMAIN r = Client
    /\ \A d \in Client : d # c => r[d] = q[d]
    /\ r[c] = Append(q[c], m)

\* Phase 2.
Withdrawn(c, ns) ==
    LET id == announced_namespaces[c][ns]
        s == session[c]
        r == session'[c] IN
    /\ c \in Open
    /\ ns \in DOMAIN announced_namespaces[c]
    /\ Loses(announced_namespaces, announced_namespaces', c, ns)
    /\ DOMAIN session' = Client
    /\ \A d \in Client : d # c => session'[d] = session[d] /\ abandoned'[d] = abandoned[d]
    /\ DOMAIN r = SessionFields
    /\ r.next_request_id = s.next_request_id
    /\ SameRequests(s, r) /\ SameResponses(s, r)
    /\ abandoned' \in [Client -> SUBSET Nat]
    /\ abandoned[c] \subseteq abandoned'[c]
    /\ r.pending_sent_publish_namespace = s.pending_sent_publish_namespace
    /\ Withdrawable(c, id) =>
           /\ Sends(to_client, to_client', c, Reply("PublishNamespaceDone", id))
           /\ DOMAIN r.sent_namespaces = DOMAIN s.sent_namespaces \ {id}
           /\ \A n \in DOMAIN r.sent_namespaces : r.sent_namespaces[n] = s.sent_namespaces[n]
    /\ ~Withdrawable(c, id) =>
           /\ to_client' = to_client
           /\ SameAnnouncements(s, r)
           /\ id \in DOMAIN s.pending_sent_publish_namespace => id \in abandoned'[c]

LEMMA WithdrawEffect ==
    ASSUME Typing, NEW c \in Client, NEW ns \in Namespace, Withdraw(c, ns)
    PROVE  Withdrawn(c, ns)
<1> DEFINE id == announced_namespaces[c][ns]
<1>1. /\ DOMAIN session = Client /\ DOMAIN session[c] = SessionFields
      /\ DOMAIN to_client = Client
      /\ DOMAIN announced_namespaces = Client /\ abandoned \in [Client -> SUBSET Nat]
      /\ id \in DOMAIN session[c].pending_sent_publish_namespace => id \in Nat
  BY Zenon DEF Typing, SessionsType, SessionOK, AnnouncementsOK, QueuesType, AnnouncedType
<1>2. c \in Open /\ ns \in DOMAIN announced_namespaces[c]
  BY DEF Withdraw, ToTell, ToWithdraw
<1>3. Loses(announced_namespaces, announced_namespaces', c, ns)
  <2>1. announced_namespaces' = [announced_namespaces EXCEPT ![c] = Without(@, {ns})]
    BY DEF Withdraw
  <2> QED
    BY <1>1, <2>1 DEF Loses, Without
<1>4. CASE Withdrawable(c, id)
  <2>1. /\ Send(c, Reply("PublishNamespaceDone", id))
        /\ session' = [session EXCEPT ![c].sent_namespaces = Without(@, {id})]
        /\ abandoned' = abandoned
    BY <1>4 DEF Withdraw
  <2>2. Sends(to_client, to_client', c, Reply("PublishNamespaceDone", id))
    BY <1>1, <2>1 DEF Send, Sends
  <2> HIDE DEF id
  <2>3. /\ DOMAIN session' = Client
        /\ \A d \in Client : d # c => session'[d] = session[d]
        /\ session'[c] = [session[c] EXCEPT !.sent_namespaces = Without(@, {id})]
    BY <1>1, <2>1
  <2>4. /\ DOMAIN session'[c] = SessionFields
        /\ session'[c].next_request_id = session[c].next_request_id
        /\ SameRequests(session[c], session'[c]) /\ SameResponses(session[c], session'[c])
        /\ session'[c].pending_sent_publish_namespace
               = session[c].pending_sent_publish_namespace
        /\ session'[c].sent_namespaces = Without(session[c].sent_namespaces, {id})
    BY <1>1, <2>3 DEF SessionFields, SameRequests, SameResponses
  <2>5. /\ DOMAIN session'[c].sent_namespaces = DOMAIN session[c].sent_namespaces \ {id}
        /\ \A n \in DOMAIN session'[c].sent_namespaces :
              session'[c].sent_namespaces[n] = session[c].sent_namespaces[n]
    BY <2>4 DEF Without
  <2> QED
    BY <1>1, <1>2, <1>3, <1>4, <2>1, <2>2, <2>3, <2>4, <2>5, Zenon DEF Withdrawn, id
<1>5. CASE ~Withdrawable(c, id)
  <2>1. /\ abandoned' = [abandoned EXCEPT ![c] = @ \cup
                (DOMAIN session[c].pending_sent_publish_namespace \cap {id})]
        /\ session' = session /\ to_client' = to_client
    BY <1>5 DEF Withdraw
  <2> HIDE DEF id
  <2>2. /\ abandoned' \in [Client -> SUBSET Nat]
        /\ \A d \in Client : d # c => abandoned'[d] = abandoned[d]
        /\ abandoned[c] \subseteq abandoned'[c]
        /\ id \in DOMAIN session[c].pending_sent_publish_namespace => id \in abandoned'[c]
    BY <1>1, <2>1
  <2>3. /\ DOMAIN session'[c] = SessionFields
        /\ session'[c].next_request_id = session[c].next_request_id
        /\ SameRequests(session[c], session'[c]) /\ SameResponses(session[c], session'[c])
        /\ session'[c].pending_sent_publish_namespace
               = session[c].pending_sent_publish_namespace
        /\ SameAnnouncements(session[c], session'[c])
    BY <1>1, <2>1 DEF SameRequests, SameResponses, SameAnnouncements
  <2> QED
    BY <1>1, <1>2, <1>3, <1>5, <2>1, <2>2, <2>3, Zenon DEF Withdrawn, id
<1> QED
  BY <1>4, <1>5

Told(c, ns) ==
    LET id == session[c].next_request_id
        s == session[c]
        r == session'[c] IN
    /\ c \in Open
    /\ ns \notin DOMAIN announced_namespaces[c]
    /\ Gains(announced_namespaces, announced_namespaces', c, ns, id)
    /\ Sends(to_client, to_client', c, Announcement(id, ns))
    /\ DOMAIN session' = Client
    /\ \A d \in Client : d # c => session'[d] = session[d]
    /\ DOMAIN r = SessionFields
    /\ r.next_request_id = id + 2
    /\ SameRequests(s, r) /\ SameResponses(s, r)
    /\ r.sent_namespaces = s.sent_namespaces
    /\ DOMAIN r.pending_sent_publish_namespace
           = DOMAIN s.pending_sent_publish_namespace \cup {id}
    /\ r.pending_sent_publish_namespace[id] = ns
    /\ \A n \in DOMAIN s.pending_sent_publish_namespace : n # id =>
          r.pending_sent_publish_namespace[n] = s.pending_sent_publish_namespace[n]

LEMMA AnnounceEffect ==
    ASSUME Typing, NEW c \in Client, NEW ns \in Namespace, Announce(c, ns)
    PROVE  Told(c, ns)
<1> DEFINE id == session[c].next_request_id
<1>1. /\ DOMAIN session = Client /\ DOMAIN session[c] = SessionFields
      /\ DOMAIN to_client = Client
      /\ DOMAIN announced_namespaces = Client
  BY Zenon DEF Typing, SessionsType, SessionOK, QueuesType, AnnouncedType
<1>2. c \in Open /\ ns \notin DOMAIN announced_namespaces[c]
  BY DEF Announce, ToTell, ToAnnounce
<1>3. Gains(announced_namespaces, announced_namespaces', c, ns, id)
  <2>1. announced_namespaces' = [announced_namespaces EXCEPT ![c] = Put(@, ns, id)]
    BY DEF Announce
  <2> HIDE DEF id
  <2> QED
    BY <1>1, <2>1 DEF Gains, Put
<1>4. Sends(to_client, to_client', c, Announcement(id, ns))
  BY <1>1 DEF Announce, Send, Sends
<1>5. session' = [session EXCEPT ![c].pending_sent_publish_namespace = Put(@, id, ns),
                                 ![c].next_request_id = @ + 2]
  BY DEF Announce
<1> HIDE DEF id
<1>6. /\ DOMAIN session' = Client
      /\ \A d \in Client : d # c => session'[d] = session[d]
      /\ session'[c] = [session[c] EXCEPT !.pending_sent_publish_namespace = Put(@, id, ns),
                                          !.next_request_id = @ + 2]
  BY <1>1, <1>5
<1>7. /\ DOMAIN session'[c] = SessionFields
      /\ session'[c].next_request_id = session[c].next_request_id + 2
      /\ SameRequests(session[c], session'[c]) /\ SameResponses(session[c], session'[c])
      /\ session'[c].sent_namespaces = session[c].sent_namespaces
      /\ session'[c].pending_sent_publish_namespace
             = Put(session[c].pending_sent_publish_namespace, id, ns)
  BY <1>1, <1>6 DEF SessionFields, SameRequests, SameResponses
<1>8. /\ DOMAIN session'[c].pending_sent_publish_namespace
             = DOMAIN session[c].pending_sent_publish_namespace \cup {id}
      /\ session'[c].pending_sent_publish_namespace[id] = ns
      /\ \A n \in DOMAIN session[c].pending_sent_publish_namespace : n # id =>
            session'[c].pending_sent_publish_namespace[n]
                = session[c].pending_sent_publish_namespace[n]
  BY <1>7 DEF Put
<1> QED
  BY <1>2, <1>3, <1>4, <1>6, <1>7, <1>8, Zenon DEF Told, id

\* Phase 3: the track has a publisher, or also a subscription of its own.
Requested(t) ==
    LET c == subscriptions'[t].publisher.client_id
        id == session[c].next_request_id
        s == session[c]
        r == session'[c] IN
    /\ t \in DOMAIN subscriptions
    /\ subscriptions[t].publisher.request_id = None
    /\ DOMAIN subscriptions' = DOMAIN subscriptions
    /\ \A u \in DOMAIN subscriptions : u # t => subscriptions'[u] = subscriptions[u]
    /\ DOMAIN subscriptions'[t] = {"publisher", "subscribers"}
    /\ subscriptions'[t].subscribers = subscriptions[t].subscribers
    /\ PublisherOK(subscriptions'[t].publisher)
    /\ \/ c = subscriptions[t].publisher.client_id
       \/ /\ subscriptions[t].publisher.client_id = None
          /\ NamespaceOf[t] \in DOMAIN namespaces
          /\ c = namespaces[NamespaceOf[t]]
    /\ subscriptions'[t].publisher.accepted = subscriptions[t].publisher.accepted
    /\ \/ /\ subscriptions'[t].publisher.request_id = None
          /\ UNCHANGED <<session, to_client>>
       \/ /\ c \in Publisher /\ c \in Open
          /\ subscriptions'[t].publisher.request_id = id
          /\ Sends(to_client, to_client', c, Subscribe(id, t))
          /\ DOMAIN session' = Client
          /\ \A d \in Client : d # c => session'[d] = session[d]
          /\ DOMAIN r = SessionFields
          /\ r.next_request_id = id + 2
          /\ SameRequests(s, r) /\ SameResponses(s, r) /\ SameAnnouncements(s, r)

LEMMA SourceOf ==
    ASSUME Typing, NEW t \in DOMAIN subscriptions, ~IsSent(subscriptions[t])
    PROVE  LET p == Source(t)
               q == subscriptions[t].publisher IN
           /\ PublisherOK(p)
           /\ p.request_id = None /\ p.accepted = FALSE /\ q.accepted = FALSE
           /\ \/ p.client_id = q.client_id
              \/ /\ q.client_id = None
                 /\ NamespaceOf[t] \in DOMAIN namespaces
                 /\ p.client_id = namespaces[NamespaceOf[t]]
<1> DEFINE p == Source(t)
           q == subscriptions[t].publisher
           ns == NamespaceOf[t]
<1>1. PublisherOK(q) /\ q.request_id = None
  BY Zenon DEF Typing, SubscriptionsType, IsSent
<1>2. q.accepted = FALSE
  BY <1>1 DEF PublisherOK, PublisherInfo
<1>3. CASE q = NoPublisher /\ ns \in DOMAIN namespaces
  <2>1. p = NewPublisher(namespaces[ns]) /\ namespaces[ns] \in Publisher
    BY <1>3, Zenon DEF Source, Typing, NamespacesType
  <2> QED
    BY <1>2, <1>3, <2>1, Infos, Zenon
<1>4. CASE ~(q = NoPublisher /\ ns \in DOMAIN namespaces)
  <2>1. p = q
    BY <1>4, Zenon DEF Source
  <2> QED
    BY <1>1, <1>2, <2>1, Zenon
<1> QED
  BY <1>3, <1>4

LEMMA RequestEffect ==
    ASSUME Typing, NEW t \in Track, Request(t)
    PROVE  Requested(t)
<1> DEFINE p == Source(t)
           q == subscriptions[t].publisher
           c == p.client_id
           id == session[c].next_request_id
<1>1. t \in DOMAIN subscriptions /\ ~IsSent(subscriptions[t])
  BY DEF Request, ToRequest
<1>2. q.request_id = None
  BY <1>1 DEF IsSent
<1>3. /\ PublisherOK(p)
      /\ p.request_id = None /\ p.accepted = FALSE /\ q.accepted = FALSE
      /\ \/ c = q.client_id
         \/ /\ q.client_id = None
            /\ NamespaceOf[t] \in DOMAIN namespaces
            /\ c = namespaces[NamespaceOf[t]]
  BY <1>1, SourceOf, Zenon
<1>4. DOMAIN subscriptions[t] = {"publisher", "subscribers"}
  BY <1>1, Zenon DEF Typing, SubscriptionsType
<1>5. CASE CanSubscribe(c)
  <2>1. /\ subscriptions' = [subscriptions EXCEPT ![t].publisher = [p EXCEPT !.request_id = id]]
        /\ session' = [session EXCEPT ![c].next_request_id = @ + 2]
        /\ Send(c, Subscribe(id, t))
    BY <1>5 DEF Request
  <2>2. c \in Open /\ c \in Client
    BY <1>5 DEF CanSubscribe, Open
  <2>3. /\ DOMAIN session = Client /\ DOMAIN session[c] = SessionFields
        /\ DOMAIN to_client = Client /\ id \in Nat
    BY <2>2, Zenon DEF Typing, SessionsType, SessionOK, QueuesType
  <2>4. Sends(to_client, to_client', c, Subscribe(id, t))
    BY <2>1, <2>2, <2>3 DEF Send, Sends
  <2> HIDE DEF c, id, p
  <2>5. c \in Publisher /\ p \in PublisherInfo
    BY <1>3, <2>2, Constants DEF PublisherOK, PublisherInfo, c
  <2> DEFINE n == [p EXCEPT !.request_id = id]
  <2>6. n \in PublisherInfo /\ n.client_id = c /\ n.request_id = id /\ n.accepted = FALSE
    BY <1>3, <2>3, <2>5 DEF PublisherInfo, c
  <2> HIDE DEF n
  <2>7. /\ DOMAIN subscriptions' = DOMAIN subscriptions
        /\ \A u \in DOMAIN subscriptions : u # t => subscriptions'[u] = subscriptions[u]
        /\ subscriptions'[t] = [subscriptions[t] EXCEPT !.publisher = n]
    BY <1>1, <2>1 DEF n
  <2>8. /\ DOMAIN subscriptions'[t] = {"publisher", "subscribers"}
        /\ subscriptions'[t].publisher = n
        /\ subscriptions'[t].subscribers = subscriptions[t].subscribers
    BY <1>4, <2>7
  <2>9. PublisherOK(n)
    BY <2>2, <2>6, Constants, Zenon DEF PublisherOK
  <2>10. /\ DOMAIN session' = Client
         /\ \A d \in Client : d # c => session'[d] = session[d]
         /\ session'[c] = [session[c] EXCEPT !.next_request_id = @ + 2]
    BY <2>1, <2>2, <2>3
  <2>11. /\ DOMAIN session'[c] = SessionFields
         /\ session'[c].next_request_id = id + 2
         /\ SameRequests(session[c], session'[c]) /\ SameResponses(session[c], session'[c])
         /\ SameAnnouncements(session[c], session'[c])
    BY <2>3, <2>10 DEF SessionFields, SameRequests, SameResponses, SameAnnouncements, id
  <2>12. subscriptions'[t].publisher.client_id = c
    BY <2>6, <2>8
  <2> QED
    BY <1>1, <1>2, <1>3, <2>2, <2>4, <2>5, <2>6, <2>7, <2>8, <2>9, <2>10, <2>11, <2>12, Zenon
       DEF Requested, id, c
<1>6. CASE ~CanSubscribe(c)
  <2>1. /\ subscriptions' = [subscriptions EXCEPT ![t].publisher = p]
        /\ UNCHANGED <<session, to_client>>
    BY <1>6 DEF Request
  <2> HIDE DEF p
  <2>2. /\ DOMAIN subscriptions' = DOMAIN subscriptions
        /\ \A u \in DOMAIN subscriptions : u # t => subscriptions'[u] = subscriptions[u]
        /\ subscriptions'[t] = [subscriptions[t] EXCEPT !.publisher = p]
    BY <1>1, <2>1
  <2>3. /\ DOMAIN subscriptions'[t] = {"publisher", "subscribers"}
        /\ subscriptions'[t].publisher = p
        /\ subscriptions'[t].subscribers = subscriptions[t].subscribers
    BY <1>4, <2>2
  <2> QED
    BY <1>1, <1>2, <1>3, <2>1, <2>2, <2>3, Zenon DEF Requested
<1> QED
  BY <1>5, <1>6

\* Phase 4: publishers have accepted.
Responding ==
    /\ DOMAIN subscriptions' = DOMAIN subscriptions
    /\ \A t \in DOMAIN subscriptions :
          LET p == subscriptions[t].publisher
              q == subscriptions'[t].publisher IN
          /\ DOMAIN subscriptions'[t] = {"publisher", "subscribers"}
          /\ subscriptions'[t].subscribers = subscriptions[t].subscribers
          /\ PublisherOK(q)
          /\ q.client_id = p.client_id /\ q.request_id = p.request_id
          /\ p.accepted => q.accepted
    /\ DOMAIN session' = Client
    /\ \A c \in Client :
          /\ DOMAIN session'[c] = SessionFields
          /\ session'[c].next_request_id = session[c].next_request_id
          /\ session'[c].done = session[c].done
          /\ session'[c].pending_subscribe_responses
                 \subseteq session[c].pending_subscribe_responses
          /\ SameRequests(session[c], session'[c])
          /\ SameAnnouncements(session[c], session'[c])

LEMMA RespondEffect ==
    ASSUME Typing, Respond
    PROVE  Responding
<1> DEFINE taken(c) == {subscriptions[t].publisher.request_id :
                           t \in {u \in Answered : subscriptions[u].publisher.client_id = c}}
<1>1. /\ subscriptions' = [t \in DOMAIN subscriptions |->
             IF t \in Answered THEN [subscriptions[t] EXCEPT !.publisher.accepted = TRUE]
             ELSE subscriptions[t]]
      /\ session' = [c \in Client |->
             [session[c] EXCEPT !.pending_subscribe_responses = @ \ taken(c)]]
  BY DEF Respond
<1>2. ASSUME NEW t \in DOMAIN subscriptions
      PROVE  LET p == subscriptions[t].publisher
                 q == subscriptions'[t].publisher IN
             /\ DOMAIN subscriptions'[t] = {"publisher", "subscribers"}
             /\ subscriptions'[t].subscribers = subscriptions[t].subscribers
             /\ PublisherOK(q)
             /\ q.client_id = p.client_id /\ q.request_id = p.request_id
             /\ p.accepted => q.accepted
  <2> DEFINE p == subscriptions[t].publisher
             q == subscriptions'[t].publisher
  <2>1. PublisherOK(p) /\ DOMAIN subscriptions[t] = {"publisher", "subscribers"}
    BY Zenon DEF Typing, SubscriptionsType
  <2>2. CASE t \in Answered
    <3>1. subscriptions'[t] = [subscriptions[t] EXCEPT !.publisher.accepted = TRUE]
      BY <1>1, <2>2, Zenon
    <3>2. p.request_id # None
      <4>1. p.client_id \in Client
            /\ p.request_id \in session[p.client_id].pending_subscribe_responses
        BY <2>2 DEF Answered, Responded, Open
      <4>2. p.request_id \in Nat
        BY <4>1, Zenon DEF Typing, SessionsType, SessionOK
      <4> QED
        BY <4>2, Constants, Zenon
    <3>3. p \in PublisherInfo /\ p.client_id # None
      BY <2>1, <3>2, Zenon DEF PublisherOK
    <3>4. /\ DOMAIN subscriptions'[t] = {"publisher", "subscribers"}
          /\ subscriptions'[t].subscribers = subscriptions[t].subscribers
          /\ q = [p EXCEPT !.accepted = TRUE]
      BY <2>1, <3>1
    <3> HIDE DEF p, q
    <3>5. /\ q \in PublisherInfo /\ q.client_id = p.client_id /\ q.request_id = p.request_id
          /\ q.accepted = TRUE
      BY <3>3, <3>4 DEF PublisherInfo
    <3> QED
      BY <3>2, <3>3, <3>4, <3>5, Zenon DEF PublisherOK, p, q
  <2>3. CASE t \notin Answered
    <3>1. subscriptions'[t] = subscriptions[t]
      BY <1>1, <2>3, Zenon
    <3> QED
      BY <2>1, <3>1, Zenon
  <2> QED
    BY <2>2, <2>3
<1>3. ASSUME NEW c \in Client
      PROVE  /\ DOMAIN session'[c] = SessionFields
             /\ session'[c].next_request_id = session[c].next_request_id
             /\ session'[c].done = session[c].done
             /\ session'[c].pending_subscribe_responses
                    \subseteq session[c].pending_subscribe_responses
             /\ SameRequests(session[c], session'[c])
             /\ SameAnnouncements(session[c], session'[c])
  <2> HIDE DEF taken
  <2>1. session'[c] = [session[c] EXCEPT !.pending_subscribe_responses = @ \ taken(c)]
    BY <1>1
  <2>2. DOMAIN session[c] = SessionFields
    BY Zenon DEF Typing, SessionsType, SessionOK
  <2> QED
    BY <2>1, <2>2 DEF SessionFields, SameRequests, SameAnnouncements
<1>4. DOMAIN subscriptions' = DOMAIN subscriptions /\ DOMAIN session' = Client
  BY <1>1
<1> QED
  BY <1>2, <1>3, <1>4, Zenon DEF Responding

\* The subscribers of a track are some of those that were there before.
Derives(v, w) ==
    \E f : /\ \A k \in DOMAIN w :
                  /\ f[k] \in DOMAIN v
                  /\ w[k].client_id = v[f[k]].client_id
                  /\ w[k].accepted = v[f[k]].accepted
                  /\ v[f[k]].publisher_gone => w[k].publisher_gone
           /\ \A k, l \in DOMAIN w : f[k] = f[l] => k = l

\* What a step makes of the subscribers of every track.
Selects ==
    /\ DOMAIN subscriptions' = DOMAIN subscriptions
    /\ \A t \in DOMAIN subscriptions :
          /\ DOMAIN subscriptions'[t] = {"publisher", "subscribers"}
          /\ subscriptions'[t].subscribers \in Seq(SubscriberInfo)
          /\ Derives(subscriptions[t].subscribers, subscriptions'[t].subscribers)

PublisherKept(t) == subscriptions'[t].publisher = subscriptions[t].publisher

PublisherLost(t) ==
    /\ subscriptions'[t].publisher = NoPublisher
    /\ \A k \in DOMAIN subscriptions'[t].subscribers :
          subscriptions'[t].subscribers[k].publisher_gone

LEMMA DerivesSame ==
    ASSUME NEW v
    PROVE  Derives(v, v)
<1> DEFINE f == [k \in DOMAIN v |-> k]
<1>1. \A k \in DOMAIN v : f[k] = k
  OBVIOUS
<1> HIDE DEF f
<1> QED
  BY <1>1, Zenon DEF Derives

\* Telling the subscribers that their publisher has gone.
LEMMA GoneOf ==
    ASSUME NEW v \in Seq(SubscriberInfo)
    PROVE  /\ ForEach(v, Gone) \in Seq(SubscriberInfo)
           /\ DOMAIN ForEach(v, Gone) = DOMAIN v
           /\ \A k \in DOMAIN v : /\ ForEach(v, Gone)[k].client_id = v[k].client_id
                                  /\ ForEach(v, Gone)[k].accepted = v[k].accepted
                                  /\ ForEach(v, Gone)[k].publisher_gone = TRUE
<1> DEFINE w == [i \in DOMAIN v |-> Gone(v[i])]
<1>1. ForEach(v, Gone) = w
  BY DEF ForEach
<1>2. ASSUME NEW r \in SubscriberInfo
      PROVE  /\ Gone(r) \in SubscriberInfo /\ Gone(r).client_id = r.client_id
             /\ Gone(r).accepted = r.accepted /\ Gone(r).publisher_gone = TRUE
  BY DEF Gone, SubscriberInfo
<1>3. /\ \A i \in DOMAIN v : v[i] \in SubscriberInfo
      /\ DOMAIN v = 1..Len(v) /\ Len(v) \in Nat
  OBVIOUS
<1>4. w \in [1..Len(v) -> SubscriberInfo]
  BY <1>2, <1>3
<1>5. w \in Seq(SubscriberInfo)
  BY <1>3, <1>4
<1> QED
  BY <1>1, <1>2, <1>3, <1>5

LEMMA OrphanedOf ==
    ASSUME NEW sub
    PROVE  /\ DOMAIN Orphaned(sub) = {"publisher", "subscribers"}
           /\ Orphaned(sub).publisher = NoPublisher
           /\ Orphaned(sub).subscribers = ForEach(sub.subscribers, Gone)
<1>1. Orphaned(sub) = [publisher |-> NoPublisher,
                       subscribers |-> ForEach(sub.subscribers, Gone)]
  BY Zenon DEF Orphaned
<1> QED
  BY <1>1

LEMMA DerivesGone ==
    ASSUME NEW v \in Seq(SubscriberInfo)
    PROVE  Derives(v, ForEach(v, Gone))
<1> DEFINE f == [k \in DOMAIN v |-> k]
<1>1. \A k \in DOMAIN v : f[k] = k
  OBVIOUS
<1> HIDE DEF f
<1> DEFINE w == ForEach(v, Gone)
<1>2. /\ DOMAIN w = DOMAIN v
      /\ \A k \in DOMAIN v : /\ w[k].client_id = v[k].client_id
                             /\ w[k].accepted = v[k].accepted
                             /\ w[k].publisher_gone = TRUE
  BY GoneOf, Zenon
<1> HIDE DEF w
<1>3. \A k \in DOMAIN w : /\ f[k] \in DOMAIN v
                          /\ w[k].client_id = v[f[k]].client_id
                          /\ w[k].accepted = v[f[k]].accepted
                          /\ v[f[k]].publisher_gone => w[k].publisher_gone
  BY <1>1, <1>2
<1>4. \A k, l \in DOMAIN w : f[k] = f[l] => k = l
  BY <1>1, <1>2
<1>5. Derives(v, w)
  BY <1>3, <1>4, Zenon DEF Derives
<1> QED
  BY <1>5 DEF w

\* The subscribers that are kept of those that were told.
LEMMA DerivesElements ==
    ASSUME NEW v, NEW w \in Seq(SubscriberInfo), NEW I \in SUBSET DOMAIN w, Derives(v, w)
    PROVE  /\ Elements(w, I) \in Seq(SubscriberInfo)
           /\ Derives(v, Elements(w, I))
           /\ \A k \in DOMAIN Elements(w, I) : \E i \in I : Elements(w, I)[k] = w[i]
<1> DEFINE e == Elements(w, I)
<1>1. PICK f : /\ \A k \in DOMAIN w :
                      /\ f[k] \in DOMAIN v
                      /\ w[k].client_id = v[f[k]].client_id
                      /\ w[k].accepted = v[f[k]].accepted
                      /\ v[f[k]].publisher_gone => w[k].publisher_gone
               /\ \A k, l \in DOMAIN w : f[k] = f[l] => k = l
  BY Zenon DEF Derives
<1>2. e \in Seq(SubscriberInfo)
      /\ \E g : /\ \A k \in DOMAIN e : g[k] \in I /\ e[k] = w[g[k]]
                /\ \A k, l \in DOMAIN e : g[k] = g[l] => k = l
  BY ElementsOf
<1> HIDE DEF e
<1>3. PICK g : /\ \A k \in DOMAIN e : g[k] \in I /\ e[k] = w[g[k]]
               /\ \A k, l \in DOMAIN e : g[k] = g[l] => k = l
  BY <1>2
<1> DEFINE h == [k \in DOMAIN e |-> f[g[k]]]
<1>4. \A k \in DOMAIN e : h[k] = f[g[k]]
  OBVIOUS
<1> HIDE DEF h
<1>5. \A k \in DOMAIN e : g[k] \in DOMAIN w
  BY <1>3
<1>6. \A k \in DOMAIN e : /\ h[k] \in DOMAIN v
                          /\ e[k].client_id = v[h[k]].client_id
                          /\ e[k].accepted = v[h[k]].accepted
                          /\ v[h[k]].publisher_gone => e[k].publisher_gone
  BY <1>1, <1>3, <1>4, <1>5
<1>7. \A k, l \in DOMAIN e : h[k] = h[l] => k = l
  BY <1>1, <1>3, <1>4, <1>5
<1>8. Derives(v, e)
  BY <1>6, <1>7, Zenon DEF Derives
<1> QED
  BY <1>2, <1>3, <1>8, Zenon DEF e

\* The clients that a step tells something of their only request.
Tells(C, type) ==
    /\ DOMAIN to_client' = Client
    /\ \A c \in Client : c \in C => to_client'[c] = Append(to_client[c], Reply(type, FirstRequestId))
    /\ \A c \in Client : c \notin C => to_client'[c] = to_client[c]

LEMMA TellEffect ==
    ASSUME NEW S \in SUBSET SubscriberInfo, NEW type, Tell(type, S)
    PROVE  /\ Tells({s.client_id : s \in S}, type)
           /\ \A c \in {s.client_id : s \in S} : RequestsOf(c, S) = {FirstRequestId}
<1> DEFINE C == {s.client_id : s \in S}
<1>1. \A s \in S : s.request_id = FirstRequestId
  BY DEF SubscriberInfo
<1>2. \A c \in C : RequestsOf(c, S) = {FirstRequestId}
  BY <1>1, Zenon DEF RequestsOf
<1>3. \A c \in C : (CHOOSE id \in RequestsOf(c, S) : TRUE) = FirstRequestId
  BY <1>2
<1>4. to_client' = [c \in Client |->
          IF \E s \in S : s.client_id = c
          THEN Append(to_client[c], Reply(type, CHOOSE id \in RequestsOf(c, S) : TRUE))
          ELSE to_client[c]]
  BY DEF Tell
<1>5. \A c \in Client : c \in C => to_client'[c] = Append(to_client[c], Reply(type, FirstRequestId))
  BY <1>3, <1>4, Zenon
<1>6. \A c \in Client : c \notin C => to_client'[c] = to_client[c]
  BY <1>4, Zenon
<1> QED
  BY <1>2, <1>4, <1>5, <1>6, Zenon DEF Tells

\* Phase 4.5: a subscriber that can be accepted, and the clients that are.
CanAccept(t, i) ==
    LET s == subscriptions[t].subscribers[i] IN
    subscriptions[t].publisher.accepted /\ ~s.accepted /\ s.client_id \in Open

AcceptedClients ==
    {c \in Open : \E t \in DOMAIN subscriptions : \E i \in DOMAIN subscriptions[t].subscribers :
                      CanAccept(t, i) /\ subscriptions[t].subscribers[i].client_id = c}

Accepting ==
    /\ DOMAIN subscriptions' = DOMAIN subscriptions
    /\ \A t \in DOMAIN subscriptions :
          LET v == subscriptions[t].subscribers
              w == subscriptions'[t].subscribers IN
          /\ DOMAIN subscriptions'[t] = {"publisher", "subscribers"}
          /\ PublisherKept(t)
          /\ w \in Seq(SubscriberInfo)
          /\ DOMAIN w = DOMAIN v
          /\ \A i \in DOMAIN v :
                /\ w[i].client_id = v[i].client_id
                /\ w[i].publisher_gone = v[i].publisher_gone
                /\ w[i].accepted <=> v[i].accepted \/ CanAccept(t, i)
    /\ Tells(AcceptedClients, "SubscribeOk")
    /\ DOMAIN session' = Client
    /\ \A c \in Client :
          LET s == session[c]
              r == session'[c]
              kept == s.pending_received_subscriptions
              left == r.pending_received_subscriptions IN
          /\ DOMAIN r = SessionFields
          /\ r.next_request_id = s.next_request_id
          /\ SameResponses(s, r) /\ SameAnnouncements(s, r)
          /\ c \in AcceptedClients => DOMAIN left = DOMAIN kept \ {FirstRequestId}
          /\ c \notin AcceptedClients => DOMAIN left = DOMAIN kept
          /\ \A id \in DOMAIN left : left[id] = kept[id]

\* The subscribers of all tracks that phase 4.5 accepts.
LEMMA ThoseAcceptable ==
    ASSUME Typing
    PROVE  LET S == Those(Acceptable) IN
           /\ S \subseteq SubscriberInfo
           /\ \A s \in S : \E t \in DOMAIN subscriptions :
                 \E i \in DOMAIN subscriptions[t].subscribers :
                    CanAccept(t, i) /\ subscriptions[t].subscribers[i] = s
           /\ \A t \in DOMAIN subscriptions : \A i \in DOMAIN subscriptions[t].subscribers :
                 CanAccept(t, i) => subscriptions[t].subscribers[i] \in S
           /\ {s.client_id : s \in S} = AcceptedClients
<1> DEFINE S == Those(Acceptable)
<1>1. S = UNION {{subscriptions[t].subscribers[i] :
                     i \in {j \in DOMAIN subscriptions[t].subscribers : CanAccept(t, j)}} :
                 t \in DOMAIN subscriptions}
  BY DEF Those, Acceptable, CanAccept, IsPublisherAccepted
<1> HIDE DEF S
<1>2. \A s \in S : \E t \in DOMAIN subscriptions :
          \E i \in DOMAIN subscriptions[t].subscribers :
              CanAccept(t, i) /\ subscriptions[t].subscribers[i] = s
  BY <1>1, Zenon
<1>3. \A t \in DOMAIN subscriptions : \A i \in DOMAIN subscriptions[t].subscribers :
          CanAccept(t, i) => subscriptions[t].subscribers[i] \in S
  <2> SUFFICES ASSUME NEW t \in DOMAIN subscriptions,
                      NEW i \in DOMAIN subscriptions[t].subscribers, CanAccept(t, i)
               PROVE  subscriptions[t].subscribers[i] \in S
    OBVIOUS
  <2> DEFINE X == {subscriptions[t].subscribers[j] :
                      j \in {k \in DOMAIN subscriptions[t].subscribers : CanAccept(t, k)}}
  <2>1. subscriptions[t].subscribers[i] \in X
    BY Zenon
  <2>2. X \subseteq S
    BY <1>1, Zenon
  <2> QED
    BY <2>1, <2>2
<1>4. \A t \in DOMAIN subscriptions : \A i \in DOMAIN subscriptions[t].subscribers :
          subscriptions[t].subscribers[i] \in SubscriberInfo
  <2>1. \A v \in Seq(SubscriberInfo) : \A i \in DOMAIN v : v[i] \in SubscriberInfo
    OBVIOUS
  <2> QED
    BY <2>1, Zenon DEF Typing, SubscriptionsType
<1>5. S \subseteq SubscriberInfo
  BY <1>2, <1>4, Zenon
<1>6. \A t, i : CanAccept(t, i) => subscriptions[t].subscribers[i].client_id \in Open
  BY DEF CanAccept
<1>7. {s.client_id : s \in S} = AcceptedClients
  <2>1. \A s \in S : s.client_id \in AcceptedClients
    BY <1>2, <1>6, Zenon DEF AcceptedClients
  <2>2. \A c \in AcceptedClients : \E s \in S : s.client_id = c
    BY <1>3, Zenon DEF AcceptedClients
  <2> QED
    BY <2>1, <2>2, Zenon
<1> QED
  BY <1>2, <1>3, <1>5, <1>7, Zenon DEF S

LEMMA AcceptEffect ==
    ASSUME Typing, Accept
    PROVE  \/ /\ \A s \in Those(Acceptable) : Unwraps(s)
              /\ Accepting
              /\ UNCHANGED panicked
           \/ /\ ~\A s \in Those(Acceptable) : Unwraps(s)
              /\ Panic("accept unwrap")
<1> DEFINE S == Those(Acceptable)
<1>1. CASE ~\A s \in S : Unwraps(s)
  <2>1. Panic("accept unwrap")
    BY <1>1 DEF Accept
  <2> QED
    BY <1>1, <2>1
<1>2. CASE \A s \in S : Unwraps(s)
  <2> DEFINE Accepted(t, s) == [s EXCEPT !.accepted = @ \/ Acceptable(subscriptions[t], s)]
             new(t) == [i \in DOMAIN subscriptions[t].subscribers |->
                            Accepted(t, subscriptions[t].subscribers[i])]
  <2>1. /\ subscriptions' = [t \in DOMAIN subscriptions |->
               [subscriptions[t] EXCEPT !.subscribers = new(t)]]
        /\ session' = [c \in Client |-> TakeRequests(c, RequestsOf(c, S))]
        /\ Tell("SubscribeOk", S)
        /\ panicked' = panicked
    <3>1. session' = [c \in Client |-> TakeRequests(c, RequestsOf(c, S))]
      BY <1>2 DEF Accept
    <3>2. Tell("SubscribeOk", S) /\ panicked' = panicked
      BY <1>2 DEF Accept
    <3>3. subscriptions' = [t \in DOMAIN subscriptions |->
               [subscriptions[t] EXCEPT !.subscribers = new(t)]]
      BY <1>2 DEF Accept, ForEach
    <3> QED
      BY <3>1, <3>2, <3>3
  <2>2. /\ Tells(AcceptedClients, "SubscribeOk")
        /\ \A c \in AcceptedClients : RequestsOf(c, S) = {FirstRequestId}
    BY <2>1, ThoseAcceptable, TellEffect
  <2>3. \A c \in Client : c \notin AcceptedClients => RequestsOf(c, S) = {}
    <3>1. {s.client_id : s \in S} = AcceptedClients
      BY ThoseAcceptable
    <3> QED
      BY <3>1, Zenon DEF RequestsOf
  <2>4. ASSUME NEW t \in DOMAIN subscriptions
        PROVE  LET v == subscriptions[t].subscribers
                   w == subscriptions'[t].subscribers IN
               /\ DOMAIN subscriptions'[t] = {"publisher", "subscribers"}
               /\ PublisherKept(t)
               /\ w \in Seq(SubscriberInfo)
               /\ DOMAIN w = DOMAIN v
               /\ \A i \in DOMAIN v :
                     /\ w[i].client_id = v[i].client_id
                     /\ w[i].publisher_gone = v[i].publisher_gone
                     /\ w[i].accepted <=> v[i].accepted \/ CanAccept(t, i)
    <3> DEFINE v == subscriptions[t].subscribers
               w == subscriptions'[t].subscribers
    <3>1. /\ DOMAIN subscriptions[t] = {"publisher", "subscribers"}
          /\ v \in Seq(SubscriberInfo)
      BY Zenon DEF Typing, SubscriptionsType
    <3>2. subscriptions'[t] = [subscriptions[t] EXCEPT !.subscribers = new(t)]
      <4> HIDE DEF new
      <4> QED
        BY <2>1
    <3>3. /\ DOMAIN subscriptions'[t] = {"publisher", "subscribers"}
          /\ PublisherKept(t)
          /\ w = new(t)
      <4> HIDE DEF new
      <4> QED
        BY <3>1, <3>2 DEF PublisherKept
    <3>4. /\ \A i \in DOMAIN v : v[i] \in SubscriberInfo
          /\ DOMAIN v = 1..Len(v) /\ Len(v) \in Nat
      BY <3>1
    <3>5. ASSUME NEW s \in SubscriberInfo
          PROVE  LET a == Accepted(t, s) IN
                 /\ a \in SubscriberInfo
                 /\ a.client_id = s.client_id
                 /\ a.publisher_gone = s.publisher_gone
                 /\ a.accepted = (s.accepted \/ Acceptable(subscriptions[t], s))
      <4>1. (s.accepted \/ Acceptable(subscriptions[t], s)) \in BOOLEAN
        OBVIOUS
      <4>2. \A b \in BOOLEAN : /\ [s EXCEPT !.accepted = b] \in SubscriberInfo
                               /\ [s EXCEPT !.accepted = b].client_id = s.client_id
                               /\ [s EXCEPT !.accepted = b].publisher_gone = s.publisher_gone
                               /\ [s EXCEPT !.accepted = b].accepted = b
        BY DEF SubscriberInfo
      <4> QED
        BY <4>1, <4>2, Zenon
    <3> HIDE DEF Accepted
    <3>6. \A i \in DOMAIN v : w[i] = Accepted(t, v[i])
      BY <3>3
    <3>7. w \in [1..Len(v) -> SubscriberInfo]
      BY <3>3, <3>4, <3>5
    <3>8. w \in Seq(SubscriberInfo) /\ DOMAIN w = DOMAIN v
      BY <3>4, <3>7
    <3>9. \A i \in DOMAIN v :
              /\ w[i].client_id = v[i].client_id
              /\ w[i].publisher_gone = v[i].publisher_gone
              /\ w[i].accepted = (v[i].accepted \/ Acceptable(subscriptions[t], v[i]))
      BY <3>4, <3>5, <3>6, Zenon
    <3>10. \A i \in DOMAIN v : w[i].accepted <=> v[i].accepted \/ CanAccept(t, i)
      BY <3>9, Zenon DEF CanAccept, Acceptable, IsPublisherAccepted
    <3> QED
      BY <3>3, <3>8, <3>9, <3>10, Zenon
  <2>5. ASSUME NEW c \in Client
        PROVE  LET s == session[c]
                   r == session'[c]
                   kept == s.pending_received_subscriptions
                   left == r.pending_received_subscriptions IN
               /\ DOMAIN r = SessionFields
               /\ r.next_request_id = s.next_request_id
               /\ SameResponses(s, r) /\ SameAnnouncements(s, r)
               /\ c \in AcceptedClients => DOMAIN left = DOMAIN kept \ {FirstRequestId}
               /\ c \notin AcceptedClients => DOMAIN left = DOMAIN kept
               /\ \A id \in DOMAIN left : left[id] = kept[id]
    <3> DEFINE s == session[c]
               r == session'[c]
               R == RequestsOf(c, S)
    <3>1. DOMAIN s = SessionFields
      BY Zenon DEF Typing, SessionsType, SessionOK
    <3>2. r = [s EXCEPT !.pending_received_subscriptions = Without(@, R)]
      <4>1. r = TakeRequests(c, R)
        BY <2>1, Zenon
      <4> QED
        BY <4>1 DEF TakeRequests
    <3> HIDE DEF R
    <3>3. /\ DOMAIN r = SessionFields
          /\ r.next_request_id = s.next_request_id
          /\ SameResponses(s, r) /\ SameAnnouncements(s, r)
          /\ r.pending_received_subscriptions = Without(s.pending_received_subscriptions, R)
      BY <3>1, <3>2 DEF SessionFields, SameResponses, SameAnnouncements
    <3>4. /\ c \in AcceptedClients => R = {FirstRequestId}
          /\ c \notin AcceptedClients => R = {}
      BY <2>2, <2>3 DEF R
    <3>5. /\ DOMAIN r.pending_received_subscriptions
                 = DOMAIN s.pending_received_subscriptions \ R
          /\ \A id \in DOMAIN r.pending_received_subscriptions :
                r.pending_received_subscriptions[id] = s.pending_received_subscriptions[id]
      BY <3>3 DEF Without
    <3>6. /\ c \in AcceptedClients => DOMAIN r.pending_received_subscriptions
                 = DOMAIN s.pending_received_subscriptions \ {FirstRequestId}
          /\ c \notin AcceptedClients => DOMAIN r.pending_received_subscriptions
                 = DOMAIN s.pending_received_subscriptions
      BY <3>4, <3>5
    <3> QED
      BY <3>3, <3>5, <3>6, Zenon
  <2>6. DOMAIN subscriptions' = DOMAIN subscriptions /\ DOMAIN session' = Client
    BY <2>1
  <2> QED
    BY <1>2, <2>1, <2>2, <2>4, <2>5, <2>6, Zenon DEF Accepting
<1> QED
  BY <1>1, <1>2

\* Phase 4.6: the clients that are told of the end.
LeavingClients ==
    {c \in Open : \E t \in DOMAIN subscriptions : \E i \in DOMAIN subscriptions[t].subscribers :
                      /\ subscriptions[t].subscribers[i].publisher_gone
                      /\ subscriptions[t].subscribers[i].client_id = c}

Finishing ==
    /\ Selects
    /\ \A t \in DOMAIN subscriptions : PublisherKept(t)
    /\ Tells(LeavingClients, "PublishDone")

LEMMA ThoseLeaving ==
    ASSUME Typing
    PROVE  LET S == {s \in Those(Leaving) : s.client_id \in Open} IN
           S \subseteq SubscriberInfo /\ {s.client_id : s \in S} = LeavingClients
<1> DEFINE T == Those(Leaving)
           S == {s \in T : s.client_id \in Open}
           leaving(t) == {subscriptions[t].subscribers[i] :
                             i \in {j \in DOMAIN subscriptions[t].subscribers :
                                       subscriptions[t].subscribers[j].publisher_gone}}
<1>1. T = UNION {leaving(t) : t \in DOMAIN subscriptions}
  BY DEF Those, Leaving
<1> HIDE DEF T
<1>2. \A s \in T : \E t \in DOMAIN subscriptions : \E i \in DOMAIN subscriptions[t].subscribers :
          subscriptions[t].subscribers[i].publisher_gone /\ subscriptions[t].subscribers[i] = s
  BY <1>1, Zenon
<1>3. \A t \in DOMAIN subscriptions : \A i \in DOMAIN subscriptions[t].subscribers :
          subscriptions[t].subscribers[i].publisher_gone => subscriptions[t].subscribers[i] \in T
  <2> SUFFICES ASSUME NEW t \in DOMAIN subscriptions,
                      NEW i \in DOMAIN subscriptions[t].subscribers,
                      subscriptions[t].subscribers[i].publisher_gone
               PROVE  subscriptions[t].subscribers[i] \in T
    OBVIOUS
  <2>1. subscriptions[t].subscribers[i] \in leaving(t)
    BY Zenon
  <2> HIDE DEF leaving
  <2>2. leaving(t) \subseteq T
    BY <1>1, Zenon
  <2> QED
    BY <2>1, <2>2
<1>4. \A t \in DOMAIN subscriptions : \A i \in DOMAIN subscriptions[t].subscribers :
          subscriptions[t].subscribers[i] \in SubscriberInfo
  <2>1. \A v \in Seq(SubscriberInfo) : \A i \in DOMAIN v : v[i] \in SubscriberInfo
    OBVIOUS
  <2> QED
    BY <2>1, Zenon DEF Typing, SubscriptionsType
<1>5. S \subseteq SubscriberInfo
  BY <1>2, <1>4, Zenon
<1>6. \A s \in S : s.client_id \in LeavingClients
  BY <1>2, Zenon DEF LeavingClients
<1>7. \A c \in LeavingClients : \E s \in S : s.client_id = c
  BY <1>3, Zenon DEF LeavingClients
<1> QED
  BY <1>5, <1>6, <1>7, Zenon DEF T

LEMMA FinishEffect ==
    ASSUME Typing, Finish
    PROVE  Finishing
<1> DEFINE left(t) == Retain(subscriptions[t].subscribers, Staying)
<1>1. /\ subscriptions' = [t \in DOMAIN subscriptions |->
             [subscriptions[t] EXCEPT !.subscribers = left(t)]]
      /\ Tell("PublishDone", {s \in Those(Leaving) : s.client_id \in Open})
  BY DEF Finish
<1>2. Tells(LeavingClients, "PublishDone")
  <2> DEFINE S == {s \in Those(Leaving) : s.client_id \in Open}
  <2>1. S \in SUBSET SubscriberInfo /\ {s.client_id : s \in S} = LeavingClients
    BY ThoseLeaving
  <2>2. Tell("PublishDone", S)
    BY <1>1
  <2> HIDE DEF S
  <2> QED
    BY <2>1, <2>2, TellEffect
<1>3. ASSUME NEW t \in DOMAIN subscriptions
      PROVE  /\ DOMAIN subscriptions'[t] = {"publisher", "subscribers"}
             /\ PublisherKept(t)
             /\ subscriptions'[t].subscribers \in Seq(SubscriberInfo)
             /\ Derives(subscriptions[t].subscribers, subscriptions'[t].subscribers)
  <2> DEFINE v == subscriptions[t].subscribers
             I == {i \in DOMAIN v : Staying(v[i])}
  <2>1. /\ DOMAIN subscriptions[t] = {"publisher", "subscribers"}
        /\ v \in Seq(SubscriberInfo)
    BY Zenon DEF Typing, SubscriptionsType
  <2>2. left(t) = Elements(v, I)
    BY DEF Retain
  <2> HIDE DEF left
  <2>3. /\ DOMAIN subscriptions'[t] = {"publisher", "subscribers"}
        /\ subscriptions'[t].publisher = subscriptions[t].publisher
        /\ subscriptions'[t].subscribers = left(t)
    BY <1>1, <2>1
  <2>4. I \in SUBSET DOMAIN v
    OBVIOUS
  <2> HIDE DEF v, I
  <2>5. Elements(v, I) \in Seq(SubscriberInfo) /\ Derives(v, Elements(v, I))
    BY <2>1, <2>4, DerivesSame, DerivesElements
  <2> QED
    BY <2>2, <2>3, <2>5 DEF PublisherKept, v
<1>4. DOMAIN subscriptions' = DOMAIN subscriptions
  BY <1>1
<1> QED
  BY <1>2, <1>3, <1>4, Zenon DEF Finishing, Selects

\* The end of phase 5: some tracks that their publisher has ended lose it.
Forwarding ==
    /\ Selects
    /\ \A t \in DOMAIN subscriptions :
          PublisherKept(t) \/ (t \in Finishable /\ PublisherLost(t))

LEMMA ForwardEffect ==
    ASSUME Typing, Forward
    PROVE  Forwarding
<1>1. PICK ended \in SUBSET Finishable :
          subscriptions' = [t \in DOMAIN subscriptions |->
              IF t \in ended THEN Orphaned(subscriptions[t]) ELSE subscriptions[t]]
  BY Zenon DEF Forward
<1>2. ASSUME NEW t \in DOMAIN subscriptions
      PROVE  /\ DOMAIN subscriptions'[t] = {"publisher", "subscribers"}
             /\ PublisherKept(t) \/ (t \in Finishable /\ PublisherLost(t))
             /\ subscriptions'[t].subscribers \in Seq(SubscriberInfo)
             /\ Derives(subscriptions[t].subscribers, subscriptions'[t].subscribers)
  <2> DEFINE v == subscriptions[t].subscribers
  <2>1. /\ DOMAIN subscriptions[t] = {"publisher", "subscribers"}
        /\ v \in Seq(SubscriberInfo)
    BY Zenon DEF Typing, SubscriptionsType
  <2>2. CASE t \in ended
    <3>1. subscriptions'[t] = Orphaned(subscriptions[t]) /\ t \in Finishable
      BY <1>1, <2>2, Zenon
    <3>2. /\ DOMAIN subscriptions'[t] = {"publisher", "subscribers"}
          /\ subscriptions'[t].publisher = NoPublisher
          /\ subscriptions'[t].subscribers = ForEach(v, Gone)
      BY <3>1, OrphanedOf
    <3> HIDE DEF v
    <3>3. /\ ForEach(v, Gone) \in Seq(SubscriberInfo)
          /\ Derives(v, ForEach(v, Gone))
          /\ \A k \in DOMAIN ForEach(v, Gone) : ForEach(v, Gone)[k].publisher_gone = TRUE
      BY <2>1, GoneOf, DerivesGone, Zenon
    <3>4. PublisherLost(t)
      BY <3>2, <3>3 DEF PublisherLost
    <3> QED
      BY <3>1, <3>2, <3>3, <3>4 DEF v
  <2>3. CASE t \notin ended
    <3>1. subscriptions'[t] = subscriptions[t]
      BY <1>1, <2>3, Zenon
    <3> QED
      BY <2>1, <3>1, DerivesSame, Zenon DEF PublisherKept
  <2> QED
    BY <2>2, <2>3
<1>3. DOMAIN subscriptions' = DOMAIN subscriptions
  BY <1>1
<1> QED
  BY <1>2, <1>3, Zenon DEF Forwarding, Selects

\* Phase 0: what the relay has of the connections that are closed ends.
Cleaning ==
    /\ Selects
    /\ \A t \in DOMAIN subscriptions :
          /\ subscriptions[t].publisher.client_id \in Closed => PublisherLost(t)
          /\ subscriptions[t].publisher.client_id \notin Closed => PublisherKept(t)
          /\ \A k \in DOMAIN subscriptions'[t].subscribers :
                conn[subscriptions'[t].subscribers[k].client_id] # "closed"
    /\ DOMAIN namespaces' \subseteq DOMAIN namespaces
    /\ \A ns \in DOMAIN namespaces' :
          namespaces'[ns] = namespaces[ns] /\ namespaces[ns] \notin Closed
    /\ DOMAIN session' = Client /\ DOMAIN announced_namespaces' = Client
    /\ abandoned' \in [Client -> SUBSET Nat] /\ conn' \in [Client -> {"new", "open", "closed", "dropped"}]
    /\ \A c \in Closed : /\ conn'[c] = "dropped"
                         /\ session'[c] = NewSession
                         /\ announced_namespaces'[c] = EmptyMap
                         /\ abandoned'[c] = {}
    /\ \A c \in Client : c \notin Closed => /\ conn'[c] = conn[c]
                                            /\ session'[c] = session[c]
                                            /\ announced_namespaces'[c] = announced_namespaces[c]
                                            /\ abandoned'[c] = abandoned[c]
    /\ turns' \subseteq Client

LEMMA CleanupEffect ==
    ASSUME Typing, Cleanup
    PROVE  Cleaning
<1>1. ASSUME NEW t \in DOMAIN subscriptions
      PROVE  /\ DOMAIN subscriptions'[t] = {"publisher", "subscribers"}
             /\ subscriptions[t].publisher.client_id \in Closed => PublisherLost(t)
             /\ subscriptions[t].publisher.client_id \notin Closed => PublisherKept(t)
             /\ \A k \in DOMAIN subscriptions'[t].subscribers :
                   conn[subscriptions'[t].subscribers[k].client_id] # "closed"
             /\ subscriptions'[t].subscribers \in Seq(SubscriberInfo)
             /\ Derives(subscriptions[t].subscribers, subscriptions'[t].subscribers)
  <2> DEFINE sub == subscriptions[t]
             v == sub.subscribers
             rest == IF sub.publisher.client_id \in Closed THEN Orphaned(sub) ELSE sub
             w == rest.subscribers
             I == {i \in DOMAIN w : StillConnected(w[i])}
  <2>1. /\ DOMAIN sub = {"publisher", "subscribers"}
        /\ v \in Seq(SubscriberInfo)
    BY Zenon DEF Typing, SubscriptionsType
  <2>2. subscriptions'[t] = [rest EXCEPT !.subscribers = Elements(w, I)]
    <3>1. subscriptions'[t] = Cleaned(sub)
      BY DEF Cleanup
    <3> QED
      BY <3>1 DEF Cleaned, Retain
  <2>3. /\ DOMAIN rest = {"publisher", "subscribers"}
        /\ w \in Seq(SubscriberInfo)
        /\ Derives(v, w)
        /\ sub.publisher.client_id \in Closed =>
              rest.publisher = NoPublisher /\ \A k \in DOMAIN w : w[k].publisher_gone
        /\ sub.publisher.client_id \notin Closed => rest.publisher = sub.publisher
    <3>1. CASE sub.publisher.client_id \in Closed
      <4>1. rest = Orphaned(sub)
        BY <3>1, Zenon
      <4> HIDE DEF rest, v, sub
      <4>2. /\ DOMAIN rest = {"publisher", "subscribers"}
            /\ rest.publisher = NoPublisher
            /\ w = ForEach(v, Gone)
        BY <4>1, OrphanedOf DEF v
      <4>3. /\ ForEach(v, Gone) \in Seq(SubscriberInfo)
            /\ Derives(v, ForEach(v, Gone))
            /\ \A k \in DOMAIN ForEach(v, Gone) : ForEach(v, Gone)[k].publisher_gone = TRUE
        BY <2>1, GoneOf, DerivesGone, Zenon
      <4> HIDE DEF w
      <4> QED
        BY <3>1, <4>2, <4>3
    <3>2. CASE sub.publisher.client_id \notin Closed
      <4>1. rest = sub
        BY <3>2, Zenon
      <4> HIDE DEF rest, sub
      <4> QED
        BY <2>1, <3>2, <4>1, DerivesSame, Zenon
    <3> QED
      BY <3>1, <3>2
  <2>4. I \in SUBSET DOMAIN w
    OBVIOUS
  <2>5. \A i \in I : conn[w[i].client_id] # "closed"
    BY DEF StillConnected
  <2>6. \A i \in I : i \in DOMAIN w
    OBVIOUS
  <2> HIDE DEF rest, I, w, v
  <2> DEFINE e == Elements(w, I)
  <2>7. /\ e \in Seq(SubscriberInfo)
        /\ Derives(v, e)
        /\ \A k \in DOMAIN e : \E i \in I : e[k] = w[i]
    BY <2>3, <2>4, DerivesElements
  <2> HIDE DEF e
  <2>8. /\ DOMAIN subscriptions'[t] = {"publisher", "subscribers"}
        /\ subscriptions'[t].publisher = rest.publisher
        /\ subscriptions'[t].subscribers = e
    BY <2>2, <2>3 DEF e
  <2>9. \A k \in DOMAIN e : conn[e[k].client_id] # "closed"
    BY <2>5, <2>7
  <2>10. (\A k \in DOMAIN w : w[k].publisher_gone) => \A k \in DOMAIN e : e[k].publisher_gone
    BY <2>6, <2>7
  <2>11. sub.publisher.client_id \in Closed => PublisherLost(t)
    BY <2>3, <2>8, <2>10 DEF PublisherLost
  <2>12. sub.publisher.client_id \notin Closed => PublisherKept(t)
    BY <2>3, <2>8 DEF PublisherKept
  <2> QED
    BY <2>7, <2>8, <2>9, <2>11, <2>12 DEF v
<1>2. DOMAIN subscriptions' = DOMAIN subscriptions
  BY DEF Cleanup
<1>3. /\ DOMAIN namespaces' \subseteq DOMAIN namespaces
      /\ \A ns \in DOMAIN namespaces' :
            namespaces'[ns] = namespaces[ns] /\ namespaces[ns] \notin Closed
  BY DEF Cleanup, Without
<1>4. /\ conn' = Kept(conn, "dropped")
      /\ session' = Kept(session, NewSession)
      /\ announced_namespaces' = Kept(announced_namespaces, EmptyMap)
      /\ abandoned' = Kept(abandoned, {})
      /\ turns' \subseteq Open
  BY DEF Cleanup
<1>5. ASSUME NEW f, NEW fresh
      PROVE  /\ DOMAIN Kept(f, fresh) = Client
             /\ \A c \in Closed : Kept(f, fresh)[c] = fresh
             /\ \A c \in Client : c \notin Closed => Kept(f, fresh)[c] = f[c]
  <2>1. Closed \subseteq Client
    BY DEF Closed
  <2> QED
    BY <2>1 DEF Kept
<1>6. /\ DOMAIN session' = Client /\ DOMAIN announced_namespaces' = Client
      /\ \A c \in Closed : /\ conn'[c] = "dropped"
                           /\ session'[c] = NewSession
                           /\ announced_namespaces'[c] = EmptyMap
                           /\ abandoned'[c] = {}
      /\ \A c \in Client : c \notin Closed => /\ conn'[c] = conn[c]
                                              /\ session'[c] = session[c]
                                              /\ announced_namespaces'[c] = announced_namespaces[c]
                                              /\ abandoned'[c] = abandoned[c]
  <2>1. /\ DOMAIN session' = Client
        /\ \A c \in Closed : session'[c] = NewSession
        /\ \A c \in Client : c \notin Closed => session'[c] = session[c]
    BY <1>4, <1>5
  <2>2. /\ DOMAIN announced_namespaces' = Client
        /\ \A c \in Closed : announced_namespaces'[c] = EmptyMap
        /\ \A c \in Client :
              c \notin Closed => announced_namespaces'[c] = announced_namespaces[c]
    BY <1>4, <1>5
  <2>3. /\ \A c \in Closed : abandoned'[c] = {}
        /\ \A c \in Client : c \notin Closed => abandoned'[c] = abandoned[c]
    BY <1>4, <1>5
  <2>4. /\ \A c \in Closed : conn'[c] = "dropped"
        /\ \A c \in Client : c \notin Closed => conn'[c] = conn[c]
    BY <1>4, <1>5
  <2> QED
    BY <2>1, <2>2, <2>3, <2>4, Zenon
<1>7. conn' \in [Client -> {"new", "open", "closed", "dropped"}]
  BY <1>4 DEF Kept, Typing, LoopType
<1>8. turns' \subseteq Client
  BY <1>4 DEF Open
<1>9. abandoned' \in [Client -> SUBSET Nat]
  BY <1>4 DEF Kept, Typing, AnnouncedType
<1> QED
  BY <1>1, <1>2, <1>3, <1>6, <1>7, <1>8, <1>9, Zenon DEF Cleaning, Selects

(***************************************************************************)
(* Types.                                                                  *)
(***************************************************************************)

FromClientType ==
    /\ DOMAIN to_relay = Client
    /\ \A c \in Client : to_relay[c] \in Seq(ToRelay(c))

ToClientType ==
    /\ DOMAIN to_client = Client
    /\ \A c \in Client : to_client[c] \in Seq(ToClient)

LEMMA QueuesTyped == QueuesType <=> FromClientType /\ ToClientType
BY Zenon DEF QueuesType, FromClientType, ToClientType

LEMMA SendsType ==
    ASSUME ToClientType, NEW c \in Client, NEW m \in ToClient,
           Sends(to_client, to_client', c, m)
    PROVE  ToClientType'
<1>1. Append(to_client[c], m) \in Seq(ToClient)
  <2>1. \A S : \A q \in Seq(S) : \A x \in S : Append(q, x) \in Seq(S)
    OBVIOUS
  <2> QED
    BY <2>1, Zenon DEF ToClientType
<1>2. \A d \in Client : to_client'[d] \in Seq(ToClient)
  BY <1>1, Zenon DEF Sends, ToClientType
<1> QED
  BY <1>2, Zenon DEF Sends, ToClientType

LEMMA TellsType ==
    ASSUME ToClientType, NEW C, NEW type \in {"SubscribeOk", "PublishDone"}, Tells(C, type)
    PROVE  ToClientType'
<1> DEFINE m == Reply(type, FirstRequestId)
<1>1. m \in ToClient
  BY Messages, Zenon
<1> HIDE DEF m
<1>2. \A c \in Client : Append(to_client[c], m) \in Seq(ToClient)
  <2>1. \A S : \A q \in Seq(S) : \A x \in S : Append(q, x) \in Seq(S)
    OBVIOUS
  <2> QED
    BY <1>1, <2>1, Zenon DEF ToClientType
<1>3. \A c \in Client : to_client'[c] \in Seq(ToClient)
  BY <1>2, Zenon DEF Tells, ToClientType, m
<1> QED
  BY <1>3, Zenon DEF Tells, ToClientType

LEMMA ReachType ==
    ASSUME FromClientType, NEW c \in Client, NEW m \in ToRelay(c), Reach(c, m)
    PROVE  /\ FromClientType'
           /\ Sends(to_relay, to_relay', c, m)
<1>1. Sends(to_relay, to_relay', c, m)
  BY DEF FromClientType, Reach, Sends
<1>2. Append(to_relay[c], m) \in Seq(ToRelay(c))
  <2>1. \A S : \A q \in Seq(S) : \A x \in S : Append(q, x) \in Seq(S)
    OBVIOUS
  <2> QED
    BY <2>1, Zenon DEF FromClientType
<1>3. \A d \in Client : to_relay'[d] \in Seq(ToRelay(d))
  BY <1>1, <1>2, Zenon DEF Sends, FromClientType
<1> QED
  BY <1>1, <1>3, Zenon DEF Sends, FromClientType

\* A message is taken from the queue of c.
Takes(q, r, c) ==
    /\ DOMAIN r = Client
    /\ \A d \in Client : d # c => r[d] = q[d]
    /\ r[c] = Tail(q[c])

LEMMA ConsumeType ==
    ASSUME ToClientType, NEW c \in Client, to_client[c] # << >>, Consume(c)
    PROVE  /\ ToClientType'
           /\ Takes(to_client, to_client', c)
<1>1. Takes(to_client, to_client', c)
  BY DEF ToClientType, Consume, Takes
<1>2. Tail(to_client[c]) \in Seq(ToClient)
  BY MsgsTail, Zenon DEF ToClientType
<1>3. \A d \in Client : to_client'[d] \in Seq(ToClient)
  BY <1>1, <1>2, Zenon DEF Takes, ToClientType
<1> QED
  BY <1>1, <1>3, Zenon DEF Takes, ToClientType

\* A session keeps its type when a step leaves its requests and the ids of its
\* responses as they are.
LEMMA SessionStays ==
    ASSUME NEW c, NEW s, NEW r, SessionOK(s, c), DOMAIN r = SessionFields,
           \/ r.next_request_id = s.next_request_id
           \/ r.next_request_id = s.next_request_id + 2,
           AnnouncementsOK(r, c), SameRequests(s, r), SameResponses(s, r)
    PROVE  SessionOK(r, c)
<1>1. r.next_request_id \in Nat /\ r.next_request_id % 2 = 1
  <2>1. s.next_request_id \in Nat /\ s.next_request_id % 2 = 1
    BY Zenon DEF SessionOK
  <2> QED
    BY <2>1
<1> QED
  BY <1>1, Zenon DEF SessionOK, SameRequests, SameResponses

LEMMA AnnouncementsStay ==
    ASSUME NEW c, NEW s, NEW r, SessionOK(s, c), SameAnnouncements(s, r)
    PROVE  AnnouncementsOK(r, c)
BY DEF SessionOK, SameAnnouncements, AnnouncementsOK

LEMMA NewSessionType ==
    /\ \A c \in Client : SessionOK(NewSession, c)
    /\ NewSession.next_request_id = 1
    /\ DOMAIN NewSession.pending_received_subscriptions = {}
    /\ DOMAIN NewSession.pending_sent_publish_namespace = {}
    /\ DOMAIN NewSession.sent_namespaces = {}
    /\ NewSession.done = {}
<1>1. DOMAIN EmptyMap = {}
  BY DEF EmptyMap
<1>2. /\ DOMAIN NewSession = SessionFields
      /\ NewSession.next_request_id = 1
      /\ NewSession.pending_received_subscriptions = EmptyMap
      /\ NewSession.pending_sent_publish_namespace = EmptyMap
      /\ NewSession.sent_namespaces = EmptyMap
      /\ NewSession.pending_subscribe_responses = {}
      /\ NewSession.done = {}
  BY DEF NewSession, SessionFrom, SessionFields
<1>3. 1 \in Nat /\ 1 % 2 = 1
  OBVIOUS
<1>4. \A c \in Client : SessionOK(NewSession, c)
  BY <1>1, <1>2, <1>3, Zenon DEF SessionOK, AnnouncementsOK
<1> QED
  BY <1>1, <1>2, <1>4

LEMMA InitType == Init => Typing
<1> SUFFICES ASSUME Init PROVE Typing
  OBVIOUS
<1>1. DOMAIN EmptyMap = {}
  BY DEF EmptyMap
<1>2. NamespacesType
  BY <1>1 DEF Init, NamespacesType
<1>3. SubscriptionsType
  BY <1>1 DEF Init, SubscriptionsType
<1>4. SessionsType
  <2>1. session = [c \in Client |-> NewSession]
    BY DEF Init
  <2> QED
    BY <2>1, NewSessionType DEF SessionsType
<1>5. AnnouncedType
  BY <1>1 DEF Init, AnnouncedType
<1>6. QueuesType
  BY DEF Init, QueuesType
<1>7. ClientsType
  BY <1>1 DEF Init, ClientsType
<1>8. LoopType
  BY DEF Init, LoopType, Phases
<1> QED
  BY <1>2, <1>3, <1>4, <1>5, <1>6, <1>7, <1>8 DEF Typing

LEMMA ReceiveType ==
    ASSUME Typing, NEW c \in Client, Receive(c)
    PROVE  Typing'
<1>1. Polled(c) /\ (UNCHANGED subscriptions \/ QueuedOne(c))
  BY PollEffect, DecideEffect DEF Receive
<1> DEFINE m == Message(c)
<1>2. to_relay[c] # << >> => m \in ToRelay(c)
  BY HeadOf, Zenon DEF Typing
<1>3. to_relay[c] = << >> => m.type = "nothing"
  BY HeadOf, Zenon DEF Typing
<1>4. m.type \in {"PublishNamespace", "Subscribe", "SubscribeOk", "PublishDone", "PublishOk"}
          => m \in ToRelay(c)
  BY <1>2, <1>3
<1> HIDE DEF m
<1>5. NamespacesType'
  <2>1. /\ m.type = "PublishNamespace" => namespaces' = Put(namespaces, m.namespace, c)
        /\ m.type # "PublishNamespace" => namespaces' = namespaces
    BY DEF Receive, Listen, m
  <2>2. m.type = "PublishNamespace" => c \in Publisher /\ m.namespace \in Namespace
    BY <1>4, RelayMessages
  <2> QED
    BY <2>1, <2>2 DEF Typing, NamespacesType, Put
<1>6. SubscriptionsType'
  <2>1. CASE UNCHANGED subscriptions
    BY <2>1 DEF Typing, SubscriptionsType
  <2>2. CASE QueuedOne(c)
    <3> DEFINE t == TrackOf[c]
               e == NewSubscriber(c, FirstRequestId)
    <3>1. c \in Subscriber /\ t \in Track /\ e \in SubscriberInfo
      BY <2>2, Constants, Infos, Zenon DEF QueuedOne
    <3> HIDE DEF t, e
    <3>2. /\ DOMAIN subscriptions' = DOMAIN subscriptions \cup {t}
          /\ \A u \in DOMAIN subscriptions : u # t => subscriptions'[u] = subscriptions[u]
          /\ DOMAIN subscriptions'[t] = {"publisher", "subscribers"}
      BY <2>2, Zenon DEF QueuedOne, t
    <3>3. /\ PublisherOK(subscriptions'[t].publisher)
          /\ subscriptions'[t].subscribers \in Seq(SubscriberInfo)
      <4>1. CASE t \in DOMAIN subscriptions
        <5>1. /\ subscriptions'[t].publisher = subscriptions[t].publisher
              /\ subscriptions'[t].subscribers = Append(subscriptions[t].subscribers, e)
          BY <2>2, <4>1, Zenon DEF QueuedOne, t, e
        <5>2. /\ PublisherOK(subscriptions[t].publisher)
              /\ subscriptions[t].subscribers \in Seq(SubscriberInfo)
          BY <4>1, Zenon DEF Typing, SubscriptionsType
        <5>3. Append(subscriptions[t].subscribers, e) \in Seq(SubscriberInfo)
          BY <3>1, <5>2
        <5> QED
          BY <5>1, <5>2, <5>3, Zenon
      <4>2. CASE t \notin DOMAIN subscriptions
        <5>1. /\ NamespaceOf[t] \in DOMAIN namespaces
              /\ subscriptions'[t].publisher = NewPublisher(namespaces[NamespaceOf[t]])
              /\ subscriptions'[t].subscribers = << e >>
          BY <2>2, <4>2, Zenon DEF QueuedOne, t, e
        <5>2. namespaces[NamespaceOf[t]] \in Publisher
          BY <5>1, Zenon DEF Typing, NamespacesType
        <5>3. << e >> \in Seq(SubscriberInfo)
          BY <3>1
        <5> QED
          BY <5>1, <5>2, <5>3, Infos, Zenon
      <4> QED
        BY <4>1, <4>2
    <3>4. \A u \in DOMAIN subscriptions' : u # t => u \in DOMAIN subscriptions
      BY <3>2
    <3>5. DOMAIN subscriptions' \subseteq Track
      BY <3>1, <3>2 DEF Typing, SubscriptionsType
    <3> QED
      BY <3>2, <3>3, <3>4, <3>5, Zenon DEF Typing, SubscriptionsType
  <2> QED
    BY <1>1, <2>1, <2>2
<1>7. SessionsType'
  <2> DEFINE s == session[c]
             r == session'[c]
  <2>1. SessionOK(s, c)
    BY Zenon DEF Typing, SessionsType
  <2>2. /\ DOMAIN r = SessionFields
        /\ r.next_request_id = s.next_request_id
        /\ r.pending_received_subscriptions = Inbox(c)
    BY <1>1, Zenon DEF Polled
  <2>3. m.type \in {"SubscribeOk", "PublishDone", "PublishOk"} => m.request_id \in Nat
    BY <1>4, RelayMessages
  <2>4. r.pending_subscribe_responses \subseteq Nat
    <3>1. /\ m.type = "SubscribeOk" => r.pending_subscribe_responses
                 = s.pending_subscribe_responses \cup {m.request_id}
          /\ m.type # "SubscribeOk" => r.pending_subscribe_responses
                 = s.pending_subscribe_responses
      BY <1>1, Zenon DEF Polled, m
    <3>2. s.pending_subscribe_responses \subseteq Nat
      BY <2>1, Zenon DEF SessionOK
    <3> QED
      BY <2>3, <3>1, <3>2
  <2>5. r.done \subseteq Nat
    <3>1. /\ m.type = "PublishDone" => r.done = s.done \cup {m.request_id}
          /\ m.type # "PublishDone" => r.done = s.done
      BY <1>1, Zenon DEF Polled, m
    <3>2. s.done \subseteq Nat
      BY <2>1, Zenon DEF SessionOK
    <3> QED
      BY <2>3, <3>1, <3>2
  <2>6. AnnouncementsOK(r, c)
    <3>1. CASE m.type = "PublishOk"
      <4>1. /\ DOMAIN r.sent_namespaces = DOMAIN s.sent_namespaces \cup {m.request_id}
            /\ DOMAIN r.pending_sent_publish_namespace
                   \subseteq DOMAIN s.pending_sent_publish_namespace
            /\ \A id \in DOMAIN r.pending_sent_publish_namespace :
                  r.pending_sent_publish_namespace[id] = s.pending_sent_publish_namespace[id]
        BY <1>1, <3>1, Zenon DEF Polled, m
      <4>2. c \in Subscriber
        BY <1>4, <3>1, RelayMessages
      <4>3. AnnouncementsOK(s, c)
        BY <2>1, Zenon DEF SessionOK
      <4> HIDE DEF r, s
      <4> QED
        BY <2>3, <3>1, <4>1, <4>2, <4>3 DEF AnnouncementsOK
    <3>2. CASE m.type # "PublishOk"
      <4>1. SameAnnouncements(s, r)
        BY <1>1, <3>2, Zenon DEF Polled, m, SameAnnouncements
      <4> QED
        BY <2>1, <4>1, AnnouncementsStay, Zenon
    <3> QED
      BY <3>1, <3>2
  <2>7. /\ DOMAIN Inbox(c) \subseteq {FirstRequestId}
        /\ \A id \in DOMAIN Inbox(c) : c \in Subscriber /\ Inbox(c)[id] = TrackOf[c]
    BY InboxOf
  <2>8. SessionOK(r, c)
    BY <2>1, <2>2, <2>4, <2>5, <2>6, <2>7, Zenon DEF SessionOK
  <2> QED
    BY <1>1, <2>8, Zenon DEF Typing, SessionsType, Polled
<1>8. QueuesType'
  <2>1. to_relay[c] # << >> => Tail(to_relay[c]) \in Seq(ToRelay(c))
    BY MsgsTail, Zenon DEF Typing, QueuesType
  <2>2. to_relay'[c] \in Seq(ToRelay(c))
    BY <1>1, <2>1, Zenon DEF Polled, Typing, QueuesType
  <2>3. FromClientType'
    BY <1>1, <2>2, Zenon DEF Polled, Typing, QueuesType, FromClientType
  <2>4. to_client' = to_client
    BY DEF Receive
  <2> QED
    BY <2>3, <2>4, Zenon DEF Typing, QueuesType, FromClientType
<1>9. AnnouncedType' /\ ClientsType'
  BY DEF Receive, Typing, AnnouncedType, ClientsType, clientVars
<1>10. LoopType'
  BY DEF Receive, Typing, LoopType
<1> QED
  BY <1>5, <1>6, <1>7, <1>8, <1>9, <1>10 DEF Typing

LEMMA WithdrawType ==
    ASSUME Typing, NEW c \in Client, NEW ns \in Namespace, Withdraw(c, ns)
    PROVE  Typing'
<1> DEFINE id == announced_namespaces[c][ns]
<1>1. Withdrawn(c, ns)
  BY WithdrawEffect
<1>2. NamespacesType' /\ SubscriptionsType' /\ ClientsType' /\ FromClientType'
  BY DEF Withdraw, Typing, NamespacesType, SubscriptionsType, ClientsType, QueuesType,
         FromClientType, clientVars
<1>3. SessionsType'
  <2> DEFINE s == session[c]
             r == session'[c]
  <2>1. SessionOK(s, c)
    BY Zenon DEF Typing, SessionsType
  <2>2. /\ DOMAIN r = SessionFields
        /\ r.next_request_id = s.next_request_id
        /\ SameRequests(s, r) /\ SameResponses(s, r)
    BY <1>1, Zenon DEF Withdrawn
  <2>3. AnnouncementsOK(r, c)
    <3>1. AnnouncementsOK(s, c)
      BY <2>1, Zenon DEF SessionOK
    <3>2. /\ Withdrawable(c, id) => DOMAIN r.sent_namespaces = DOMAIN s.sent_namespaces \ {id}
          /\ ~Withdrawable(c, id) => r.sent_namespaces = s.sent_namespaces
          /\ r.pending_sent_publish_namespace = s.pending_sent_publish_namespace
      BY <1>1, Zenon DEF Withdrawn, SameAnnouncements
    <3> HIDE DEF r, s, id
    <3> QED
      BY <3>1, <3>2 DEF AnnouncementsOK
  <2>4. SessionOK(r, c)
    BY <2>1, <2>2, <2>3, SessionStays, Zenon
  <2> QED
    BY <1>1, <2>4, Zenon DEF Typing, SessionsType, Withdrawn
<1>4. AnnouncedType'
  <2>1. \A d \in Client : \A n \in DOMAIN announced_namespaces'[d] :
            /\ n \in DOMAIN announced_namespaces[d]
            /\ announced_namespaces'[d][n] = announced_namespaces[d][n]
    BY <1>1, Zenon DEF Withdrawn, Loses
  <2> QED
    BY <1>1, <2>1, Zenon DEF Withdrawn, Loses, Typing, AnnouncedType
<1>5. ToClientType'
  <2>1. CASE Withdrawable(c, id)
    <3>1. Sends(to_client, to_client', c, Reply("PublishNamespaceDone", id))
      BY <1>1, <2>1, Zenon DEF Withdrawn
    <3>2. id \in Nat
      BY <1>1, Zenon DEF Withdrawn, Typing, AnnouncedType
    <3> QED
      BY <3>1, <3>2, Messages, SendsType, QueuesTyped DEF Typing
  <2>2. CASE ~Withdrawable(c, id)
    <3>1. to_client' = to_client
      BY <1>1, <2>2, Zenon DEF Withdrawn
    <3> QED
      BY <3>1, QueuesTyped, Zenon DEF Typing, ToClientType
  <2> QED
    BY <2>1, <2>2
<1>6. QueuesType'
  BY <1>2, <1>5, Zenon DEF QueuesType, FromClientType, ToClientType
<1>7. LoopType'
  BY DEF Withdraw, Enter, Typing, LoopType, Phases
<1> QED
  BY <1>2, <1>3, <1>4, <1>6, <1>7 DEF Typing

LEMMA AnnounceType ==
    ASSUME Typing, NEW c \in Client, NEW ns \in Namespace, Announce(c, ns)
    PROVE  Typing'
<1> DEFINE id == session[c].next_request_id
<1>1. Told(c, ns)
  BY AnnounceEffect
<1>2. NamespacesType' /\ SubscriptionsType' /\ ClientsType' /\ FromClientType'
  BY DEF Announce, Typing, NamespacesType, SubscriptionsType, ClientsType, QueuesType,
         FromClientType, clientVars
<1>3. id \in Nat
  BY Zenon DEF Typing, SessionsType, SessionOK
<1>4. SessionsType'
  <2> DEFINE s == session[c]
             r == session'[c]
  <2>1. SessionOK(s, c)
    BY Zenon DEF Typing, SessionsType
  <2>2. /\ DOMAIN r = SessionFields
        /\ r.next_request_id = s.next_request_id + 2
        /\ SameRequests(s, r) /\ SameResponses(s, r)
    BY <1>1, Zenon DEF Told
  <2>3. AnnouncementsOK(r, c)
    <3>1. /\ r.sent_namespaces = s.sent_namespaces
          /\ DOMAIN r.pending_sent_publish_namespace
                 = DOMAIN s.pending_sent_publish_namespace \cup {id}
          /\ r.pending_sent_publish_namespace[id] = ns
          /\ \A n \in DOMAIN s.pending_sent_publish_namespace : n # id =>
                r.pending_sent_publish_namespace[n] = s.pending_sent_publish_namespace[n]
      BY <1>1, Zenon DEF Told
    <3>2. AnnouncementsOK(s, c)
      BY <2>1, Zenon DEF SessionOK
    <3> HIDE DEF r, s, id
    <3> QED
      BY <1>3, <3>1, <3>2 DEF AnnouncementsOK
  <2>4. SessionOK(r, c)
    BY <2>1, <2>2, <2>3, SessionStays, Zenon
  <2> QED
    BY <1>1, <2>4, Zenon DEF Typing, SessionsType, Told
<1>5. AnnouncedType'
  <2> HIDE DEF id
  <2>1. Gains(announced_namespaces, announced_namespaces', c, ns, id)
    BY <1>1, Zenon DEF Told, id
  <2>2. abandoned' = abandoned
    BY DEF Announce
  <2>3. \A n \in DOMAIN announced_namespaces'[c] :
            n \in Namespace /\ announced_namespaces'[c][n] \in Nat
    <3>1. /\ DOMAIN announced_namespaces'[c] = DOMAIN announced_namespaces[c] \cup {ns}
          /\ announced_namespaces'[c][ns] = id
          /\ \A n \in DOMAIN announced_namespaces[c] :
                n # ns => announced_namespaces'[c][n] = announced_namespaces[c][n]
      BY <2>1, Zenon DEF Gains
    <3>2. \A n \in DOMAIN announced_namespaces[c] :
              n \in Namespace /\ announced_namespaces[c][n] \in Nat
      BY Zenon DEF Typing, AnnouncedType
    <3> QED
      BY <1>3, <3>1, <3>2
  <2> QED
    BY <2>1, <2>2, <2>3, Zenon DEF Gains, Typing, AnnouncedType
<1>6. ToClientType'
  <2>1. Sends(to_client, to_client', c, Announcement(id, ns))
    BY <1>1, Zenon DEF Told
  <2>2. Announcement(id, ns) \in ToClient
    BY <1>3, Messages, Zenon
  <2> QED
    BY <2>1, <2>2, SendsType, QueuesTyped DEF Typing
<1>7. QueuesType'
  BY <1>2, <1>6, Zenon DEF QueuesType, FromClientType, ToClientType
<1>8. LoopType'
  BY DEF Announce, Enter, Typing, LoopType, Phases
<1> QED
  BY <1>2, <1>4, <1>5, <1>7, <1>8 DEF Typing

LEMMA RequestType ==
    ASSUME Typing, NEW t \in Track, Request(t)
    PROVE  Typing'
<1> DEFINE c == subscriptions'[t].publisher.client_id
           id == session[c].next_request_id
<1>1. Requested(t)
  BY RequestEffect
<1>2. NamespacesType' /\ ClientsType' /\ FromClientType' /\ AnnouncedType'
  BY DEF Request, Typing, NamespacesType, ClientsType, QueuesType, AnnouncedType,
         FromClientType, clientVars
<1>3. SubscriptionsType'
  <2>1. /\ DOMAIN subscriptions' = DOMAIN subscriptions
        /\ t \in DOMAIN subscriptions
        /\ \A u \in DOMAIN subscriptions : u # t => subscriptions'[u] = subscriptions[u]
        /\ DOMAIN subscriptions'[t] = {"publisher", "subscribers"}
        /\ subscriptions'[t].subscribers = subscriptions[t].subscribers
        /\ PublisherOK(subscriptions'[t].publisher)
    BY <1>1, Zenon DEF Requested
  <2>2. subscriptions'[t].subscribers \in Seq(SubscriberInfo)
    BY <2>1, Zenon DEF Typing, SubscriptionsType
  <2>3. \A u \in DOMAIN subscriptions :
            /\ DOMAIN subscriptions'[u] = {"publisher", "subscribers"}
            /\ PublisherOK(subscriptions'[u].publisher)
            /\ subscriptions'[u].subscribers \in Seq(SubscriberInfo)
    BY <2>1, <2>2, Zenon DEF Typing, SubscriptionsType
  <2> QED
    BY <2>1, <2>3, Zenon DEF Typing, SubscriptionsType
<1>4. SessionsType' /\ ToClientType'
  <2>1. CASE UNCHANGED <<session, to_client>>
    BY <2>1, QueuesTyped DEF Typing, SessionsType, ToClientType
  <2>2. CASE ~UNCHANGED <<session, to_client>>
    <3> DEFINE s == session[c]
               r == session'[c]
    <3>1. /\ c \in Publisher
          /\ Sends(to_client, to_client', c, Subscribe(id, t))
          /\ DOMAIN session' = Client
          /\ \A d \in Client : d # c => session'[d] = session[d]
          /\ DOMAIN r = SessionFields
          /\ r.next_request_id = s.next_request_id + 2
          /\ SameRequests(s, r) /\ SameResponses(s, r) /\ SameAnnouncements(s, r)
      BY <1>1, <2>2, Zenon DEF Requested
    <3>2. c \in Client
      BY <3>1, Constants
    <3> HIDE DEF c
    <3>3. SessionOK(s, c) /\ id \in Nat
      BY <3>2, Zenon DEF Typing, SessionsType, SessionOK
    <3>4. AnnouncementsOK(r, c)
      BY <3>1, <3>3, AnnouncementsStay, Zenon
    <3>5. SessionOK(r, c)
      BY <3>1, <3>3, <3>4, SessionStays, Zenon
    <3>6. SessionsType'
      BY <3>1, <3>5, Zenon DEF Typing, SessionsType
    <3>7. Subscribe(id, t) \in ToClient
      BY <3>3, Messages, Zenon
    <3>8. ToClientType'
      BY <3>1, <3>2, <3>7, SendsType, QueuesTyped DEF Typing
    <3> QED
      BY <3>6, <3>8
  <2> QED
    BY <2>1, <2>2
<1>5. QueuesType'
  BY <1>2, <1>4, Zenon DEF QueuesType, FromClientType, ToClientType
<1>6. LoopType'
  BY DEF Request, Enter, Typing, LoopType, Phases
<1> QED
  BY <1>2, <1>3, <1>4, <1>5, <1>6 DEF Typing

LEMMA RespondType ==
    ASSUME Typing, Respond
    PROVE  Typing'
<1>1. Responding
  BY RespondEffect
<1>2. NamespacesType' /\ ClientsType' /\ QueuesType' /\ AnnouncedType'
  BY DEF Respond, Typing, NamespacesType, ClientsType, QueuesType, AnnouncedType, clientVars
<1>3. SubscriptionsType'
  BY <1>1, Zenon DEF Responding, Typing, SubscriptionsType
<1>4. SessionsType'
  <2> SUFFICES ASSUME NEW c \in Client PROVE SessionOK(session'[c], c)
    BY <1>1, Zenon DEF Responding, SessionsType
  <2> DEFINE s == session[c]
             r == session'[c]
  <2>1. SessionOK(s, c)
    BY Zenon DEF Typing, SessionsType
  <2>2. /\ DOMAIN r = SessionFields
        /\ r.next_request_id = s.next_request_id
        /\ r.done = s.done
        /\ r.pending_subscribe_responses \subseteq s.pending_subscribe_responses
        /\ SameRequests(s, r) /\ SameAnnouncements(s, r)
    BY <1>1, Zenon DEF Responding
  <2>3. r.pending_subscribe_responses \subseteq Nat
    BY <2>1, <2>2, Zenon DEF SessionOK
  <2> QED
    BY <2>1, <2>2, <2>3, AnnouncementsStay, Zenon DEF SessionOK, SameRequests
<1>5. LoopType'
  BY DEF Respond, Enter, Typing, LoopType, Phases
<1> QED
  BY <1>2, <1>3, <1>4, <1>5 DEF Typing

LEMMA PanicType ==
    ASSUME Typing, NEW why \in {"REQUEST_ERROR not implemented", "accept unwrap"}, Panic(why)
    PROVE  Typing'
<1>1. /\ NamespacesType' /\ SubscriptionsType' /\ SessionsType' /\ AnnouncedType'
      /\ QueuesType' /\ ClientsType'
  BY DEF Panic, Typing, NamespacesType, SubscriptionsType, SessionsType, AnnouncedType,
         QueuesType, ClientsType, relayVars, clientVars
<1>2. LoopType'
  BY DEF Panic, Typing, LoopType, loopVars
<1> QED
  BY <1>1, <1>2 DEF Typing

LEMMA AcceptType ==
    ASSUME Typing, Accept
    PROVE  Typing'
<1>1. CASE Panic("accept unwrap")
  BY <1>1, PanicType
<1>2. CASE Accepting /\ ~Panic("accept unwrap")
  <2>0. /\ \A s \in Those(Acceptable) : Unwraps(s)
        /\ UNCHANGED panicked
    BY <1>2, AcceptEffect
  <2>1. /\ Enter("accept")
        /\ UNCHANGED <<namespaces, announced_namespaces, abandoned, conn, to_relay, clientVars>>
    BY <2>0 DEF Accept
  <2>2. NamespacesType' /\ ClientsType' /\ FromClientType' /\ AnnouncedType'
    BY <2>1 DEF Typing, NamespacesType, ClientsType, QueuesType, AnnouncedType,
                FromClientType, clientVars
  <2>3. SubscriptionsType'
    <3>1. \A t \in DOMAIN subscriptions :
              /\ DOMAIN subscriptions'[t] = {"publisher", "subscribers"}
              /\ subscriptions'[t].publisher = subscriptions[t].publisher
              /\ subscriptions'[t].subscribers \in Seq(SubscriberInfo)
      BY <1>2, Zenon DEF Accepting, PublisherKept
    <3>2. DOMAIN subscriptions' = DOMAIN subscriptions
      BY <1>2, Zenon DEF Accepting
    <3> QED
      BY <3>1, <3>2, Zenon DEF Typing, SubscriptionsType
  <2>4. SessionsType'
    <3> SUFFICES ASSUME NEW c \in Client PROVE SessionOK(session'[c], c)
      BY <1>2, Zenon DEF Accepting, SessionsType
    <3> DEFINE s == session[c]
               r == session'[c]
               kept == s.pending_received_subscriptions
               left == r.pending_received_subscriptions
    <3>1. SessionOK(s, c)
      BY Zenon DEF Typing, SessionsType
    <3>2. /\ DOMAIN r = SessionFields
          /\ r.next_request_id = s.next_request_id
          /\ SameResponses(s, r) /\ SameAnnouncements(s, r)
          /\ c \in AcceptedClients => DOMAIN left = DOMAIN kept \ {FirstRequestId}
          /\ c \notin AcceptedClients => DOMAIN left = DOMAIN kept
          /\ \A id \in DOMAIN left : left[id] = kept[id]
      BY <1>2, Zenon DEF Accepting
    <3>3. /\ DOMAIN kept \subseteq {FirstRequestId}
          /\ \A id \in DOMAIN kept : c \in Subscriber /\ kept[id] = TrackOf[c]
      BY <3>1, Zenon DEF SessionOK
    <3>4. DOMAIN left \subseteq DOMAIN kept
      BY <3>2
    <3>5. /\ DOMAIN left \subseteq {FirstRequestId}
          /\ \A id \in DOMAIN left : c \in Subscriber /\ left[id] = TrackOf[c]
      BY <3>2, <3>3, <3>4, Zenon
    <3> QED
      BY <3>1, <3>2, <3>5, AnnouncementsStay, Zenon DEF SessionOK, SameResponses
  <2>5. ToClientType'
    BY <1>2, TellsType, QueuesTyped DEF Accepting, Typing
  <2>6. QueuesType'
    BY <2>2, <2>5, Zenon DEF QueuesType, FromClientType, ToClientType
  <2>7. LoopType'
    BY <2>0, <2>1 DEF Enter, Typing, LoopType, Phases
  <2> QED
    BY <2>2, <2>3, <2>4, <2>6, <2>7 DEF Typing
<1> QED
  BY <1>1, <1>2, AcceptEffect

\* Phases that only choose among the subscribers, or take publishers away.
LEMMA SelectsType ==
    ASSUME Typing, Selects,
           \A t \in DOMAIN subscriptions : PublisherKept(t) \/ PublisherLost(t)
    PROVE  SubscriptionsType'
<1>1. PublisherOK(NoPublisher)
  BY Infos, Zenon
<1>2. \A t \in DOMAIN subscriptions : PublisherOK(subscriptions'[t].publisher)
  BY <1>1, Zenon DEF PublisherKept, PublisherLost, Typing, SubscriptionsType
<1> QED
  BY <1>2, Zenon DEF Selects, Typing, SubscriptionsType

LEMMA FinishType ==
    ASSUME Typing, Finish
    PROVE  Typing'
<1>1. Finishing
  BY FinishEffect
<1>2. NamespacesType' /\ ClientsType' /\ FromClientType' /\ AnnouncedType' /\ SessionsType'
  BY DEF Finish, Typing, NamespacesType, ClientsType, QueuesType, AnnouncedType,
         FromClientType, SessionsType, clientVars
<1>3. SubscriptionsType'
  BY <1>1, SelectsType, Zenon DEF Finishing
<1>4. ToClientType'
  BY <1>1, TellsType, QueuesTyped DEF Finishing, Typing
<1>5. QueuesType'
  BY <1>2, <1>4, Zenon DEF QueuesType, FromClientType, ToClientType
<1>6. LoopType'
  BY DEF Finish, Enter, Typing, LoopType, Phases
<1> QED
  BY <1>2, <1>3, <1>5, <1>6 DEF Typing

LEMMA ForwardType ==
    ASSUME Typing, Forward
    PROVE  Typing'
<1>1. Forwarding
  BY ForwardEffect
<1>2. NamespacesType' /\ ClientsType' /\ QueuesType' /\ AnnouncedType' /\ SessionsType'
  BY DEF Forward, Typing, NamespacesType, ClientsType, QueuesType, AnnouncedType,
         SessionsType, clientVars
<1>3. SubscriptionsType'
  BY <1>1, SelectsType, Zenon DEF Forwarding
<1>4. LoopType'
  BY DEF Forward, Enter, Typing, LoopType, Phases
<1> QED
  BY <1>2, <1>3, <1>4 DEF Typing

LEMMA CleanupType ==
    ASSUME Typing, Cleanup
    PROVE  Typing'
<1>1. Cleaning
  BY CleanupEffect
<1>2. ClientsType' /\ QueuesType'
  BY DEF Cleanup, Typing, ClientsType, QueuesType, clientVars
<1>3. SubscriptionsType'
  BY <1>1, SelectsType, Zenon DEF Cleaning
<1>4. NamespacesType'
  BY <1>1, Zenon DEF Cleaning, Typing, NamespacesType
<1>5. SessionsType'
  <2>1. \A c \in Client : session'[c] = NewSession \/ session'[c] = session[c]
    BY <1>1, Zenon DEF Cleaning
  <2> QED
    BY <1>1, <2>1, NewSessionType, Zenon DEF Cleaning, Typing, SessionsType
<1>6. AnnouncedType'
  <2>1. DOMAIN EmptyMap = {}
    BY DEF EmptyMap
  <2>2. \A c \in Client : \/ DOMAIN announced_namespaces'[c] = {}
                          \/ announced_namespaces'[c] = announced_namespaces[c]
    BY <1>1, <2>1, Zenon DEF Cleaning
  <2> QED
    BY <1>1, <2>2, Zenon DEF Cleaning, Typing, AnnouncedType
<1>7. LoopType'
  <2>1. conn' \in [Client -> {"new", "open", "closed", "dropped"}] /\ turns' \subseteq Client
    BY <1>1, Zenon DEF Cleaning
  <2>2. phase' = "receive" /\ panicked' = panicked
    BY DEF Cleanup
  <2> QED
    BY <2>1, <2>2 DEF Typing, LoopType, Phases
<1> QED
  BY <1>2, <1>3, <1>4, <1>5, <1>6, <1>7 DEF Typing

(***************************************************************************)
(* Steps of the clients.                                                   *)
(***************************************************************************)

\* What is left of a client that is gone.
Losing(c) ==
    /\ conn' \in [Client -> {"new", "open", "closed", "dropped"}]
    /\ DOMAIN to_relay' = Client /\ DOMAIN to_client' = Client /\ next_expected' \in [Client -> Nat]
    /\ DOMAIN serving' = Publisher /\ DOMAIN asked' = Subscriber /\ DOMAIN believed' = Subscriber
    /\ conn'[c] = "closed" /\ to_relay'[c] = << >> /\ to_client'[c] = << >>
    /\ c \in Publisher => DOMAIN serving'[c] = {}
    /\ c \in Subscriber => asked'[c] = "no" /\ DOMAIN believed'[c] = {}
    /\ \A d \in Client : d # c => /\ conn'[d] = conn[d]
                                  /\ to_relay'[d] = to_relay[d]
                                  /\ to_client'[d] = to_client[d]
    /\ \A p \in Publisher : p # c => serving'[p] = serving[p]
    /\ \A s \in Subscriber : s # c => asked'[s] = asked[s] /\ believed'[s] = believed[s]

LEMMA LostEffect ==
    ASSUME Typing, NEW c \in Client, Lost(c)
    PROVE  Losing(c)
<1>1. /\ conn \in [Client -> {"new", "open", "closed", "dropped"}]
      /\ DOMAIN to_relay = Client /\ DOMAIN to_client = Client /\ next_expected \in [Client -> Nat]
  BY DEF Typing, LoopType, QueuesType, ClientsType
<1>2. /\ conn' \in [Client -> {"new", "open", "closed", "dropped"}]
      /\ conn'[c] = "closed"
      /\ \A d \in Client : d # c => conn'[d] = conn[d]
  BY <1>1 DEF Lost
<1>3. /\ DOMAIN to_relay' = Client /\ DOMAIN to_client' = Client /\ next_expected' \in [Client -> Nat]
      /\ to_relay'[c] = << >> /\ to_client'[c] = << >>
      /\ \A d \in Client : d # c => to_relay'[d] = to_relay[d] /\ to_client'[d] = to_client[d]
  BY <1>1 DEF Lost
<1>4. DOMAIN EmptyMap = {}
  BY DEF EmptyMap
<1>5. /\ DOMAIN serving' = Publisher
      /\ c \in Publisher => DOMAIN serving'[c] = {}
      /\ \A p \in Publisher : p # c => serving'[p] = serving[p]
  BY <1>4 DEF Lost
<1>6. /\ DOMAIN asked' = Subscriber /\ DOMAIN believed' = Subscriber
      /\ c \in Subscriber => asked'[c] = "no" /\ DOMAIN believed'[c] = {}
      /\ \A s \in Subscriber : s # c => asked'[s] = asked[s] /\ believed'[s] = believed[s]
  BY <1>4 DEF Lost
<1> QED
  BY <1>2, <1>3, <1>5, <1>6, Zenon DEF Losing

\* No client touches what the relay has.
LEMMA RelayStays ==
    ASSUME Typing, UNCHANGED relayVars
    PROVE  NamespacesType' /\ SubscriptionsType' /\ SessionsType' /\ AnnouncedType'
BY DEF Typing, NamespacesType, SubscriptionsType, SessionsType, AnnouncedType, relayVars

LEMMA LostType ==
    ASSUME Typing, NEW c \in Client, Lost(c)
    PROVE  Typing'
<1>1. Losing(c)
  BY LostEffect
<1>2. UNCHANGED <<relayVars, loopVars, panicked>>
  BY DEF Lost
<1>3. QueuesType'
  <2>1. \A S : << >> \in Seq(S)
    OBVIOUS
  <2>2. \A d \in Client : to_relay'[d] \in Seq(ToRelay(d)) /\ to_client'[d] \in Seq(ToClient)
    BY <1>1, <2>1, Zenon DEF Losing, Typing, QueuesType
  <2> QED
    BY <1>1, <2>2, Zenon DEF Losing, QueuesType
<1>4. ClientsType'
  <2>1. /\ DOMAIN serving' = Publisher
        /\ \A p \in Publisher : DOMAIN serving'[p] = {} \/ serving'[p] = serving[p]
    BY <1>1, Zenon DEF Losing
  <2>2. \A p \in Publisher : \A id \in DOMAIN serving'[p] :
            id \in Nat /\ serving'[p][id] = TrackOf[p]
    BY <2>1, Zenon DEF Typing, ClientsType
  <2>3. asked' \in [Subscriber -> {"no", "waiting", "accepted", "done"}]
    BY DEF Lost, Typing, ClientsType
  <2>4. \A s \in Subscriber : DOMAIN believed'[s] = {} \/ believed'[s] = believed[s]
    BY <1>1, Zenon DEF Losing
  <2>5. \A s \in Subscriber : \A id \in DOMAIN believed'[s] :
            id \in Nat /\ believed'[s][id] \in Namespace
    BY <2>4, Zenon DEF Typing, ClientsType
  <2> QED
    BY <1>1, <2>1, <2>2, <2>3, <2>5, Zenon DEF Losing, ClientsType
<1>5. LoopType'
  BY <1>1, <1>2 DEF Losing, Typing, LoopType, loopVars
<1> QED
  BY <1>2, <1>3, <1>4, <1>5, RelayStays DEF Typing

LEMMA ConnectType ==
    ASSUME Typing, NEW c \in Client, Connect(c)
    PROVE  Typing'
<1>1. FromClientType'
  <2>1. CASE c \in Publisher
    <3>1. Reach(c, Announcement(FirstRequestId, NamespaceOf[TrackOf[c]]))
      BY <2>1 DEF Connect
    <3>2. FirstRequestId \in Nat /\ NamespaceOf[TrackOf[c]] \in Namespace
      BY Constants DEF FirstRequestId
    <3>3. Announcement(FirstRequestId, NamespaceOf[TrackOf[c]]) \in ToRelay(c)
      BY <2>1, <3>2, Messages, Zenon
    <3> QED
      BY <3>1, <3>3, ReachType, QueuesTyped, Zenon DEF Typing
  <2>2. CASE c \notin Publisher
    BY <2>2 DEF Connect, Typing, QueuesType, FromClientType
  <2> QED
    BY <2>1, <2>2
<1>2. ToClientType' /\ ClientsType' /\ LoopType'
  BY DEF Connect, Typing, QueuesType, ToClientType, ClientsType, LoopType, loopVars, clientVars
<1>3. UNCHANGED relayVars
  BY DEF Connect
<1>4. QueuesType'
  BY <1>1, <1>2, Zenon DEF QueuesType, FromClientType, ToClientType
<1> QED
  BY <1>2, <1>3, <1>4, RelayStays DEF Typing

LEMMA AskType ==
    ASSUME Typing, NEW s \in Subscriber, Ask(s)
    PROVE  Typing'
<1>1. FromClientType'
  <2>1. Reach(s, Subscribe(FirstRequestId, TrackOf[s]))
    BY DEF Ask
  <2>2. s \in Client /\ Subscribe(FirstRequestId, TrackOf[s]) \in ToRelay(s)
    BY Messages, Zenon DEF Client
  <2> QED
    BY <2>1, <2>2, ReachType, QueuesTyped, Zenon DEF Typing
<1>2. ToClientType' /\ ClientsType' /\ LoopType'
  BY DEF Ask, Typing, QueuesType, ToClientType, ClientsType, LoopType, loopVars
<1>3. UNCHANGED relayVars
  BY DEF Ask
<1>4. QueuesType'
  BY <1>1, <1>2, Zenon DEF QueuesType, FromClientType, ToClientType
<1> QED
  BY <1>2, <1>3, <1>4, RelayStays DEF Typing

\* A client takes a message of its queue.
LEMMA ArrivedAt ==
    ASSUME Typing, NEW c \in Client, NEW type, Arrived(c, type)
    PROVE  /\ to_client[c] # << >>
           /\ Head(to_client[c]) \in ToClient
           /\ Head(to_client[c]) \in Msgs(to_client[c])
           /\ Head(to_client[c]).type = type
<1>1. to_client[c] # << >> /\ Head(to_client[c]).type = type
  BY DEF Arrived
<1>2. to_client[c] \in Seq(ToClient)
  BY Zenon DEF Typing, QueuesType
<1> QED
  BY <1>1, <1>2, MsgsTail, Zenon

\* The publisher serves the track it is asked for.
Serving(p) ==
    LET m == Head(to_client[p]) IN
    /\ DOMAIN serving' = Publisher
    /\ \A q \in Publisher : q # p => serving'[q] = serving[q]
    /\ DOMAIN serving'[p] = DOMAIN serving[p] \cup {m.request_id}
    /\ serving'[p][m.request_id] = m.track
    /\ \A id \in DOMAIN serving[p] : id # m.request_id => serving'[p][id] = serving[p][id]
    /\ Sends(to_relay, to_relay', p, Reply("SubscribeOk", m.request_id))
    /\ Takes(to_client, to_client', p)

LEMMA ServingEffect ==
    ASSUME Typing, NEW p \in Publisher, RecvSubscribe(p), ~Lost(p)
    PROVE  /\ Serving(p)
           /\ FromClientType' /\ ToClientType'
           /\ Head(to_client[p]).type = "Subscribe"
           /\ Head(to_client[p]).request_id \in Nat
           /\ Head(to_client[p]).track = TrackOf[p]
           /\ UNCHANGED <<relayVars, loopVars, conn, next_expected, asked, believed, panicked>>
<1> DEFINE m == Head(to_client[p])
<1>0. p \in Client
  BY DEF Client
<1>1. /\ to_client[p] # << >> /\ m \in ToClient /\ m.type = "Subscribe"
  BY <1>0, ArrivedAt DEF RecvSubscribe
<1>2. m.request_id \in Nat
  BY <1>1, ClientMessages, Zenon
<1>3. /\ serving' = [serving EXCEPT ![p] = Put(@, m.request_id, m.track)]
      /\ Reach(p, Reply("SubscribeOk", m.request_id))
      /\ Consume(p)
      /\ m.track = TrackOf[p]
      /\ UNCHANGED <<relayVars, loopVars, conn, next_expected, asked, believed, panicked>>
  BY Zenon DEF RecvSubscribe
<1> HIDE DEF m
<1>4. Reply("SubscribeOk", m.request_id) \in ToRelay(p)
  BY <1>2, Messages, Zenon
<1>5. FromClientType' /\ Sends(to_relay, to_relay', p, Reply("SubscribeOk", m.request_id))
  BY <1>0, <1>3, <1>4, ReachType, QueuesTyped, Zenon DEF Typing
<1>6. ToClientType' /\ Takes(to_client, to_client', p)
  BY <1>0, <1>1, <1>3, ConsumeType, QueuesTyped, Zenon DEF Typing
<1>7. /\ DOMAIN serving' = Publisher
      /\ \A q \in Publisher : q # p => serving'[q] = serving[q]
      /\ serving'[p] = Put(serving[p], m.request_id, m.track)
  BY <1>3 DEF Typing, ClientsType
<1>8. /\ DOMAIN serving'[p] = DOMAIN serving[p] \cup {m.request_id}
      /\ serving'[p][m.request_id] = m.track
      /\ \A id \in DOMAIN serving[p] : id # m.request_id => serving'[p][id] = serving[p][id]
  BY <1>7 DEF Put
<1> QED
  BY <1>1, <1>2, <1>3, <1>5, <1>6, <1>7, <1>8, Zenon DEF Serving, m

LEMMA RecvSubscribeType ==
    ASSUME Typing, NEW p \in Publisher, RecvSubscribe(p)
    PROVE  Typing'
<1>1. CASE Lost(p)
  BY <1>1, LostType DEF Client
<1>2. CASE ~Lost(p)
  <2>1. /\ Serving(p)
        /\ FromClientType' /\ ToClientType'
        /\ Head(to_client[p]).request_id \in Nat
        /\ Head(to_client[p]).track = TrackOf[p]
        /\ UNCHANGED <<relayVars, loopVars, conn, next_expected, asked, believed, panicked>>
    BY <1>2, ServingEffect
  <2>2. \A q \in Publisher : \A id \in DOMAIN serving'[q] :
            id \in Nat /\ serving'[q][id] = TrackOf[q]
    <3>1. \A q \in Publisher : \A id \in DOMAIN serving[q] :
              id \in Nat /\ serving[q][id] = TrackOf[q]
      BY Zenon DEF Typing, ClientsType
    <3>2. \A id \in DOMAIN serving'[p] : id \in Nat /\ serving'[p][id] = TrackOf[p]
      BY <2>1, <3>1 DEF Serving
    <3> QED
      BY <2>1, <3>1, <3>2, Zenon DEF Serving
  <2>3. ClientsType'
    BY <2>1, <2>2 DEF Serving, Typing, ClientsType
  <2>4. LoopType'
    BY <2>1 DEF Typing, LoopType, loopVars
  <2>5. QueuesType'
    BY <2>1, Zenon DEF QueuesType, FromClientType, ToClientType
  <2> QED
    BY <2>1, <2>3, <2>4, <2>5, RelayStays DEF Typing
<1> QED
  BY <1>1, <1>2

\* The publisher ends a track that it serves.
Ending(p, id) ==
    /\ DOMAIN serving' = Publisher
    /\ \A q \in Publisher : q # p => serving'[q] = serving[q]
    /\ DOMAIN serving'[p] = DOMAIN serving[p] \ {id}
    /\ \A n \in DOMAIN serving'[p] : serving'[p][n] = serving[p][n]
    /\ Sends(to_relay, to_relay', p, Reply("PublishDone", id))

LEMMA EndingEffect ==
    ASSUME Typing, NEW p \in Publisher, NEW id \in DOMAIN serving[p], EndTrack(p, id)
    PROVE  Ending(p, id) /\ FromClientType' /\ id \in Nat
<1>0. p \in Client
  BY DEF Client
<1>1. id \in Nat
  BY Zenon DEF Typing, ClientsType
<1>2. /\ serving' = [serving EXCEPT ![p] = Without(@, {id})]
      /\ Reach(p, Reply("PublishDone", id))
  BY DEF EndTrack
<1>3. Reply("PublishDone", id) \in ToRelay(p)
  BY <1>1, Messages, Zenon
<1>4. FromClientType' /\ Sends(to_relay, to_relay', p, Reply("PublishDone", id))
  BY <1>0, <1>2, <1>3, ReachType, QueuesTyped, Zenon DEF Typing
<1>5. /\ DOMAIN serving' = Publisher
      /\ \A q \in Publisher : q # p => serving'[q] = serving[q]
      /\ serving'[p] = Without(serving[p], {id})
  BY <1>2 DEF Typing, ClientsType
<1>6. /\ DOMAIN serving'[p] = DOMAIN serving[p] \ {id}
      /\ \A n \in DOMAIN serving'[p] : serving'[p][n] = serving[p][n]
  BY <1>5 DEF Without
<1> QED
  BY <1>1, <1>4, <1>5, <1>6, Zenon DEF Ending

LEMMA EndTrackType ==
    ASSUME Typing, NEW p \in Publisher, NEW id \in DOMAIN serving[p], EndTrack(p, id)
    PROVE  Typing'
<1>1. Ending(p, id) /\ FromClientType'
  BY EndingEffect
<1>2. UNCHANGED <<relayVars, loopVars, conn, to_client, next_expected, asked, believed, panicked>>
  BY DEF EndTrack
<1>3. ToClientType' /\ LoopType'
  BY <1>2 DEF Typing, QueuesType, ToClientType, LoopType, loopVars
<1>4. \A q \in Publisher : \A n \in DOMAIN serving'[q] :
          n \in Nat /\ serving'[q][n] = TrackOf[q]
  <2>1. \A q \in Publisher : \A n \in DOMAIN serving[q] :
            n \in Nat /\ serving[q][n] = TrackOf[q]
    BY Zenon DEF Typing, ClientsType
  <2>2. \A n \in DOMAIN serving'[p] : n \in Nat /\ serving'[p][n] = TrackOf[p]
    BY <1>1, <2>1 DEF Ending
  <2> QED
    BY <1>1, <2>1, <2>2, Zenon DEF Ending
<1>5. ClientsType'
  BY <1>1, <1>2, <1>4 DEF Ending, Typing, ClientsType
<1>6. QueuesType'
  BY <1>1, <1>3, Zenon DEF QueuesType, FromClientType, ToClientType
<1> QED
  BY <1>2, <1>3, <1>5, <1>6, RelayStays DEF Typing

\* A client is told of a namespace, and a subscriber accepts.
Learning(c) ==
    LET m == Head(to_client[c]) IN
    /\ DOMAIN believed' = Subscriber
    /\ \A s \in Subscriber : s # c => believed'[s] = believed[s]
    /\ c \in Subscriber =>
           /\ DOMAIN believed'[c] = DOMAIN believed[c] \cup {m.request_id}
           /\ believed'[c][m.request_id] = m.namespace
           /\ \A id \in DOMAIN believed[c] : id # m.request_id => believed'[c][id] = believed[c][id]
           /\ Sends(to_relay, to_relay', c, Reply("PublishOk", m.request_id))
    /\ c \notin Subscriber => UNCHANGED to_relay
    /\ Takes(to_client, to_client', c)

LEMMA LearningEffect ==
    ASSUME Typing, NEW c \in Client, RecvAnnouncement(c), ~Lost(c)
    PROVE  /\ Learning(c)
           /\ FromClientType' /\ ToClientType'
           /\ next_expected' \in [Client -> Nat]
           /\ Head(to_client[c]).type = "PublishNamespace"
           /\ Head(to_client[c]).request_id \in Nat
           /\ Head(to_client[c]).namespace \in Namespace
           /\ UNCHANGED <<relayVars, loopVars, conn, serving, asked, panicked>>
<1> DEFINE m == Head(to_client[c])
<1>1. /\ to_client[c] # << >> /\ m \in ToClient /\ m.type = "PublishNamespace"
  BY ArrivedAt DEF RecvAnnouncement
<1>2. m.request_id \in Nat /\ m.namespace \in Namespace
  BY <1>1, ClientMessages, Zenon
<1>3. /\ next_expected' = [next_expected EXCEPT ![c] = @ + 2]
      /\ c \in Subscriber =>
            /\ believed' = [believed EXCEPT ![c] = Put(@, m.request_id, m.namespace)]
            /\ Reach(c, Reply("PublishOk", m.request_id))
      /\ c \notin Subscriber => UNCHANGED <<believed, to_relay>>
      /\ Consume(c)
      /\ UNCHANGED <<relayVars, loopVars, conn, serving, asked, panicked>>
  BY Zenon DEF RecvAnnouncement
<1> HIDE DEF m
<1>4. ToClientType' /\ Takes(to_client, to_client', c)
  BY <1>1, <1>3, ConsumeType, QueuesTyped, Zenon DEF Typing
<1>5. next_expected' \in [Client -> Nat]
  BY <1>3 DEF Typing, ClientsType
<1>6. DOMAIN believed = Subscriber
  BY DEF Typing, ClientsType
<1>7. CASE c \in Subscriber
  <2>1. Reply("PublishOk", m.request_id) \in ToRelay(c)
    BY <1>2, <1>7, Messages, Zenon
  <2>2. FromClientType' /\ Sends(to_relay, to_relay', c, Reply("PublishOk", m.request_id))
    BY <1>3, <1>7, <2>1, ReachType, QueuesTyped, Zenon DEF Typing
  <2>3. /\ DOMAIN believed' = Subscriber
        /\ \A s \in Subscriber : s # c => believed'[s] = believed[s]
        /\ believed'[c] = Put(believed[c], m.request_id, m.namespace)
    BY <1>3, <1>6, <1>7
  <2>4. /\ DOMAIN believed'[c] = DOMAIN believed[c] \cup {m.request_id}
        /\ believed'[c][m.request_id] = m.namespace
        /\ \A id \in DOMAIN believed[c] : id # m.request_id => believed'[c][id] = believed[c][id]
    BY <2>3 DEF Put
  <2> QED
    BY <1>1, <1>2, <1>3, <1>4, <1>5, <1>7, <2>2, <2>3, <2>4, Zenon DEF Learning, m
<1>8. CASE c \notin Subscriber
  <2>1. FromClientType'
    BY <1>3, <1>8 DEF Typing, QueuesType, FromClientType
  <2>2. believed' = believed /\ to_relay' = to_relay
    BY <1>3, <1>8
  <2> QED
    BY <1>1, <1>2, <1>3, <1>4, <1>5, <1>6, <1>8, <2>1, <2>2, Zenon DEF Learning, m
<1> QED
  BY <1>7, <1>8

LEMMA RecvAnnouncementType ==
    ASSUME Typing, NEW c \in Client, RecvAnnouncement(c)
    PROVE  Typing'
<1>1. CASE Lost(c)
  BY <1>1, LostType
<1>2. CASE ~Lost(c)
  <2>1. /\ Learning(c)
        /\ FromClientType' /\ ToClientType'
        /\ next_expected' \in [Client -> Nat]
        /\ Head(to_client[c]).request_id \in Nat
        /\ Head(to_client[c]).namespace \in Namespace
        /\ UNCHANGED <<relayVars, loopVars, conn, serving, asked, panicked>>
    BY <1>2, LearningEffect
  <2>2. ClientsType'
    <3>1. \A s \in Subscriber : \A id \in DOMAIN believed[s] :
              id \in Nat /\ believed[s][id] \in Namespace
      BY Zenon DEF Typing, ClientsType
    <3>2. c \in Subscriber => \A id \in DOMAIN believed'[c] :
              id \in Nat /\ believed'[c][id] \in Namespace
      BY <2>1, <3>1 DEF Learning
    <3>3. \A s \in Subscriber : \A id \in DOMAIN believed'[s] :
              id \in Nat /\ believed'[s][id] \in Namespace
      BY <2>1, <3>1, <3>2, Zenon DEF Learning
    <3> QED
      BY <2>1, <3>3 DEF Learning, Typing, ClientsType
  <2>3. LoopType'
    BY <2>1 DEF Typing, LoopType, loopVars
  <2>4. QueuesType'
    BY <2>1, Zenon DEF QueuesType, FromClientType, ToClientType
  <2> QED
    BY <2>1, <2>2, <2>3, <2>4, RelayStays DEF Typing
<1> QED
  BY <1>1, <1>2

\* A client is told that a namespace is gone.
Forgetting(s) ==
    /\ DOMAIN believed' = Subscriber
    /\ \A u \in Subscriber : u # s => believed'[u] = believed[u]
    /\ DOMAIN believed'[s] = DOMAIN believed[s] \ {Head(to_client[s]).request_id}
    /\ \A id \in DOMAIN believed'[s] : believed'[s][id] = believed[s][id]
    /\ Takes(to_client, to_client', s)

LEMMA ForgettingEffect ==
    ASSUME Typing, NEW s \in Subscriber, RecvWithdrawal(s)
    PROVE  Forgetting(s) /\ ToClientType' /\ Head(to_client[s]).type = "PublishNamespaceDone"
<1> DEFINE id == Head(to_client[s]).request_id
<1>0. s \in Client
  BY DEF Client
<1>1. to_client[s] # << >> /\ Head(to_client[s]).type = "PublishNamespaceDone"
  BY <1>0, ArrivedAt DEF RecvWithdrawal
<1>2. believed' = [believed EXCEPT ![s] = Without(@, {id})] /\ Consume(s)
  BY DEF RecvWithdrawal
<1> HIDE DEF id
<1>3. ToClientType' /\ Takes(to_client, to_client', s)
  BY <1>0, <1>1, <1>2, ConsumeType, QueuesTyped, Zenon DEF Typing
<1>4. /\ DOMAIN believed' = Subscriber
      /\ \A u \in Subscriber : u # s => believed'[u] = believed[u]
      /\ believed'[s] = Without(believed[s], {id})
  BY <1>2 DEF Typing, ClientsType
<1>5. /\ DOMAIN believed'[s] = DOMAIN believed[s] \ {id}
      /\ \A n \in DOMAIN believed'[s] : believed'[s][n] = believed[s][n]
  BY <1>4 DEF Without
<1> QED
  BY <1>1, <1>3, <1>4, <1>5, Zenon DEF Forgetting, id

LEMMA RecvWithdrawalType ==
    ASSUME Typing, NEW s \in Subscriber, RecvWithdrawal(s)
    PROVE  Typing'
<1>1. Forgetting(s) /\ ToClientType'
  BY ForgettingEffect
<1>2. UNCHANGED <<relayVars, loopVars, conn, to_relay, next_expected, serving, asked, panicked>>
  BY DEF RecvWithdrawal
<1>3. FromClientType' /\ LoopType'
  BY <1>2 DEF Typing, QueuesType, FromClientType, LoopType, loopVars
<1>4. ClientsType'
  <2>1. \A u \in Subscriber : \A id \in DOMAIN believed[u] :
            id \in Nat /\ believed[u][id] \in Namespace
    BY Zenon DEF Typing, ClientsType
  <2>2. \A id \in DOMAIN believed'[s] : id \in Nat /\ believed'[s][id] \in Namespace
    BY <1>1, <2>1 DEF Forgetting
  <2>3. \A u \in Subscriber : \A id \in DOMAIN believed'[u] :
            id \in Nat /\ believed'[u][id] \in Namespace
    BY <1>1, <2>1, <2>2, Zenon DEF Forgetting
  <2> QED
    BY <1>1, <1>2, <2>3 DEF Forgetting, Typing, ClientsType
<1>5. QueuesType'
  BY <1>1, <1>3, Zenon DEF QueuesType, FromClientType, ToClientType
<1> QED
  BY <1>2, <1>3, <1>4, <1>5, RelayStays DEF Typing

\* A subscriber is told what becomes of its request.
Hearing(s) ==
    LET type == Head(to_client[s]).type IN
    /\ type \in {"SubscribeOk", "PublishDone"}
    /\ asked' \in [Subscriber -> {"no", "waiting", "accepted", "done"}]
    /\ \A u \in Subscriber : u # s => asked'[u] = asked[u]
    /\ type = "SubscribeOk" => asked'[s] = "accepted"
    /\ type # "SubscribeOk" /\ asked[s] = "accepted" => asked'[s] = "done"
    /\ type # "SubscribeOk" /\ asked[s] # "accepted" => asked'[s] = asked[s]
    /\ Takes(to_client, to_client', s)

LEMMA HearingEffect ==
    ASSUME Typing, NEW s \in Subscriber, RecvAnswer(s)
    PROVE  /\ Hearing(s) /\ ToClientType'
           /\ UNCHANGED <<relayVars, loopVars, conn, to_relay, next_expected, serving, believed,
                          panicked>>
<1>0. s \in Client
  BY DEF Client
<1>1. PICK type \in {"SubscribeOk", "PublishDone"} :
          /\ Arrived(s, type)
          /\ asked' = [asked EXCEPT ![s] =
                          IF type = "SubscribeOk" THEN "accepted"
                          ELSE IF @ = "accepted" THEN "done" ELSE @]
          /\ Consume(s)
          /\ UNCHANGED <<relayVars, loopVars, conn, to_relay, next_expected, serving, believed,
                         panicked>>
  BY Zenon DEF RecvAnswer
<1>2. to_client[s] # << >> /\ Head(to_client[s]).type = type
  BY <1>0, <1>1, ArrivedAt
<1>3. ToClientType' /\ Takes(to_client, to_client', s)
  BY <1>0, <1>1, <1>2, ConsumeType, QueuesTyped, Zenon DEF Typing
<1>4. /\ asked' \in [Subscriber -> {"no", "waiting", "accepted", "done"}]
      /\ \A u \in Subscriber : u # s => asked'[u] = asked[u]
      /\ type = "SubscribeOk" => asked'[s] = "accepted"
      /\ type # "SubscribeOk" /\ asked[s] = "accepted" => asked'[s] = "done"
      /\ type # "SubscribeOk" /\ asked[s] # "accepted" => asked'[s] = asked[s]
  BY <1>1 DEF Typing, ClientsType
<1> QED
  BY <1>1, <1>2, <1>3, <1>4, Zenon DEF Hearing

LEMMA RecvAnswerType ==
    ASSUME Typing, NEW s \in Subscriber, RecvAnswer(s)
    PROVE  Typing'
<1>1. /\ Hearing(s) /\ ToClientType'
      /\ UNCHANGED <<relayVars, loopVars, conn, to_relay, next_expected, serving, believed, panicked>>
  BY HearingEffect
<1>2. FromClientType' /\ LoopType'
  BY <1>1 DEF Typing, QueuesType, FromClientType, LoopType, loopVars
<1>3. ClientsType'
  BY <1>1 DEF Hearing, Typing, ClientsType
<1>4. QueuesType'
  BY <1>1, <1>2, Zenon DEF QueuesType, FromClientType, ToClientType
<1> QED
  BY <1>1, <1>2, <1>3, <1>4, RelayStays DEF Typing

(***************************************************************************)
(* All steps.                                                              *)
(***************************************************************************)

LEMMA TypingStep ==
    ASSUME Typing, [Next]_vars
    PROVE  Typing'
<1>1. ASSUME UNCHANGED vars PROVE Typing'
  BY <1>1 DEF vars, relayVars, loopVars, clientVars, Typing, NamespacesType, SubscriptionsType,
              SessionsType, AnnouncedType, QueuesType, ClientsType, LoopType
<1>2. ASSUME Cleanup PROVE Typing'
  BY <1>2, CleanupType
<1>3. ASSUME NEW c \in Client, Receive(c) PROVE Typing'
  BY <1>3, ReceiveType
<1>4. ASSUME NEW c \in Client, ReceiveFault(c) PROVE Typing'
  BY <1>4, PanicType DEF ReceiveFault
<1>5. ASSUME NEW c \in Client, NEW ns \in Namespace, Withdraw(c, ns) PROVE Typing'
  BY <1>5, WithdrawType
<1>6. ASSUME NEW c \in Client, NEW ns \in Namespace, Announce(c, ns) PROVE Typing'
  BY <1>6, AnnounceType
<1>7. ASSUME NEW t \in Track, Request(t) PROVE Typing'
  BY <1>7, RequestType
<1>8. ASSUME Respond PROVE Typing'
  BY <1>8, RespondType
<1>9. ASSUME Accept PROVE Typing'
  BY <1>9, AcceptType
<1>10. ASSUME Finish PROVE Typing'
  BY <1>10, FinishType
<1>11. ASSUME Forward PROVE Typing'
  BY <1>11, ForwardType
<1>12. ASSUME NEW c \in Client, Connect(c) PROVE Typing'
  BY <1>12, ConnectType
<1>13. ASSUME NEW c \in Client, Close(c) PROVE Typing'
  BY <1>13, LostType DEF Close
<1>14. ASSUME NEW c \in Client, Recv(c) PROVE Typing'
  BY <1>14, RecvAnnouncementType, RecvSubscribeType, RecvWithdrawalType, RecvAnswerType DEF Recv
<1>15. ASSUME NEW s \in Subscriber, Ask(s) PROVE Typing'
  BY <1>15, AskType
<1>16. ASSUME NEW p \in Publisher, NEW id \in DOMAIN serving[p], EndTrack(p, id) PROVE Typing'
  BY <1>16, EndTrackType
<1> QED
  BY <1>1, <1>2, <1>3, <1>4, <1>5, <1>6, <1>7, <1>8, <1>9, <1>10, <1>11, <1>12, <1>13, <1>14,
     <1>15, <1>16, Zenon DEF Next, Loop

\* The inductive part of the types: what the relay's maps, the sessions, the messages on
\* their way and the clients' own maps hold.
THEOREM RelayTyping == Spec => []Typing
<1>1. Init => Typing
  BY InitType
<1>2. Typing /\ [Next]_vars => Typing'
  BY TypingStep
<1> QED
  BY <1>1, <1>2, PTL DEF Spec

=============================================================================
