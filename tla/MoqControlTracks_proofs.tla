----------------------- MODULE MoqControlTracks_proofs -----------------------
(***************************************************************************)
(* What the two sides of a MoqControl session agree on about subscriptions:*)
(* the alias of each track, and when a track has ended.                    *)
(***************************************************************************)
EXTENDS MoqControlSafety_proofs

-----------------------------------------------------------------------------
(* The messages a queue carries.                                           *)

Carried(queue, types) == {queue[i] : i \in Places(queue, types)}

LEMMA CarriedIds ==
    ASSUME NEW q, NEW types
    PROVE  Ids(q, types) = {m.request_id : m \in Carried(q, types)}
  BY DEF Ids, Carried

LEMMA AppendQueue ==
    ASSUME NEW q \in Seq(Message), NEW m \in Message
    PROVE  /\ Len(q) \in Nat
           /\ DOMAIN q = 1..Len(q)
           /\ DOMAIN Append(q, m) = 1..Len(q) + 1
           /\ \A i \in 1..Len(q) : Append(q, m)[i] = q[i]
           /\ Append(q, m)[Len(q) + 1] = m
  BY AppendProperties, LenProperties

LEMMA TailQueue ==
    ASSUME NEW q \in Seq(Message), q # << >>
    PROVE  /\ Len(q) \in Nat \ {0}
           /\ DOMAIN q = 1..Len(q)
           /\ DOMAIN Tail(q) = 1..Len(q) - 1
           /\ \A i \in 1..Len(q) - 1 : Tail(q)[i] = q[i + 1]
           /\ Head(q) = q[1]
  BY HeadTailProperties, LenProperties

LEMMA CarriedAppend ==
    ASSUME NEW q \in Seq(Message), NEW m \in Message, NEW types
    PROVE  /\ m.type \in types => Carried(Append(q, m), types) = Carried(q, types) \cup {m}
           /\ m.type \notin types => Carried(Append(q, m), types) = Carried(q, types)
<1> DEFINE r == Append(q, m)
<1>1. /\ Len(q) \in Nat
      /\ DOMAIN q = 1..Len(q)
      /\ DOMAIN r = 1..Len(q) + 1
      /\ \A i \in 1..Len(q) : r[i] = q[i]
      /\ r[Len(q) + 1] = m
  BY AppendQueue
<1> HIDE DEF r
<1>2. CASE m.type \in types
  <2>1. Places(r, types) = Places(q, types) \cup {Len(q) + 1}
    BY <1>1, <1>2 DEF Places
  <2>2. \A i \in Places(q, types) : r[i] = q[i]
    BY <1>1 DEF Places
  <2>3. Carried(r, types) = Carried(q, types) \cup {m}
    BY <1>1, <2>1, <2>2 DEF Carried
  <2> QED
    BY <1>2, <2>3 DEF r
<1>3. CASE m.type \notin types
  <2>1. Places(r, types) = Places(q, types)
    BY <1>1, <1>3 DEF Places
  <2>2. \A i \in Places(q, types) : r[i] = q[i]
    BY <1>1 DEF Places
  <2>3. Carried(r, types) = Carried(q, types)
    BY <2>1, <2>2 DEF Carried
  <2> QED
    BY <1>3, <2>3 DEF r
<1> QED
  BY <1>2, <1>3

LEMMA CarriedTail ==
    ASSUME NEW q \in Seq(Message), q # << >>, NEW types
    PROVE  /\ Head(q).type \in types => Carried(q, types) = Carried(Tail(q), types) \cup {Head(q)}
           /\ Head(q).type \notin types => Carried(q, types) = Carried(Tail(q), types)
           /\ Carried(Tail(q), types) \subseteq Carried(q, types)
<1> DEFINE r == Tail(q)
<1>1. /\ Len(q) \in Nat \ {0}
      /\ DOMAIN q = 1..Len(q)
      /\ DOMAIN r = 1..Len(q) - 1
      /\ \A i \in 1..Len(q) - 1 : r[i] = q[i + 1]
      /\ Head(q) = q[1]
  BY TailQueue
<1> HIDE DEF r
<1>2. /\ \A i \in Places(r, types) : i + 1 \in Places(q, types) /\ r[i] = q[i + 1]
      /\ \A i \in Places(q, types) \ {1} : i - 1 \in Places(r, types) /\ r[i - 1] = q[i]
  BY <1>1 DEF Places
<1>3. 1 \in Places(q, types) <=> Head(q).type \in types
  BY <1>1 DEF Places
<1>4. Carried(r, types) \subseteq Carried(q, types)
  BY <1>2 DEF Carried
<1>5. Head(q).type \in types => Head(q) \in Carried(q, types)
  BY <1>1, <1>3 DEF Carried
<1>6. Carried(q, types) \subseteq
        Carried(r, types) \cup (IF Head(q).type \in types THEN {Head(q)} ELSE {})
  BY <1>1, <1>2, <1>3 DEF Carried
<1> QED
  BY <1>4, <1>5, <1>6 DEF r

\* Every PUBLISH_DONE of the queue is for a subscription of A, or follows the
\* SUBSCRIBE_OK of its subscription.
Followed(queue, A) ==
    \A i \in Places(queue, {"PublishDone"}) :
        \/ queue[i].request_id \in A
        \/ \E j \in Places(queue, {"SubscribeOk"}) :
              j < i /\ queue[j].request_id = queue[i].request_id

LEMMA FollowedAppend ==
    ASSUME NEW q \in Seq(Message), NEW m \in Message, NEW A, Followed(q, A),
           m.type = "PublishDone" => m.request_id \in A \cup Ids(q, {"SubscribeOk"})
    PROVE  Followed(Append(q, m), A)
<1> DEFINE r == Append(q, m)
<1>1. /\ Len(q) \in Nat
      /\ DOMAIN q = 1..Len(q)
      /\ DOMAIN r = 1..Len(q) + 1
      /\ \A i \in 1..Len(q) : r[i] = q[i]
      /\ r[Len(q) + 1] = m
  BY AppendQueue
<1> HIDE DEF r
<1>2. \A j \in Places(q, {"SubscribeOk"}) :
         j \in Places(r, {"SubscribeOk"}) /\ r[j] = q[j] /\ j < Len(q) + 1
  BY <1>1 DEF Places
<1> SUFFICES ASSUME NEW i \in Places(r, {"PublishDone"}), r[i].request_id \notin A
             PROVE  \E j \in Places(r, {"SubscribeOk"}) :
                       j < i /\ r[j].request_id = r[i].request_id
  BY DEF Followed, r
<1>3. CASE i = Len(q) + 1
  <2>1. m.request_id \in Ids(q, {"SubscribeOk"})
    BY <1>1, <1>3 DEF Places
  <2> QED
    BY <1>1, <1>2, <1>3, <2>1 DEF Ids
<1>4. CASE i # Len(q) + 1
  <2>1. i \in Places(q, {"PublishDone"}) /\ r[i] = q[i]
    BY <1>1, <1>4 DEF Places
  <2> QED
    BY <1>2, <2>1 DEF Followed
<1> QED
  BY <1>3, <1>4

LEMMA FollowedTail ==
    ASSUME NEW q \in Seq(Message), q # << >>, NEW A, Followed(q, A)
    PROVE  /\ Head(q).type = "PublishDone" => Head(q).request_id \in A
           /\ Followed(Tail(q), A \cup (IF Head(q).type = "SubscribeOk"
                                        THEN {Head(q).request_id} ELSE {}))
<1> DEFINE r == Tail(q)
           B == A \cup (IF Head(q).type = "SubscribeOk" THEN {Head(q).request_id} ELSE {})
<1>1. /\ Len(q) \in Nat \ {0}
      /\ DOMAIN q = 1..Len(q)
      /\ DOMAIN r = 1..Len(q) - 1
      /\ \A i \in 1..Len(q) - 1 : r[i] = q[i + 1]
      /\ Head(q) = q[1]
  BY TailQueue
<1> HIDE DEF r
<1>2. \A i \in Places(r, {"PublishDone"}) :
         /\ i \in Nat
         /\ i + 1 \in Places(q, {"PublishDone"})
         /\ r[i] = q[i + 1]
  BY <1>1 DEF Places
<1>3. \A j \in Places(q, {"SubscribeOk"}) \ {1} :
         /\ j \in Nat
         /\ j - 1 \in Places(r, {"SubscribeOk"})
         /\ r[j - 1] = q[j]
  BY <1>1 DEF Places
<1>4. 1 \in Places(q, {"SubscribeOk"}) => q[1].request_id \in B
  BY <1>1 DEF Places
<1>5. A \subseteq B
  OBVIOUS
<1> HIDE DEF B
<1>6. ASSUME NEW i \in Places(r, {"PublishDone"}), r[i].request_id \notin B
      PROVE  \E j \in Places(r, {"SubscribeOk"}) :
                j < i /\ r[j].request_id = r[i].request_id
  <2>1. q[i + 1].request_id \notin A /\ i + 1 \in Places(q, {"PublishDone"})
    BY <1>2, <1>5, <1>6
  <2>2. PICK j \in Places(q, {"SubscribeOk"}) :
                j < i + 1 /\ q[j].request_id = q[i + 1].request_id
    BY <2>1 DEF Followed
  <2>3. j # 1
    BY <1>2, <1>4, <1>6, <2>2
  <2>4. j - 1 < i /\ j - 1 \in Places(r, {"SubscribeOk"}) /\ r[j - 1] = q[j]
    BY <1>2, <1>3, <2>2, <2>3
  <2> QED
    BY <1>2, <2>2, <2>4
<1>7. Followed(r, B)
  BY <1>6 DEF Followed
<1>8. ASSUME Head(q).type = "PublishDone" PROVE Head(q).request_id \in A
  <2>1. 1 \in Places(q, {"PublishDone"})
    BY <1>1, <1>8 DEF Places
  <2>2. \A j \in Places(q, {"SubscribeOk"}) : ~(j < 1)
    BY <1>1 DEF Places
  <2> QED
    BY <1>1, <2>1, <2>2 DEF Followed
<1> QED
  BY <1>7, <1>8 DEF r, B

-----------------------------------------------------------------------------
(* Subscriptions and their tracks.                                         *)

Oks(e) == Carried(control[e], {"SubscribeOk"})

\* What the publisher accepted, its SUBSCRIBE_OK and what the subscriber made of
\* it are one map from request ids to aliases, which only grows with fresh ids.
TrackInv(e) ==
    /\ \A m \in Oks(e) : /\ m.request_id \in DOMAIN accepted[Peer(e)]
                         /\ AgreedAlias(m) = accepted[Peer(e)][m.request_id]
    /\ \A id \in DOMAIN active_subscriptions[e] :
          /\ id \in DOMAIN accepted[Peer(e)]
          /\ active_subscriptions[e][id] = accepted[Peer(e)][id]
    /\ DOMAIN in_tracks[e] =
          {active_subscriptions[e][id] : id \in DOMAIN active_subscriptions[e]}
    /\ DOMAIN active_subscriptions[e] \cap pending_subscribe[e] = {}
    /\ (Asked(e) \cup Held(e)) \cap DOMAIN accepted[Peer(e)] = {}
    /\ \A id \in DOMAIN accepted[Peer(e)] :
          /\ id < next_request_id[e]
          /\ accepted[Peer(e)][id] \in out_tracks[Peer(e)]
          /\ IF SubscriberChoosesAlias
             THEN accepted[Peer(e)][id] = id
             ELSE accepted[Peer(e)][id] < next_out_track_alias[Peer(e)]
    /\ \A i, j \in DOMAIN accepted[Peer(e)] :
          accepted[Peer(e)][i] = accepted[Peer(e)][j] => i = j

\* The subscriber knows what was accepted, or the SUBSCRIBE_OK is under way, and
\* it is ahead of the PUBLISH_DONE.
DoneInv(e) ==
    /\ DOMAIN accepted[Peer(e)] \subseteq
          DOMAIN active_subscriptions[e] \cup Ids(control[e], {"SubscribeOk"})
    /\ Followed(control[e], DOMAIN active_subscriptions[e])

\* One queue after a step that neither brings a SUBSCRIBE, a SUBSCRIBE_OK or a
\* PUBLISH_DONE nor takes a SUBSCRIBE_OK out.
QuietQueue(q, r) ==
    \/ r = q
    \/ q # << >> /\ Head(q).type # "SubscribeOk" /\ r = Tail(q)
    \/ \E m \in Message : /\ m.type \notin {"Subscribe", "SubscribeOk", "PublishDone"}
                          /\ r = Append(q, m)

\* A step that is of no concern to the tracks.
QuietStep ==
    /\ UNCHANGED <<active_subscriptions, accepted, out_tracks, next_out_track_alias>>
    /\ \A x \in Endpoint :
          /\ QuietQueue(control[x], control'[x])
          /\ pending_subscribe'[x] \subseteq pending_subscribe[x]
          /\ DOMAIN in_tracks'[x] = DOMAIN in_tracks[x]
          /\ Held(x)' \subseteq Held(x) \cup Asked(x)
          /\ next_request_id[x] <= next_request_id'[x]

LEMMA QuietCarried ==
    ASSUME NEW q \in Seq(Message), NEW r, QuietQueue(q, r)
    PROVE  /\ Carried(r, {"SubscribeOk"}) = Carried(q, {"SubscribeOk"})
           /\ Carried(r, {"Subscribe"}) \subseteq Carried(q, {"Subscribe"})
           /\ \A A : Followed(q, A) => Followed(r, A)
<1>1. CASE r = q
  BY <1>1
<1>2. CASE q # << >> /\ Head(q).type # "SubscribeOk" /\ r = Tail(q)
  <2>1. /\ Carried(q, {"SubscribeOk"}) = Carried(r, {"SubscribeOk"})
        /\ Carried(r, {"Subscribe"}) \subseteq Carried(q, {"Subscribe"})
    <3>1. Head(q).type \notin {"SubscribeOk"}
      BY <1>2
    <3> QED
      BY <1>2, <3>1, CarriedTail
  <2>2. ASSUME NEW A, Followed(q, A) PROVE Followed(r, A)
    <3>1. A \cup (IF Head(q).type = "SubscribeOk" THEN {Head(q).request_id} ELSE {}) = A
      BY <1>2
    <3> QED
      BY <1>2, <2>2, <3>1, FollowedTail
  <2> QED
    BY <2>1, <2>2
<1>3. ASSUME NEW m \in Message, m.type \notin {"Subscribe", "SubscribeOk", "PublishDone"},
             r = Append(q, m)
      PROVE  /\ Carried(r, {"SubscribeOk"}) = Carried(q, {"SubscribeOk"})
             /\ Carried(r, {"Subscribe"}) \subseteq Carried(q, {"Subscribe"})
             /\ \A A : Followed(q, A) => Followed(r, A)
  <2>1. /\ Carried(r, {"SubscribeOk"}) = Carried(q, {"SubscribeOk"})
        /\ Carried(r, {"Subscribe"}) = Carried(q, {"Subscribe"})
    <3>1. m.type \notin {"SubscribeOk"} /\ m.type \notin {"Subscribe"}
      BY <1>3
    <3> QED
      BY <1>3, <3>1, CarriedAppend
  <2>2. ASSUME NEW A, Followed(q, A) PROVE Followed(r, A)
    BY <1>3, <2>2, FollowedAppend
  <2> QED
    BY <2>1, <2>2
<1> QED
  BY <1>1, <1>2, <1>3 DEF QuietQueue

LEMMA QuietTracks ==
    ASSUME TypeOK, TypeOK', QuietStep, NEW x \in Endpoint, TrackInv(x), DoneInv(x)
    PROVE  TrackInv(x)' /\ DoneInv(x)'
<1>1. control[x] \in Seq(Message) /\ control[Peer(x)] \in Seq(Message)
  BY PeerType DEF TypeOK
<1>2. /\ Carried(control'[x], {"SubscribeOk"}) = Carried(control[x], {"SubscribeOk"})
      /\ \A A : Followed(control[x], A) => Followed(control'[x], A)
  BY <1>1, QuietCarried DEF QuietStep
<1>3. Carried(control'[Peer(x)], {"Subscribe"}) \subseteq Carried(control[Peer(x)], {"Subscribe"})
  BY <1>1, QuietCarried, PeerType DEF QuietStep
<1>4. Oks(x)' = Oks(x)
  BY <1>2 DEF Oks
<1>5. Ids(control'[x], {"SubscribeOk"}) = Ids(control[x], {"SubscribeOk"})
  BY <1>2, CarriedIds
<1>6. Asked(x)' \subseteq Asked(x)
  BY <1>3, CarriedIds DEF Asked
<1>7. (Asked(x) \cup Held(x))' \subseteq Asked(x) \cup Held(x)
  BY <1>6 DEF QuietStep
<1>8. /\ active_subscriptions'[x] = active_subscriptions[x]
      /\ accepted'[Peer(x)] = accepted[Peer(x)]
      /\ out_tracks'[Peer(x)] = out_tracks[Peer(x)]
      /\ next_out_track_alias'[Peer(x)] = next_out_track_alias[Peer(x)]
      /\ DOMAIN in_tracks'[x] = DOMAIN in_tracks[x]
      /\ pending_subscribe'[x] \subseteq pending_subscribe[x]
  BY DEF QuietStep
<1>9. \A id \in DOMAIN accepted[Peer(x)] :
         id < next_request_id[x] => id < next_request_id'[x]
  <2>1. DOMAIN accepted[Peer(x)] \subseteq Nat /\ next_request_id[x] \in Nat
    BY PeerType DEF TypeOK, Maps
  <2>2. next_request_id[x] <= next_request_id'[x] /\ next_request_id'[x] \in Nat
    BY DEF QuietStep, TypeOK
  <2> QED
    BY <2>1, <2>2
<1>10. TrackInv(x)'
  BY <1>4, <1>7, <1>8, <1>9 DEF TrackInv
<1>11. DoneInv(x)'
  BY <1>2, <1>5, <1>8 DEF DoneInv
<1> QED
  BY <1>10, <1>11

LEMMA SentQueue ==
    ASSUME TypeOK, NEW e \in Endpoint, NEW m \in Message, Send(e, m)
    PROVE  /\ control[e] \in Seq(Message) /\ control[Peer(e)] \in Seq(Message)
           /\ control'[Peer(e)] = Append(control[Peer(e)], m)
           /\ control'[e] = control[e]
  BY PeerType DEF TypeOK, Send

LEMMA ConsumedQueue ==
    ASSUME TypeOK, NEW e \in Endpoint, Consume(e)
    PROVE  /\ control[e] \in Seq(Message) /\ control[Peer(e)] \in Seq(Message)
           /\ control'[e] = Tail(control[e])
           /\ control'[Peer(e)] = control[Peer(e)]
  BY PeerType DEF TypeOK, Consume

LEMMA OneOfTwo ==
    ASSUME NEW e \in Endpoint, NEW x \in Endpoint
    PROVE  x = e \/ x = Peer(e)
  BY DEF Endpoint, Peer

\* A sent message of another type leaves the answers in a queue as they are.
LEMMA OtherSent ==
    ASSUME TypeOK, NEW e \in Endpoint, NEW m \in Message, Send(e, m), m.type # "SubscribeOk",
           NEW x \in Endpoint, NEW A,
           x = Peer(e) /\ m.type = "PublishDone"
               => m.request_id \in A \cup Ids(control[x], {"SubscribeOk"})
    PROVE  /\ Oks(x)' = Oks(x)
           /\ Ids(control'[x], {"SubscribeOk"}) = Ids(control[x], {"SubscribeOk"})
           /\ Followed(control[x], A) => Followed(control'[x], A)
<1>1. CASE x = e
  BY <1>1, SentQueue DEF Oks
<1>2. CASE x = Peer(e)
  <2>1. control[x] \in Seq(Message) /\ control'[x] = Append(control[x], m)
    BY <1>2, SentQueue
  <2>2. Carried(control'[x], {"SubscribeOk"}) = Carried(control[x], {"SubscribeOk"})
    <3>1. m.type \notin {"SubscribeOk"}
      OBVIOUS
    <3> QED
      BY <2>1, <3>1, CarriedAppend
  <2>3. Ids(control'[x], {"SubscribeOk"}) = Ids(control[x], {"SubscribeOk"})
    BY <2>2, CarriedIds
  <2>4. Followed(control[x], A) => Followed(control'[x], A)
    BY <1>2, <2>1, FollowedAppend
  <2> QED
    BY <2>2, <2>3, <2>4 DEF Oks
<1> QED
  BY <1>1, <1>2, OneOfTwo

\* subscribe() asks with an id that the publisher has not seen.
LEMMA SubscribeTracks ==
    ASSUME TypeOK, RequestInv, NEW e \in Endpoint, SubscribeCall(e),
           NEW x \in Endpoint, TrackInv(x), DoneInv(x)
    PROVE  TrackInv(x)' /\ DoneInv(x)'
<1> DEFINE id == next_request_id[e]
           m == Subscribe(id)
<1>1. id \in Nat /\ m \in Message /\ m.type = "Subscribe" /\ m.request_id = id
  <2>1. id \in Nat
    BY DEF TypeOK
  <2> QED
    BY <2>1, ConstructorsType DEF Subscribe
<1>2. /\ Send(e, m)
      /\ pending_subscribe' = [pending_subscribe EXCEPT ![e] = @ \cup {id}]
      /\ next_request_id' = [next_request_id EXCEPT ![e] = id + 2]
      /\ UNCHANGED <<active_subscriptions, in_tracks, accepted, out_tracks,
                     next_out_track_alias, pending_received_subscriptions>>
  BY DEF SubscribeCall, publisherVars
<1> HIDE DEF m, id
<1>3. Oks(x)' = Oks(x) /\ Ids(control'[x], {"SubscribeOk"}) = Ids(control[x], {"SubscribeOk"})
  BY <1>1, <1>2, OtherSent
<1>4. Followed(control[x], DOMAIN active_subscriptions[x])
         => Followed(control'[x], DOMAIN active_subscriptions[x])
  BY <1>1, <1>2, OtherSent
<1>5. (Asked(x) \cup Held(x))' \subseteq Asked(x) \cup Held(x) \cup (IF x = e THEN {id} ELSE {})
  <2>1. Held(x)' = Held(x)
    BY <1>2 DEF Held
  <2>2. CASE x = e
    <3>1. Single(control[Peer(x)], {"Subscribe"})
      BY DEF RequestInv, RequestsBacked
    <3>2. Asked(x)' = Asked(x) \cup {id}
      BY <1>1, <1>2, <2>2, SendIds, PeerType DEF Asked
    <3> QED
      BY <2>1, <2>2, <3>2
  <2>3. CASE x # e
    <3>1. Peer(x) = e
      BY <2>3, OneOfTwo, PeerType
    <3>2. Asked(x)' = Asked(x)
      BY <1>1, <1>2, <3>1, SentQueue DEF Asked
    <3> QED
      BY <2>1, <3>2
  <2> QED
    BY <2>2, <2>3
<1>6. DOMAIN accepted[Peer(x)] \subseteq Nat /\ next_request_id[x] \in Nat
  BY PeerType DEF TypeOK, Maps
<1>7. x = e => id \notin DOMAIN accepted[Peer(x)] /\ id \notin DOMAIN active_subscriptions[x]
  BY <1>1, <1>6 DEF TrackInv, id
<1>8. /\ active_subscriptions'[x] = active_subscriptions[x]
      /\ accepted'[Peer(x)] = accepted[Peer(x)]
      /\ out_tracks'[Peer(x)] = out_tracks[Peer(x)]
      /\ next_out_track_alias'[Peer(x)] = next_out_track_alias[Peer(x)]
      /\ in_tracks'[x] = in_tracks[x]
  BY <1>2
<1>9. pending_subscribe'[x] \subseteq pending_subscribe[x] \cup (IF x = e THEN {id} ELSE {})
  BY <1>2 DEF TypeOK
<1>10. \A n \in Nat : n < next_request_id[x] => n < next_request_id'[x]
  BY <1>2 DEF TypeOK, id
<1>11. (Asked(x) \cup Held(x))' \cap DOMAIN accepted'[Peer(x)] = {}
  BY <1>5, <1>7, <1>8 DEF TrackInv
<1>12. DOMAIN active_subscriptions'[x] \cap pending_subscribe'[x] = {}
  BY <1>7, <1>8, <1>9 DEF TrackInv
<1>13. \A i \in DOMAIN accepted'[Peer(x)] : i < next_request_id'[x]
  BY <1>6, <1>8, <1>10 DEF TrackInv
<1>14. TrackInv(x)'
  BY <1>3, <1>8, <1>11, <1>12, <1>13 DEF TrackInv
<1>15. DoneInv(x)'
  BY <1>3, <1>4, <1>8 DEF DoneInv
<1> QED
  BY <1>14, <1>15

\* The publisher's map grows by the request it answers, under an alias of its own.
LEMMA AcceptedMap ==
    ASSUME TypeOK, RequestInv, IdsBelowNext, NEW e \in Endpoint, NEW id,
           AcceptSubscription(e, id), NEW x \in Endpoint, x = Peer(e), TrackInv(x)
    PROVE  /\ id \in Nat /\ id \notin DOMAIN accepted[e]
           /\ id \notin Asked(x) /\ id < next_request_id[x]
           /\ GrantedAlias(e, id) \in Nat
           /\ accepted'[e] = Put(accepted[e], id, GrantedAlias(e, id))
           /\ \A i \in DOMAIN accepted[e] : accepted[e][i] # GrantedAlias(e, id)
<1> DEFINE alias == GrantedAlias(e, id)
<1>1. /\ id \in pending_received_subscriptions[e]
      /\ accepted' = [accepted EXCEPT ![e] = Put(@, id, alias)]
  BY DEF AcceptSubscription
<1>2. Peer(x) = e
  BY PeerType
<1>3. id \in Held(x)
  BY <1>1, <1>2 DEF Held
<1>4. id \notin DOMAIN accepted[e]
  BY <1>2, <1>3 DEF TrackInv
<1>5. id \notin Asked(x) /\ id \in pending_subscribe[x]
  BY <1>3 DEF RequestInv, RequestsBacked
<1>6. id < next_request_id[x]
  BY <1>5 DEF IdsBelowNext
<1>7. id \in Nat
  BY <1>1 DEF TypeOK
<1>8. alias \in Nat
  BY <1>7 DEF GrantedAlias, TypeOK
<1>9. ASSUME NEW i \in DOMAIN accepted[e] PROVE accepted[e][i] # alias
  <2>1. CASE SubscriberChoosesAlias
    BY <1>2, <1>4, <2>1 DEF TrackInv, GrantedAlias
  <2>2. CASE ~SubscriberChoosesAlias
    <3>1. accepted[e][i] < next_out_track_alias[e]
      BY <1>2, <2>2 DEF TrackInv
    <3>2. accepted[e][i] \in Nat /\ next_out_track_alias[e] \in Nat
      BY DEF TypeOK, Maps
    <3> QED
      BY <2>2, <3>1, <3>2 DEF GrantedAlias
  <2> QED
    BY <2>1, <2>2
<1>10. accepted'[e] = Put(accepted[e], id, alias)
  BY <1>1 DEF TypeOK, Maps
<1> QED
  BY <1>4, <1>5, <1>6, <1>7, <1>8, <1>9, <1>10

LEMMA AcceptTracks ==
    ASSUME TypeOK, RequestInv, IdsBelowNext, NEW e \in Endpoint, NEW id,
           AcceptSubscription(e, id), NEW x \in Endpoint, TrackInv(x), DoneInv(x)
    PROVE  TrackInv(x)' /\ DoneInv(x)'
<1> DEFINE alias == GrantedAlias(e, id)
           m == SubscribeOk(id, alias)
<1>1. /\ Send(e, m)
      /\ pending_received_subscriptions'
             = [pending_received_subscriptions EXCEPT ![e] = @ \ {id}]
      /\ next_out_track_alias' = [next_out_track_alias EXCEPT
                                    ![e] = IF SubscriberChoosesAlias THEN @ ELSE @ + 1]
      /\ out_tracks' = [out_tracks EXCEPT ![e] = @ \cup {alias}]
      /\ accepted' = [accepted EXCEPT ![e] = Put(@, id, alias)]
      /\ UNCHANGED <<active_subscriptions, in_tracks, pending_subscribe, next_request_id>>
  BY DEF AcceptSubscription, Unanswered, subscriberVars
<1>2. id \in Nat
  BY DEF AcceptSubscription, TypeOK
<1>3. alias \in Nat
  BY <1>2 DEF GrantedAlias, TypeOK
<1>4. /\ m \in Message /\ m.type = "SubscribeOk" /\ m.request_id = id
      /\ AgreedAlias(m) = alias
  <2>1. SubscriberChoosesAlias => alias = id
    BY DEF GrantedAlias
  <2> HIDE DEF alias
  <2> QED
    BY <1>2, <1>3, <2>1, ConstructorsType DEF SubscribeOk, AgreedAlias
<1> HIDE DEF m
<1>5. CASE x = e
  <2>1. Peer(x) \in Endpoint /\ Peer(x) # e
    BY <1>5, PeerType
  <2>2. control'[x] = control[x]
    BY <1>1, <1>4, <1>5, SentQueue
  <2>3. Single(control[Peer(x)], {"Subscribe"})
    BY DEF RequestInv, RequestsBacked
  <2>4. Asked(x)' = Asked(x)
    BY <1>1, <1>4, <2>1, <2>3, SendIds DEF Asked
  <2>5. /\ Held(x)' = Held(x)
        /\ accepted'[Peer(x)] = accepted[Peer(x)]
        /\ out_tracks'[Peer(x)] = out_tracks[Peer(x)]
        /\ next_out_track_alias'[Peer(x)] = next_out_track_alias[Peer(x)]
    BY <1>1, <2>1 DEF Held, TypeOK, Maps
  <2> HIDE DEF alias
  <2>6. Oks(x)' = Oks(x)
    BY <2>2 DEF Oks
  <2>7. TrackInv(x)'
    BY <1>1, <2>4, <2>5, <2>6 DEF TrackInv
  <2>8. DoneInv(x)'
    BY <1>1, <2>2, <2>5 DEF DoneInv
  <2> QED
    BY <2>7, <2>8
<1>6. CASE x = Peer(e)
  <2>1. Peer(x) = e
    BY <1>6, PeerType
  <2>2. /\ id \notin DOMAIN accepted[e]
        /\ id \notin Asked(x) /\ id < next_request_id[x]
        /\ accepted'[e] = Put(accepted[e], id, alias)
        /\ \A i \in DOMAIN accepted[e] : accepted[e][i] # alias
    BY <1>6, AcceptedMap
  <2>3. /\ DOMAIN accepted'[e] = DOMAIN accepted[e] \cup {id}
        /\ accepted'[e][id] = alias
        /\ \A i \in DOMAIN accepted[e] : accepted'[e][i] = accepted[e][i]
    BY <2>2 DEF Put
  <2>4. control[x] \in Seq(Message) /\ control'[x] = Append(control[x], m) /\ control'[e] = control[e]
    BY <1>1, <1>4, <1>6, SentQueue
  <2>5. Carried(control'[x], {"SubscribeOk"}) = Carried(control[x], {"SubscribeOk"}) \cup {m}
    <3>1. m.type \in {"SubscribeOk"}
      BY <1>4
    <3> QED
      BY <1>4, <2>4, <3>1, CarriedAppend
  <2>6. Oks(x)' = Oks(x) \cup {m}
    BY <2>5 DEF Oks
  <2>7. Ids(control'[x], {"SubscribeOk"}) = Ids(control[x], {"SubscribeOk"}) \cup {id}
    BY <1>4, <2>5, CarriedIds
  <2>8. Followed(control[x], DOMAIN active_subscriptions[x])
          => Followed(control'[x], DOMAIN active_subscriptions[x])
    BY <1>4, <2>4, FollowedAppend
  <2>9. Asked(x)' = Asked(x)
    BY <2>1, <2>4 DEF Asked
  <2>10. Held(x)' = Held(x) \ {id}
    BY <1>1, <2>1 DEF Held, TypeOK
  <2>11. /\ \A o \in Oks(x)' : /\ o.request_id \in DOMAIN accepted'[e]
                              /\ AgreedAlias(o) = accepted'[e][o.request_id]
         /\ \A i \in DOMAIN active_subscriptions'[x] :
               /\ i \in DOMAIN accepted'[e]
               /\ active_subscriptions'[x][i] = accepted'[e][i]
    <3> HIDE DEF alias
    <3> QED
      BY <1>1, <1>4, <2>1, <2>3, <2>6 DEF TrackInv
  <2>12. (Asked(x) \cup Held(x))' \cap DOMAIN accepted'[e] = {}
    BY <2>1, <2>2, <2>3, <2>9, <2>10 DEF TrackInv
  <2>13. /\ out_tracks'[e] = out_tracks[e] \cup {alias}
         /\ SubscriberChoosesAlias => alias = id
         /\ ~SubscriberChoosesAlias => /\ alias = next_out_track_alias[e]
                                       /\ next_out_track_alias'[e] = alias + 1
    BY <1>1 DEF GrantedAlias, TypeOK
  <2>14. ASSUME NEW i \in DOMAIN accepted'[e]
         PROVE  /\ i < next_request_id'[x]
                /\ accepted'[e][i] \in out_tracks'[e]
                /\ IF SubscriberChoosesAlias
                   THEN accepted'[e][i] = i
                   ELSE accepted'[e][i] < next_out_track_alias'[e]
    <3>1. CASE i = id
      <4> HIDE DEF alias
      <4> QED
        BY <1>1, <1>3, <2>2, <2>3, <2>13, <3>1
    <3>2. CASE i \in DOMAIN accepted[e]
      <4>1. accepted[e][i] \in Nat /\ next_out_track_alias[e] \in Nat
        BY <3>2 DEF TypeOK, Maps
      <4> HIDE DEF alias
      <4> QED
        BY <1>1, <1>3, <2>1, <2>3, <2>13, <3>2, <4>1 DEF TrackInv
    <3> QED
      BY <2>3, <3>1, <3>2
  <2>15. ASSUME NEW i \in DOMAIN accepted'[e], NEW j \in DOMAIN accepted'[e],
                accepted'[e][i] = accepted'[e][j]
         PROVE  i = j
    <3> HIDE DEF alias
    <3> QED
      BY <2>1, <2>2, <2>3, <2>15 DEF TrackInv
  <2>16. /\ DOMAIN in_tracks'[x] =
               {active_subscriptions'[x][i] : i \in DOMAIN active_subscriptions'[x]}
         /\ DOMAIN active_subscriptions'[x] \cap pending_subscribe'[x] = {}
    BY <1>1 DEF TrackInv
  <2> HIDE DEF alias
  <2>17. TrackInv(x)'
    BY <2>1, <2>11, <2>12, <2>14, <2>15, <2>16 DEF TrackInv
  <2>18. DoneInv(x)'
    BY <1>1, <2>1, <2>3, <2>7, <2>8 DEF DoneInv
  <2> QED
    BY <2>17, <2>18
<1> QED
  BY <1>5, <1>6, OneOfTwo

\* SUBSCRIBE_OK comes with the publisher's alias, for a request that is no
\* active subscription yet and under an alias that is no track yet.
LEMMA OkAgrees ==
    ASSUME TypeOK, RequestInv, NEW e \in Endpoint, TrackInv(e), Arrived(e, "SubscribeOk")
    PROVE  LET m == Head(control[e]) IN
           /\ m \in Message /\ m \in Oks(e)
           /\ m.request_id \in pending_subscribe[e]
           /\ m.request_id \notin DOMAIN active_subscriptions[e]
           /\ m.request_id \in DOMAIN accepted[Peer(e)]
           /\ AgreedAlias(m) = accepted[Peer(e)][m.request_id]
           /\ AgreedAlias(m) \notin DOMAIN in_tracks[e]
<1> DEFINE m == Head(control[e])
<1>1. control[e] \in Seq(Message) /\ control[e] # << >> /\ m.type = "SubscribeOk"
  BY DEF Arrived, TypeOK
<1>2. m \in Message
  BY <1>1, HeadType DEF TypeOK
<1>3. m \in Oks(e)
  <2>1. m.type \in {"SubscribeOk"}
    BY <1>1
  <2> QED
    BY <1>1, <2>1, CarriedTail DEF Oks
<1>4. m.request_id \in pending_subscribe[e]
  BY <1>1, RequestSettled DEF Answer
<1>5. m.request_id \notin DOMAIN active_subscriptions[e]
  BY <1>4 DEF TrackInv
<1>6. m.request_id \in DOMAIN accepted[Peer(e)] /\ AgreedAlias(m) = accepted[Peer(e)][m.request_id]
  BY <1>3 DEF TrackInv
<1> HIDE DEF m
<1>7. AgreedAlias(m) \notin DOMAIN in_tracks[e]
  BY <1>5, <1>6 DEF TrackInv
<1> QED
  BY <1>2, <1>3, <1>4, <1>5, <1>6, <1>7 DEF m

LEMMA SubscribeOkTracks ==
    ASSUME TypeOK, RequestInv, NEW e \in Endpoint, RecvSubscribeOk(e), TrackInv(e), DoneInv(e),
           NEW x \in Endpoint, TrackInv(x), DoneInv(x)
    PROVE  TrackInv(x)' /\ DoneInv(x)'
<1> DEFINE m == Head(control[e])
           id == m.request_id
           alias == AgreedAlias(m)
<1>1. /\ m \in Message /\ m \in Oks(e)
      /\ id \in pending_subscribe[e]
      /\ id \in DOMAIN accepted[Peer(e)]
      /\ alias = accepted[Peer(e)][id]
  BY OkAgrees DEF RecvSubscribeOk
<1>2. /\ control[e] # << >> /\ m.type = "SubscribeOk"
      /\ pending_subscribe' = [pending_subscribe EXCEPT ![e] = @ \ {id}]
      /\ in_tracks' = [in_tracks EXCEPT ![e] = Put(@, alias, "open")]
      /\ active_subscriptions' = [active_subscriptions EXCEPT ![e] = Put(@, id, alias)]
      /\ Consume(e)
      /\ UNCHANGED <<next_request_id, pending_received_subscriptions, next_out_track_alias,
                     out_tracks, accepted>>
  BY <1>1 DEF RecvSubscribeOk, Arrived, publisherVars
<1>3. control[e] \in Seq(Message) /\ control'[e] = Tail(control[e])
      /\ control'[Peer(e)] = control[Peer(e)]
  BY <1>2, ConsumedQueue
<1>4. CASE x # e
  <2>1. x = Peer(e) /\ Peer(x) = e
    BY <1>4, OneOfTwo, PeerType
  <2>2. /\ active_subscriptions'[x] = active_subscriptions[x]
        /\ in_tracks'[x] = in_tracks[x]
        /\ pending_subscribe'[x] = pending_subscribe[x]
        /\ control'[x] = control[x]
    BY <1>2, <1>3, <1>4, <2>1 DEF TypeOK, Maps
  <2>3. Asked(x)' \subseteq Asked(x)
    <3>1. Carried(control'[e], {"Subscribe"}) \subseteq Carried(control[e], {"Subscribe"})
      BY <1>2, <1>3, CarriedTail
    <3> QED
      BY <2>1, <3>1, CarriedIds DEF Asked
  <2>4. Held(x)' = Held(x) /\ Oks(x)' = Oks(x)
    BY <1>2, <2>2 DEF Held, Oks
  <2>5. (Asked(x) \cup Held(x))' \cap DOMAIN accepted[Peer(x)] = {}
    BY <2>3, <2>4 DEF TrackInv
  <2> HIDE DEF m, id, alias
  <2>6. TrackInv(x)'
    BY <1>2, <2>2, <2>4, <2>5 DEF TrackInv
  <2>7. DoneInv(x)'
    BY <1>2, <2>2 DEF DoneInv
  <2> QED
    BY <2>6, <2>7
<1>5. CASE x = e
  <2>1. /\ active_subscriptions'[e] = Put(active_subscriptions[e], id, alias)
        /\ in_tracks'[e] = Put(in_tracks[e], alias, "open")
        /\ pending_subscribe'[e] = pending_subscribe[e] \ {id}
    BY <1>2 DEF TypeOK, Maps
  <2>2. /\ DOMAIN active_subscriptions'[e] = DOMAIN active_subscriptions[e] \cup {id}
        /\ active_subscriptions'[e][id] = alias
        /\ \A i \in DOMAIN active_subscriptions[e] \ {id} :
              active_subscriptions'[e][i] = active_subscriptions[e][i]
        /\ DOMAIN in_tracks'[e] = DOMAIN in_tracks[e] \cup {alias}
    BY <2>1 DEF Put
  <2>3. Asked(e)' = Asked(e) /\ Held(e)' = Held(e)
    BY <1>2, <1>3 DEF Asked, Held
  <2>4. /\ Carried(control[e], {"SubscribeOk"}) = Carried(control'[e], {"SubscribeOk"}) \cup {m}
        /\ Oks(e)' \subseteq Oks(e)
    <3>1. m.type \in {"SubscribeOk"}
      BY <1>2
    <3> QED
      BY <1>2, <1>3, <3>1, CarriedTail DEF Oks
  <2>5. Ids(control[e], {"SubscribeOk"}) = Ids(control'[e], {"SubscribeOk"}) \cup {id}
    BY <2>4, CarriedIds
  <2>6. Followed(control'[e], DOMAIN active_subscriptions[e] \cup {id})
    BY <1>2, <1>3, FollowedTail DEF DoneInv
  <2>7. id \notin DOMAIN active_subscriptions[e]
    BY <1>1 DEF TrackInv
  <2> HIDE DEF m, id, alias
  <2>8. ASSUME NEW i \in DOMAIN active_subscriptions'[e]
        PROVE  /\ i \in DOMAIN accepted[Peer(e)]
               /\ active_subscriptions'[e][i] = accepted[Peer(e)][i]
    BY <1>1, <2>2, <2>7 DEF TrackInv
  <2>9. DOMAIN in_tracks'[e] =
           {active_subscriptions'[e][i] : i \in DOMAIN active_subscriptions'[e]}
    BY <2>2, <2>7 DEF TrackInv
  <2>10. DOMAIN active_subscriptions'[e] \cap pending_subscribe'[e] = {}
    BY <2>1, <2>2 DEF TrackInv
  <2>11. TrackInv(e)'
    BY <1>2, <2>3, <2>4, <2>8, <2>9, <2>10 DEF TrackInv
  <2>12. DoneInv(e)'
    BY <1>2, <2>2, <2>5, <2>6 DEF DoneInv
  <2> QED
    BY <1>5, <2>11, <2>12
<1> QED
  BY <1>4, <1>5

\* publish_done() follows the SUBSCRIBE_OK of its subscription.
LEMMA PublishDoneTracks ==
    ASSUME TypeOK, NEW e \in Endpoint, NEW id \in DOMAIN accepted[e], PublishDoneCall(e, id),
           NEW x \in Endpoint, TrackInv(x), DoneInv(x)
    PROVE  TrackInv(x)' /\ DoneInv(x)'
<1> DEFINE m == PublishDone(id)
<1>1. m \in Message /\ m.type = "PublishDone" /\ m.request_id = id
  <2>1. id \in Nat
    BY DEF TypeOK, Maps
  <2> QED
    BY <2>1, ConstructorsType DEF PublishDone
<1>2. /\ Send(e, m)
      /\ UNCHANGED <<next_request_id, pending_subscribe, active_subscriptions, in_tracks,
                     pending_received_subscriptions, next_out_track_alias, out_tracks, accepted>>
  BY DEF PublishDoneCall, subscriberVars
<1> HIDE DEF m
<1>3. x = Peer(e) => id \in DOMAIN active_subscriptions[x] \cup Ids(control[x], {"SubscribeOk"})
  BY PeerType DEF DoneInv
<1>4. /\ Oks(x)' = Oks(x)
      /\ Ids(control'[x], {"SubscribeOk"}) = Ids(control[x], {"SubscribeOk"})
      /\ Followed(control[x], DOMAIN active_subscriptions[x])
           => Followed(control'[x], DOMAIN active_subscriptions[x])
  BY <1>1, <1>2, <1>3, OtherSent
<1>5. Asked(x)' = Asked(x) /\ Held(x)' = Held(x)
  <2>1. CASE x = Peer(e)
    BY <1>1, <1>2, <2>1, SentQueue, PeerType DEF Asked, Held
  <2>2. CASE x = e
    <3>1. Carried(control'[Peer(e)], {"Subscribe"}) = Carried(control[Peer(e)], {"Subscribe"})
      <4>1. m.type \notin {"Subscribe"}
        BY <1>1
      <4>2. /\ control[Peer(e)] \in Seq(Message)
            /\ control'[Peer(e)] = Append(control[Peer(e)], m)
        BY <1>1, <1>2, SentQueue
      <4> QED
        BY <1>1, <4>1, <4>2, CarriedAppend
    <3> QED
      BY <1>2, <2>2, <3>1, CarriedIds DEF Asked, Held
  <2> QED
    BY <2>1, <2>2, OneOfTwo
<1>6. TrackInv(x)'
  BY <1>2, <1>4, <1>5 DEF TrackInv
<1>7. DoneInv(x)'
  BY <1>2, <1>4 DEF DoneInv
<1> QED
  BY <1>6, <1>7

LEMMA QuietSent ==
    ASSUME TypeOK, NEW e \in Endpoint, NEW m \in Message, Send(e, m),
           m.type \notin {"Subscribe", "SubscribeOk", "PublishDone"}, NEW x \in Endpoint
    PROVE  QuietQueue(control[x], control'[x])
<1>1. /\ control'[Peer(e)] = Append(control[Peer(e)], m)
      /\ control'[e] = control[e]
  BY SentQueue
<1> QED
  BY <1>1, OneOfTwo DEF QuietQueue

LEMMA QuietConsumed ==
    ASSUME TypeOK, NEW e \in Endpoint, Consume(e), control[e] # << >>,
           Head(control[e]).type # "SubscribeOk", NEW x \in Endpoint
    PROVE  QuietQueue(control[x], control'[x])
<1>1. /\ control'[e] = Tail(control[e])
      /\ control'[Peer(e)] = control[Peer(e)]
  BY ConsumedQueue
<1> QED
  BY <1>1, OneOfTwo DEF QuietQueue

LEMMA QuietPanic ==
    ASSUME TypeOK, NEW e \in Endpoint, NEW why, Panic(e, why)
    PROVE  QuietStep
  BY DEF Panic, QuietStep, QuietQueue, Held, subscriberVars, publisherVars, TypeOK

\* poll() concerns the tracks only with SUBSCRIBE_OK.
LEMMA QuietPoll ==
    ASSUME TypeOK, Rest, NEW e \in Endpoint, Poll(e)
    PROVE  QuietStep \/ RecvSubscribeOk(e)
<1> USE DEF setupVars, subscriberVars, publisherVars, announcerVars, listenerVars
<1>1. ASSUME Consume(e), control[e] # << >>, Head(control[e]).type # "SubscribeOk",
             UNCHANGED <<active_subscriptions, accepted, out_tracks, next_out_track_alias,
                         next_request_id>>,
             \A x \in Endpoint : /\ pending_subscribe'[x] \subseteq pending_subscribe[x]
                                 /\ DOMAIN in_tracks'[x] = DOMAIN in_tracks[x]
                                 /\ Held(x)' \subseteq Held(x) \cup Asked(x)
      PROVE  QuietStep
  <2>1. \A x \in Endpoint : QuietQueue(control[x], control'[x])
    BY <1>1, QuietConsumed
  <2>2. \A x \in Endpoint : next_request_id[x] <= next_request_id'[x]
    BY <1>1 DEF TypeOK
  <2> QED
    BY <1>1, <2>1, <2>2 DEF QuietStep
<1>2. CASE RecvClientSetup(e)
  <2> DEFINE m == ServerSetup(OutMaxRequestId[e])
  <2>1. /\ e = "server" /\ control[e] # << >> /\ Head(control[e]).type = "ClientSetup"
        /\ control' = [control EXCEPT ![e] = Tail(@), ![Peer(e)] = Append(@, m)]
        /\ UNCHANGED <<active_subscriptions, accepted, out_tracks, next_out_track_alias,
                       next_request_id, pending_subscribe, in_tracks,
                       pending_received_subscriptions>>
    BY <1>2, SetupRoles DEF RecvClientSetup, Rest, Arrived
  <2>2. m \in Message /\ m.type = "ServerSetup"
    <3>1. OutMaxRequestId[e] \in Nat
      BY OutMaxAssumption
    <3> QED
      BY <3>1, ConstructorsType DEF ServerSetup
  <2> HIDE DEF m
  <2>3. control'[e] = Tail(control[e]) /\ control'[Peer(e)] = Append(control[Peer(e)], m)
    BY <2>1, PeerType DEF TypeOK
  <2>4. \A x \in Endpoint : QuietQueue(control[x], control'[x])
    BY <2>1, <2>2, <2>3, OneOfTwo DEF QuietQueue
  <2>5. \A x \in Endpoint : next_request_id[x] <= next_request_id[x] /\ Held(x)' = Held(x)
    BY <2>1 DEF Held, TypeOK
  <2> QED
    BY <2>1, <2>4, <2>5 DEF QuietStep
<1>3. CASE RecvServerSetup(e)
  <2>1. e = "client"
    BY <1>3, SetupRoles DEF RecvServerSetup, Rest
  <2>2. /\ control[e] # << >> /\ Head(control[e]).type = "ServerSetup" /\ Consume(e)
        /\ UNCHANGED <<active_subscriptions, accepted, out_tracks, next_out_track_alias,
                       next_request_id, pending_subscribe, in_tracks,
                       pending_received_subscriptions>>
    BY <1>3, <2>1 DEF RecvServerSetup, Arrived
  <2> QED
    BY <1>1, <2>2 DEF Held
<1>4. CASE RecvSubscribe(e)
  <2> DEFINE id == Head(control[e]).request_id
  <2>1. /\ control[e] # << >> /\ Head(control[e]).type = "Subscribe" /\ Consume(e)
        /\ pending_received_subscriptions'
               = [pending_received_subscriptions EXCEPT ![e] = @ \cup {id}]
        /\ UNCHANGED <<active_subscriptions, accepted, out_tracks, next_out_track_alias,
                       next_request_id, pending_subscribe, in_tracks>>
    BY <1>4 DEF RecvSubscribe, Arrived, Inbox
  <2> HIDE DEF id
  <2>2. ASSUME NEW x \in Endpoint PROVE Held(x)' \subseteq Held(x) \cup Asked(x)
    <3>1. CASE x = e
      BY <2>1, <3>1, PeerType DEF Held, TypeOK
    <3>2. CASE x = Peer(e)
      <4>1. Peer(x) = e
        BY <3>2, PeerType
      <4>2. control[e] \in Seq(Message) /\ Single(control[e], {"Subscribe"})
        BY <4>1 DEF Rest, RequestInv, RequestsBacked, TypeOK
      <4>3. id \in Asked(x)
        BY <2>1, <4>1, <4>2, TailIds DEF Asked, id
      <4> QED
        BY <2>1, <4>1, <4>3 DEF Held, TypeOK
    <3> QED
      BY <3>1, <3>2, OneOfTwo
  <2> QED
    BY <1>1, <2>1, <2>2
<1>5. CASE RecvRequestError(e)
  <2> DEFINE id == Head(control[e]).request_id
  <2>1. control[e] # << >> /\ Head(control[e]).type = "RequestError"
    BY <1>5 DEF RecvRequestError, Arrived
  <2>2. CASE id \in pending_subscribe[e]
    <3>1. /\ Consume(e)
          /\ pending_subscribe' = [pending_subscribe EXCEPT ![e] = @ \ {id}]
          /\ UNCHANGED <<active_subscriptions, accepted, out_tracks, next_out_track_alias,
                         next_request_id, in_tracks, pending_received_subscriptions>>
      BY <1>5, <2>2 DEF RecvRequestError
    <3> HIDE DEF id
    <3>2. \A x \in Endpoint : pending_subscribe'[x] \subseteq pending_subscribe[x]
      BY <3>1 DEF TypeOK
    <3> QED
      BY <1>1, <2>1, <3>1, <3>2 DEF Held
  <2>3. CASE id \notin pending_subscribe[e]
    BY <1>5, <2>3, QuietPanic DEF RecvRequestError
  <2> QED
    BY <2>2, <2>3
<1>6. CASE RecvPublishDone(e)
  <2> DEFINE id == Head(control[e]).request_id
  <2>1. /\ control[e] # << >> /\ Head(control[e]).type = "PublishDone" /\ Consume(e)
        /\ in_tracks' = [in_tracks EXCEPT ![e] = MarkDone(e, id)]
        /\ UNCHANGED <<active_subscriptions, accepted, out_tracks, next_out_track_alias,
                       next_request_id, pending_subscribe, pending_received_subscriptions>>
    BY <1>6 DEF RecvPublishDone, Arrived
  <2> HIDE DEF id
  <2>2. \A x \in Endpoint : DOMAIN in_tracks'[x] = DOMAIN in_tracks[x]
    BY <2>1 DEF MarkDone, TypeOK, Maps
  <2> QED
    BY <1>1, <2>1, <2>2 DEF Held
<1>7. CASE RecvPublishNamespace(e)
  <2> DEFINE fault == PublishNamespaceFault(e, Head(control[e]))
  <2>1. CASE fault = "no"
    BY <1>1, <1>7, <2>1 DEF RecvPublishNamespace, Arrived, Held
  <2>2. CASE fault # "no"
    BY <1>7, <2>2, QuietPanic DEF RecvPublishNamespace
  <2> QED
    BY <2>1, <2>2
<1>8. CASE RecvPublishOk(e)
  <2>1. CASE Head(control[e]).request_id \in DOMAIN pending_sent_publish_namespace[e]
    BY <1>1, <1>8, <2>1 DEF RecvPublishOk, Arrived, Held
  <2>2. CASE Head(control[e]).request_id \notin DOMAIN pending_sent_publish_namespace[e]
    BY <1>8, <2>2, QuietPanic DEF RecvPublishOk
  <2> QED
    BY <2>1, <2>2
<1>9. CASE RecvPublishNamespaceDone(e)
  BY <1>1, <1>9 DEF RecvPublishNamespaceDone, Arrived, Held
<1> QED
  BY <1>2, <1>3, <1>4, <1>5, <1>6, <1>7, <1>8, <1>9 DEF Poll

\* Of the calls, three concern the tracks.
LEMMA QuietCall ==
    ASSUME TypeOK, NEW e \in Endpoint, Call(e)
    PROVE  \/ QuietStep
           \/ SubscribeCall(e)
           \/ \E id \in pending_received_subscriptions[e] : AcceptSubscription(e, id)
           \/ \E id \in DOMAIN accepted[e] : PublishDoneCall(e, id)
<1> USE DEF setupVars, subscriberVars, publisherVars, announcerVars, listenerVars
<1>1. ASSUME NEW m \in Message, m.type \notin {"Subscribe", "SubscribeOk", "PublishDone"},
             Send(e, m),
             UNCHANGED <<active_subscriptions, accepted, out_tracks, next_out_track_alias,
                         pending_subscribe, in_tracks>>,
             \A x \in Endpoint : /\ Held(x)' \subseteq Held(x)
                                 /\ next_request_id[x] <= next_request_id'[x]
      PROVE  QuietStep
  <2>1. \A x \in Endpoint : QuietQueue(control[x], control'[x])
    BY <1>1, QuietSent
  <2> QED
    BY <1>1, <2>1 DEF QuietStep
<1>2. \A x \in Endpoint : next_request_id[x] <= next_request_id[x]
  BY DEF TypeOK
<1>3. ASSUME NEW ns \in Namespace, PublishNamespaceCall(e, ns)
      PROVE  QuietStep
  <2> DEFINE m == PublishNamespace(next_request_id[e], ns)
  <2>1. m \in Message /\ m.type = "PublishNamespace"
    <3>1. next_request_id[e] \in Nat
      BY DEF TypeOK
    <3> QED
      BY <3>1, ConstructorsType DEF PublishNamespace
  <2>2. Send(e, m)
    BY <1>3 DEF PublishNamespaceCall
  <2>3. \A x \in Endpoint : next_request_id[x] <= next_request_id'[x]
    BY <1>3 DEF PublishNamespaceCall, TypeOK
  <2> HIDE DEF m
  <2> QED
    BY <1>1, <1>3, <2>1, <2>2, <2>3 DEF PublishNamespaceCall, Held
<1>4. ASSUME NEW id \in pending_received_subscriptions[e], RejectSubscription(e, id)
      PROVE  QuietStep
  <2>1. CASE RequestErrorSupported
    <3> DEFINE m == RequestError(id)
    <3>1. m \in Message /\ m.type = "RequestError"
      <4>1. id \in Nat
        BY DEF TypeOK
      <4> QED
        BY <4>1, ConstructorsType DEF RequestError
    <3>2. /\ Send(e, m)
          /\ pending_received_subscriptions'
                 = [pending_received_subscriptions EXCEPT ![e] = @ \ {id}]
          /\ UNCHANGED <<active_subscriptions, accepted, out_tracks, next_out_track_alias,
                         pending_subscribe, in_tracks, next_request_id>>
      BY <1>4, <2>1 DEF RejectSubscription, Unanswered
    <3> HIDE DEF m
    <3>3. \A x \in Endpoint : Held(x)' \subseteq Held(x)
      BY <3>2, PeerType DEF Held, TypeOK
    <3> QED
      BY <1>1, <1>2, <3>1, <3>2, <3>3
  <2>2. CASE ~RequestErrorSupported
    BY <1>4, <2>2, QuietPanic DEF RejectSubscription
  <2> QED
    BY <2>1, <2>2
<1>5. ASSUME NEW id \in DOMAIN pending_received_publish_namespace[e],
             AcceptNamespacePublish(e, id)
      PROVE  QuietStep
  <2> DEFINE m == PublishOk(id)
  <2>1. m \in Message /\ m.type = "PublishOk"
    <3>1. id \in Nat
      BY DEF TypeOK, Maps
    <3> QED
      BY <3>1, ConstructorsType DEF PublishOk
  <2>2. /\ Send(e, m)
        /\ UNCHANGED <<active_subscriptions, accepted, out_tracks, next_out_track_alias,
                       pending_subscribe, in_tracks, pending_received_subscriptions,
                       next_request_id>>
    BY <1>5 DEF AcceptNamespacePublish
  <2> HIDE DEF m
  <2> QED
    BY <1>1, <1>2, <2>1, <2>2 DEF Held
<1>6. ASSUME NEW id \in DOMAIN sent_namespaces[e], PublishNamespaceDoneCall(e, id)
      PROVE  QuietStep
  <2> DEFINE m == PublishNamespaceDone(id, sent_namespaces[e][id])
  <2>1. m \in Message /\ m.type = "PublishNamespaceDone"
    <3>1. id \in Nat /\ sent_namespaces[e][id] \in Namespace
      BY DEF TypeOK, Maps
    <3> QED
      BY <3>1, ConstructorsType DEF PublishNamespaceDone
  <2>2. /\ Send(e, m)
        /\ UNCHANGED <<active_subscriptions, accepted, out_tracks, next_out_track_alias,
                       pending_subscribe, in_tracks, pending_received_subscriptions,
                       next_request_id>>
    BY <1>6 DEF PublishNamespaceDoneCall
  <2> HIDE DEF m
  <2> QED
    BY <1>1, <1>2, <2>1, <2>2 DEF Held
<1>7. ASSUME NEW id, PollSubscribeResponse(e, id)
      PROVE  QuietStep
  <2>1. UNCHANGED <<active_subscriptions, accepted, out_tracks, next_out_track_alias,
                    pending_subscribe, in_tracks, pending_received_subscriptions,
                    next_request_id, control>>
    BY <1>7 DEF PollSubscribeResponse
  <2> QED
    BY <1>2, <2>1 DEF QuietStep, QuietQueue, Held
<1> QED
  BY <1>3, <1>4, <1>5, <1>6, <1>7 DEF Call, AnswerSubscription, AnswerNamespace

-----------------------------------------------------------------------------
(* The theorems about subscriptions.                                       *)

Tracks == \A x \in Endpoint : TrackInv(x) /\ DoneInv(x)

LEMMA InitTracks == Init => Tracks
<1> SUFFICES ASSUME Init, NEW x \in Endpoint PROVE TrackInv(x) /\ DoneInv(x)
  BY DEF Tracks
<1> DEFINE setup == ClientSetup(OutMaxRequestId["client"])
<1>1. control["client"] = << >> /\ control["server"] = << setup >>
  BY DEF Init, Endpoint
<1>2. setup.type = "ClientSetup"
  BY DEF ClientSetup
<1> HIDE DEF setup
<1>3. ASSUME NEW types, "ClientSetup" \notin types PROVE Places(control[x], types) = {}
  BY <1>1, <1>2, <1>3 DEF Places, Endpoint
<1>4. Oks(x) = {} /\ Followed(control[x], DOMAIN active_subscriptions[x])
  BY <1>3 DEF Oks, Carried, Followed
<1>5. /\ DOMAIN active_subscriptions[x] = {}
      /\ DOMAIN in_tracks[x] = {}
      /\ DOMAIN accepted[Peer(x)] = {}
  BY PeerType DEF Init, EmptyMap
<1>6. TrackInv(x)
  BY <1>4, <1>5 DEF TrackInv
<1>7. DoneInv(x)
  BY <1>4, <1>5 DEF DoneInv
<1> QED
  BY <1>6, <1>7

LEMMA NextTracks ==
    ASSUME TypeOK, TypeOK', Rest, Tracks, [Next]_vars
    PROVE  Tracks'
<1> SUFFICES ASSUME NEW x \in Endpoint PROVE TrackInv(x)' /\ DoneInv(x)'
  BY DEF Tracks
<1>1. TrackInv(x) /\ DoneInv(x)
  BY DEF Tracks
<1>2. RequestInv /\ IdsBelowNext
  BY DEF Rest
<1>3. CASE QuietStep
  BY <1>1, <1>3, QuietTracks
<1>4. ASSUME NEW e \in Endpoint, Poll(e) PROVE TrackInv(x)' /\ DoneInv(x)'
  <2>1. TrackInv(e) /\ DoneInv(e)
    BY DEF Tracks
  <2>2. CASE RecvSubscribeOk(e)
    BY <1>1, <1>2, <2>1, <2>2, SubscribeOkTracks
  <2> QED
    BY <1>3, <1>4, <2>2, QuietPoll
<1>5. ASSUME NEW e \in Endpoint, Call(e) PROVE TrackInv(x)' /\ DoneInv(x)'
  <2>1. CASE SubscribeCall(e)
    BY <1>1, <1>2, <2>1, SubscribeTracks
  <2>2. ASSUME NEW id \in pending_received_subscriptions[e], AcceptSubscription(e, id)
        PROVE  TrackInv(x)' /\ DoneInv(x)'
    BY <1>1, <1>2, <2>2, AcceptTracks
  <2>3. ASSUME NEW id \in DOMAIN accepted[e], PublishDoneCall(e, id)
        PROVE  TrackInv(x)' /\ DoneInv(x)'
    BY <1>1, <2>3, PublishDoneTracks
  <2> QED
    BY <1>3, <1>5, <2>1, <2>2, <2>3, QuietCall
<1>6. CASE UNCHANGED vars
  <2>1. UNCHANGED <<active_subscriptions, accepted, out_tracks, next_out_track_alias,
                    pending_subscribe, in_tracks, pending_received_subscriptions,
                    next_request_id, control>>
    BY <1>6 DEF vars, subscriberVars, publisherVars
  <2>2. \A y \in Endpoint : next_request_id[y] <= next_request_id[y]
    BY DEF TypeOK
  <2>3. QuietStep
    BY <2>1, <2>2 DEF QuietStep, QuietQueue, Held
  <2> QED
    BY <1>3, <2>3
<1> QED
  BY <1>4, <1>5, <1>6 DEF Next

LEMMA TracksInvariant == Spec => [](TypeOK /\ Rest /\ Tracks)
<1>1. TypeOK /\ TypeOK' /\ Rest /\ Tracks /\ [Next]_vars => Tracks'
  BY NextTracks
<1> QED
  BY InductiveInvariant, InitTracks, <1>1, PTL DEF Spec

\* Subscriber and publisher mean the same track by an alias, in every draft and
\* however subscriptions, answers and other messages interleave.
THEOREM Aliases == Spec => []AliasAgreement
<1>1. Tracks => AliasAgreement
  BY DEF Tracks, TrackInv, AliasAgreement
<1> QED
  BY TracksInvariant, <1>1, PTL

\* A PUBLISH_DONE finds its subscription: it never overtakes the SUBSCRIBE_OK.
THEOREM DonesRouted == Spec => []PublishDoneRouted
<1>1. TypeOK /\ Tracks => PublishDoneRouted
  <2> SUFFICES ASSUME TypeOK, Tracks, NEW e \in Endpoint, Arrived(e, "PublishDone")
               PROVE  Head(control[e]).request_id \in DOMAIN active_subscriptions[e]
    BY DEF PublishDoneRouted
  <2>1. /\ control[e] \in Seq(Message) /\ control[e] # << >>
        /\ Head(control[e]).type = "PublishDone"
    BY DEF Arrived, TypeOK
  <2>2. Followed(control[e], DOMAIN active_subscriptions[e])
    BY DEF Tracks, DoneInv
  <2> QED
    BY <2>1, <2>2, FollowedTail
<1> QED
  BY TracksInvariant, <1>1, PTL

\* Only poll() touches the tracks of a subscriber: SUBSCRIBE_OK adds one that was
\* not there, PUBLISH_DONE marks the one of its subscription.
LEMMA TrackStep ==
    ASSUME TypeOK, Rest, Tracks, Next, NEW x \in Endpoint,
           NEW a \in DOMAIN in_tracks[x], in_tracks[x][a] = "done"
    PROVE  a \in DOMAIN in_tracks'[x] /\ in_tracks'[x][a] = "done"
<1> USE DEF setupVars, subscriberVars, publisherVars, announcerVars, listenerVars
<1>1. CASE UNCHANGED in_tracks
  BY <1>1
<1>2. ASSUME NEW e \in Endpoint, RecvSubscribeOk(e)
      PROVE  a \in DOMAIN in_tracks'[x] /\ in_tracks'[x][a] = "done"
  <2> DEFINE m == Head(control[e])
             alias == AgreedAlias(m)
  <2>1. m.request_id \in pending_subscribe[e] /\ alias \notin DOMAIN in_tracks[e]
    BY <1>2, OkAgrees DEF RecvSubscribeOk, Rest, Tracks
  <2>2. in_tracks' = [in_tracks EXCEPT ![e] = Put(@, alias, "open")]
    BY <1>2, <2>1 DEF RecvSubscribeOk
  <2> HIDE DEF alias
  <2> QED
    BY <2>1, <2>2 DEF Put, TypeOK, Maps
<1>3. ASSUME NEW e \in Endpoint, RecvPublishDone(e)
      PROVE  a \in DOMAIN in_tracks'[x] /\ in_tracks'[x][a] = "done"
  BY <1>3 DEF RecvPublishDone, MarkDone, TypeOK, Maps
<1>4. ASSUME NEW e \in Endpoint, Poll(e), ~RecvSubscribeOk(e), ~RecvPublishDone(e)
      PROVE  UNCHANGED in_tracks
  BY <1>4 DEF Poll, RecvClientSetup, RecvServerSetup, RecvSubscribe, RecvRequestError,
              RecvPublishNamespace, RecvPublishOk, RecvPublishNamespaceDone, Panic
<1>5. ASSUME NEW e \in Endpoint, Call(e)
      PROVE  UNCHANGED in_tracks
  BY <1>5 DEF Call, SubscribeCall, PublishNamespaceCall, AnswerSubscription,
              AcceptSubscription, RejectSubscription, AnswerNamespace, AcceptNamespacePublish,
              PollSubscribeResponse, PublishDoneCall, PublishNamespaceDoneCall, Panic
<1> QED
  BY <1>1, <1>2, <1>3, <1>4, <1>5 DEF Next

\* A track that PUBLISH_DONE ended is never replaced by a fresh one.
THEOREM EndedTracksStay == Spec => EndedTrackStaysEnded
<1>1. TypeOK /\ Rest /\ Tracks /\ [Next]_vars
        => [\A e \in Endpoint : \A a \in DOMAIN in_tracks[e] :
               in_tracks[e][a] = "done" => /\ a \in DOMAIN in_tracks'[e]
                                          /\ in_tracks'[e][a] = "done"]_vars
  BY TrackStep
<1> QED
  BY TracksInvariant, <1>1, PTL DEF Spec, EndedTrackStaysEnded

=============================================================================
