--------------------- MODULE MoqControlNamespaces_proofs ---------------------
(***************************************************************************)
(* From draft 16 on a withdrawal names its announcement by request id, and *)
(* the two sides of a MoqControl session agree on the namespaces in force. *)
(***************************************************************************)
EXTENDS MoqControlTracks_proofs

-----------------------------------------------------------------------------
(* The inductive invariant.                                                *)

\* An announcement keeps its namespace through all the places it can be in, the
\* peer drops it only after its withdrawal, and it waits for nothing by then.
NamespaceInv(e) ==
    /\ \A id \in DOMAIN sent_namespaces[e] :
          /\ id \in DOMAIN received_namespaces[Peer(e)]
          /\ received_namespaces[Peer(e)][id] = sent_namespaces[e][id]
    /\ \A id \in Welcomed(e) :
          /\ id \in DOMAIN received_namespaces[Peer(e)]
          /\ received_namespaces[Peer(e)][id] = pending_sent_publish_namespace[e][id]
    /\ \A id \in Offers(e) :
          pending_received_publish_namespace[Peer(e)][id] = pending_sent_publish_namespace[e][id]
    /\ \A m \in Carried(control[Peer(e)], {"PublishNamespace"}) :
          m.namespace = pending_sent_publish_namespace[e][m.request_id]
    /\ DOMAIN received_namespaces[Peer(e)]
          \subseteq DOMAIN sent_namespaces[e] \cup Welcomed(e) \cup Dones(e)
    /\ DOMAIN sent_namespaces[e] \cap DOMAIN pending_sent_publish_namespace[e] = {}
    /\ Dones(e) \cap (DOMAIN sent_namespaces[e] \cup DOMAIN pending_sent_publish_namespace[e]) = {}
    /\ \A id \in DOMAIN sent_namespaces[e] \cup Dones(e) :
          id \in Nat /\ id < next_request_id[e]

\* What a step may do without concern to the announcements of x.
SameMaps(x) ==
    /\ sent_namespaces'[x] = sent_namespaces[x]
    /\ pending_sent_publish_namespace'[x] = pending_sent_publish_namespace[x]
    /\ received_namespaces'[Peer(x)] = received_namespaces[Peer(x)]
    /\ pending_received_publish_namespace'[Peer(x)] = pending_received_publish_namespace[Peer(x)]
    /\ next_request_id'[x] \in {next_request_id[x], next_request_id[x] + 2}

SameQueues(x) ==
    /\ Carried(control'[x], {"PublishOk"}) = Carried(control[x], {"PublishOk"})
    /\ Carried(control'[Peer(x)], {"PublishNamespace"})
          = Carried(control[Peer(x)], {"PublishNamespace"})
    /\ Carried(control'[Peer(x)], {"PublishNamespaceDone"})
          = Carried(control[Peer(x)], {"PublishNamespaceDone"})

LEMMA UndisturbedKeeps ==
    ASSUME TypeOK, NEW x \in Endpoint, NamespaceInv(x), SameMaps(x), SameQueues(x)
    PROVE  NamespaceInv(x)'
<1>1. Welcomed(x)' = Welcomed(x) /\ Dones(x)' = Dones(x)
  BY CarriedIds DEF SameQueues, Welcomed, Dones
<1>2. Offers(x)' = Offers(x)
  BY DEF SameMaps, Offers
<1>3. \A id \in Nat : id < next_request_id[x] => id < next_request_id'[x]
  BY DEF SameMaps, TypeOK
<1> QED
  BY <1>1, <1>2, <1>3 DEF NamespaceInv, SameMaps, SameQueues

\* What a queue carries after a message was sent or consumed.
LEMMA SendCarried ==
    ASSUME TypeOK, NEW e \in Endpoint, NEW m \in Message, Send(e, m), NEW x \in Endpoint,
           NEW types
    PROVE  /\ x = Peer(e) /\ m.type \in types
                => Carried(control'[x], types) = Carried(control[x], types) \cup {m}
           /\ x = e \/ m.type \notin types
                => Carried(control'[x], types) = Carried(control[x], types)
<1>1. /\ control[e] \in Seq(Message) /\ control[Peer(e)] \in Seq(Message)
      /\ control'[Peer(e)] = Append(control[Peer(e)], m)
      /\ control'[e] = control[e]
  BY SentQueue
<1>2. CASE x = e
  BY <1>1, <1>2, PeerType
<1>3. CASE x = Peer(e)
  <2>1. control[x] \in Seq(Message) /\ control'[x] = Append(control[x], m) /\ x # e
    BY <1>1, <1>3, PeerType
  <2>2. CASE m.type \in types
    BY <1>3, <2>1, <2>2, CarriedAppend
  <2>3. CASE m.type \notin types
    BY <1>3, <2>1, <2>3, CarriedAppend
  <2> QED
    BY <2>2, <2>3
<1> QED
  BY <1>2, <1>3, OneOfTwo

LEMMA ConsumeCarried ==
    ASSUME TypeOK, NEW e \in Endpoint, Consume(e), control[e] # << >>, NEW x \in Endpoint,
           NEW types
    PROVE  /\ x = Peer(e) \/ Head(control[e]).type \notin types
                => Carried(control'[x], types) = Carried(control[x], types)
           /\ x = e /\ Head(control[e]).type \in types
                => Carried(control[x], types)
                     = Carried(control'[x], types) \cup {Head(control[e])}
<1>1. /\ control[e] \in Seq(Message) /\ control[Peer(e)] \in Seq(Message)
      /\ control'[e] = Tail(control[e])
      /\ control'[Peer(e)] = control[Peer(e)]
  BY ConsumedQueue
<1>2. CASE x = e
  BY <1>1, <1>2, PeerType, CarriedTail
<1>3. CASE x = Peer(e)
  BY <1>1, <1>3, PeerType
<1> QED
  BY <1>2, <1>3, OneOfTwo

-----------------------------------------------------------------------------
(* The announcements of one endpoint, when it or its peer takes a step.    *)

LEMMA AnnouncedPlaces ==
    ASSUME Draft > 15, AnnounceInv, NEW x \in Endpoint
    PROVE  /\ Announced(x) = {o.request_id : o \in Carried(control[Peer(x)], {"PublishNamespace"})}
           /\ Announced(x) \cup Offers(x) \cup Welcomed(x)
                 \subseteq DOMAIN pending_sent_publish_namespace[x]
           /\ Announced(x) \cap Welcomed(x) = {}
           /\ Offers(x) \cap Welcomed(x) = {}
           /\ Single(control[x], {"PublishOk"})
<1>1. Announced(x) = {o.request_id : o \in Carried(control[Peer(x)], {"PublishNamespace"})}
  BY CarriedIds DEF Announced
<1>2. Draft > 10
  BY DraftAssumption
<1>3. AnnouncementsBacked
  BY DEF AnnounceInv
<1> QED
  BY <1>1, <1>2, <1>3 DEF AnnouncementsBacked

\* publish_namespace(): a fresh id.
LEMMA CalledNamespaces ==
    ASSUME TypeOK, Draft > 15, AnnounceInv, IdsBelowNext, NEW e \in Endpoint,
           NEW ns \in Namespace, PublishNamespaceCall(e, ns), NamespaceInv(e)
    PROVE  NamespaceInv(e)'
<1> DEFINE id == next_request_id[e]
           m == PublishNamespace(id, ns)
<1>1. id \in Nat
  BY DEF TypeOK
<1>2. /\ m \in Message /\ m.type = "PublishNamespace"
      /\ m.request_id = id /\ m.namespace = ns
  BY <1>1, ConstructorsType, DraftAssumption DEF PublishNamespace
<1>3. /\ Send(e, m)
      /\ pending_sent_publish_namespace' =
             [pending_sent_publish_namespace EXCEPT ![e] = Put(@, id, ns)]
      /\ next_request_id' = [next_request_id EXCEPT ![e] = id + 2]
      /\ UNCHANGED <<sent_namespaces, pending_received_publish_namespace, received_namespaces>>
  BY DEF PublishNamespaceCall, listenerVars
<1>4. id \notin DOMAIN pending_sent_publish_namespace[e]
  BY <1>1 DEF IdsBelowNext
<1>5. id \notin DOMAIN sent_namespaces[e] /\ id \notin Dones(e)
  BY <1>1 DEF NamespaceInv
<1> HIDE DEF m
<1>6. /\ pending_sent_publish_namespace'[e] = Put(pending_sent_publish_namespace[e], id, ns)
      /\ next_request_id'[e] = id + 2
  BY <1>3 DEF TypeOK, Maps
<1>7. \A n \in Nat : n < next_request_id[e] => n < next_request_id'[e]
  BY <1>1, <1>6
<1> HIDE DEF id
<1>8. /\ Carried(control'[Peer(e)], {"PublishNamespace"})
            = Carried(control[Peer(e)], {"PublishNamespace"}) \cup {m}
      /\ Carried(control'[Peer(e)], {"PublishNamespaceDone"})
            = Carried(control[Peer(e)], {"PublishNamespaceDone"})
      /\ Carried(control'[e], {"PublishOk"}) = Carried(control[e], {"PublishOk"})
  <2>1. m.type \in {"PublishNamespace"} /\ m.type \notin {"PublishNamespaceDone"}
    BY <1>2
  <2> QED
    BY <1>2, <1>3, <2>1, PeerType, SendCarried
<1>9. Welcomed(e)' = Welcomed(e) /\ Dones(e)' = Dones(e)
  BY <1>8, CarriedIds DEF Welcomed, Dones
<1>10. Offers(e)' = Offers(e)
  BY <1>3 DEF Offers
<1>11. /\ Announced(e) = {o.request_id : o \in Carried(control[Peer(e)], {"PublishNamespace"})}
       /\ Announced(e) \cup Offers(e) \cup Welcomed(e)
             \subseteq DOMAIN pending_sent_publish_namespace[e]
  BY AnnouncedPlaces
<1>12. /\ DOMAIN pending_sent_publish_namespace'[e]
             = DOMAIN pending_sent_publish_namespace[e] \cup {id}
       /\ pending_sent_publish_namespace'[e][id] = ns
       /\ \A i \in DOMAIN pending_sent_publish_namespace[e] :
             pending_sent_publish_namespace'[e][i] = pending_sent_publish_namespace[e][i]
  BY <1>4, <1>6 DEF Put
<1>13. \A i \in Welcomed(e)' :
          /\ i \in DOMAIN received_namespaces[Peer(e)]
          /\ received_namespaces[Peer(e)][i] = pending_sent_publish_namespace'[e][i]
  BY <1>9, <1>11, <1>12 DEF NamespaceInv
<1>14. \A i \in Offers(e)' :
          pending_received_publish_namespace[Peer(e)][i] = pending_sent_publish_namespace'[e][i]
  BY <1>10, <1>11, <1>12 DEF NamespaceInv
<1>15. ASSUME NEW o \in Carried(control'[Peer(e)], {"PublishNamespace"})
       PROVE  o.namespace = pending_sent_publish_namespace'[e][o.request_id]
  <2>1. CASE o = m
    BY <1>2, <1>12, <2>1
  <2>2. CASE o \in Carried(control[Peer(e)], {"PublishNamespace"})
    <3>1. o.request_id \in Announced(e)
      BY <1>11, <2>2
    <3> QED
      BY <1>11, <1>12, <2>2, <3>1 DEF NamespaceInv
  <2> QED
    BY <1>8, <2>1, <2>2
<1>16. /\ DOMAIN sent_namespaces'[e] \cap DOMAIN pending_sent_publish_namespace'[e] = {}
       /\ Dones(e)' \cap (DOMAIN sent_namespaces'[e]
                             \cup DOMAIN pending_sent_publish_namespace'[e]) = {}
  BY <1>3, <1>5, <1>9, <1>12 DEF NamespaceInv
<1>17. \A i \in DOMAIN sent_namespaces'[e] \cup Dones(e)' : i \in Nat /\ i < next_request_id'[e]
  BY <1>3, <1>7, <1>9 DEF NamespaceInv
<1> QED
  BY <1>3, <1>9, <1>13, <1>14, <1>15, <1>16, <1>17 DEF NamespaceInv

\* PUBLISH_NAMESPACE brings the namespace that was announced.
LEMMA ReceivedNamespaces ==
    ASSUME TypeOK, NEW e \in Endpoint, NEW x \in Endpoint, x = Peer(e),
           Arrived(e, "PublishNamespace"), Consume(e),
           pending_received_publish_namespace' =
               [pending_received_publish_namespace EXCEPT
                  ![e] = Put(@, Head(control[e]).request_id, Head(control[e]).namespace)],
           UNCHANGED <<sent_namespaces, pending_sent_publish_namespace, received_namespaces,
                       next_request_id>>,
           NamespaceInv(x)
    PROVE  NamespaceInv(x)'
<1> DEFINE m == Head(control[e])
<1>1. Peer(x) = e /\ x # e
  BY PeerType
<1>2. control[e] # << >> /\ m.type = "PublishNamespace"
  BY DEF Arrived
<1>3. pending_received_publish_namespace'[e]
         = Put(pending_received_publish_namespace[e], m.request_id, m.namespace)
  BY DEF TypeOK, Maps
<1> HIDE DEF m
<1>4. /\ Carried(control[e], {"PublishNamespace"})
            = Carried(control'[e], {"PublishNamespace"}) \cup {m}
      /\ Carried(control'[e], {"PublishNamespaceDone"})
            = Carried(control[e], {"PublishNamespaceDone"})
      /\ Carried(control'[x], {"PublishOk"}) = Carried(control[x], {"PublishOk"})
  <2>1. m.type \in {"PublishNamespace"} /\ m.type \notin {"PublishNamespaceDone"}
    BY <1>2
  <2> QED
    BY <1>2, <2>1, ConsumeCarried, ZenonT(60) DEF m
<1>5. Welcomed(x)' = Welcomed(x) /\ Dones(x)' = Dones(x)
  BY <1>1, <1>4, CarriedIds DEF Welcomed, Dones
<1>6. m.namespace = pending_sent_publish_namespace[x][m.request_id]
  BY <1>1, <1>4 DEF NamespaceInv
<1>7. /\ Offers(x)' = Offers(x) \cup {m.request_id}
      /\ \A i \in Offers(x)' : pending_received_publish_namespace'[e][i] =
            IF i = m.request_id THEN m.namespace ELSE pending_received_publish_namespace[e][i]
  BY <1>1, <1>3 DEF Offers, Put
<1>8. \A i \in Offers(x)' :
         pending_received_publish_namespace'[e][i] = pending_sent_publish_namespace[x][i]
  BY <1>1, <1>6, <1>7 DEF NamespaceInv
<1>9. \A o \in Carried(control'[e], {"PublishNamespace"}) :
         o.namespace = pending_sent_publish_namespace[x][o.request_id]
  BY <1>1, <1>4 DEF NamespaceInv
<1> QED
  BY <1>1, <1>5, <1>8, <1>9 DEF NamespaceInv

\* Accepting moves an announcement on with its namespace.
LEMMA AcceptedNamespaces ==
    ASSUME TypeOK, Draft > 15, AnnounceInv, NEW e \in Endpoint, NEW id,
           AcceptNamespacePublish(e, id), NEW x \in Endpoint, x = Peer(e), NamespaceInv(x)
    PROVE  NamespaceInv(x)'
<1> DEFINE m == PublishOk(id)
           ns == pending_received_publish_namespace[e][id]
<1>1. Peer(x) = e
  BY PeerType
<1>2. /\ id \in DOMAIN pending_received_publish_namespace[e]
      /\ Send(e, m)
      /\ pending_received_publish_namespace' =
             [pending_received_publish_namespace EXCEPT ![e] = Without(@, {id})]
      /\ received_namespaces' = [received_namespaces EXCEPT ![e] = Put(@, id, ns)]
      /\ UNCHANGED <<sent_namespaces, pending_sent_publish_namespace, next_request_id>>
  BY DEF AcceptNamespacePublish, Offered, announcerVars
<1>3. id \in Offers(x) /\ id \in Nat
  BY <1>1, <1>2 DEF Offers, TypeOK, Maps
<1>4. AsU16(id) = id
  BY <1>3 DEF AnnounceInv, AsU16
<1>5. m \in Message /\ m.type = "PublishOk" /\ m.request_id = id
  BY <1>3, <1>4, ConstructorsType DEF PublishOk
<1>6. id \in DOMAIN pending_sent_publish_namespace[x]
  BY <1>3, AnnouncedPlaces
<1>7. id \notin DOMAIN sent_namespaces[x] /\ ns = pending_sent_publish_namespace[x][id]
  BY <1>1, <1>3, <1>6 DEF NamespaceInv
<1> HIDE DEF m, ns
<1>8. /\ Carried(control'[e], {"PublishNamespace"}) = Carried(control[e], {"PublishNamespace"})
      /\ Carried(control'[e], {"PublishNamespaceDone"})
            = Carried(control[e], {"PublishNamespaceDone"})
      /\ Carried(control'[x], {"PublishOk"}) = Carried(control[x], {"PublishOk"}) \cup {m}
  <2>1. m.type \in {"PublishOk"}
    BY <1>5
  <2> QED
    BY <1>2, <1>5, <2>1, SendCarried
<1>9. Welcomed(x)' = Welcomed(x) \cup {id} /\ Dones(x)' = Dones(x)
  BY <1>1, <1>5, <1>8, CarriedIds DEF Welcomed, Dones
<1>10. /\ pending_received_publish_namespace'[e]
             = Without(pending_received_publish_namespace[e], {id})
       /\ received_namespaces'[e] = Put(received_namespaces[e], id, ns)
  BY <1>2 DEF TypeOK, Maps
<1>11. /\ DOMAIN received_namespaces'[e] = DOMAIN received_namespaces[e] \cup {id}
       /\ received_namespaces'[e][id] = ns
       /\ \A i \in DOMAIN received_namespaces[e] \ {id} :
             received_namespaces'[e][i] = received_namespaces[e][i]
  BY <1>10 DEF Put
<1>12. \A i \in Offers(x)' :
          pending_received_publish_namespace'[e][i] = pending_sent_publish_namespace[x][i]
  BY <1>1, <1>10 DEF NamespaceInv, Offers, Without
<1>13. /\ \A i \in DOMAIN sent_namespaces[x] :
             /\ i \in DOMAIN received_namespaces'[e]
             /\ received_namespaces'[e][i] = sent_namespaces[x][i]
       /\ \A i \in Welcomed(x)' :
             /\ i \in DOMAIN received_namespaces'[e]
             /\ received_namespaces'[e][i] = pending_sent_publish_namespace[x][i]
       /\ DOMAIN received_namespaces'[e]
             \subseteq DOMAIN sent_namespaces[x] \cup Welcomed(x)' \cup Dones(x)'
  BY <1>1, <1>7, <1>9, <1>11 DEF NamespaceInv
<1>14. \A o \in Carried(control'[e], {"PublishNamespace"}) :
          o.namespace = pending_sent_publish_namespace[x][o.request_id]
  BY <1>1, <1>8 DEF NamespaceInv
<1>15. /\ DOMAIN sent_namespaces[x] \cap DOMAIN pending_sent_publish_namespace[x] = {}
       /\ Dones(x)' \cap (DOMAIN sent_namespaces[x]
                             \cup DOMAIN pending_sent_publish_namespace[x]) = {}
       /\ \A i \in DOMAIN sent_namespaces[x] \cup Dones(x)' : i \in Nat /\ i < next_request_id[x]
  BY <1>9 DEF NamespaceInv
<1>16. /\ sent_namespaces'[x] = sent_namespaces[x]
       /\ pending_sent_publish_namespace'[x] = pending_sent_publish_namespace[x]
       /\ next_request_id'[x] = next_request_id[x]
       /\ Peer(x)' = e
  BY <1>1, <1>2
<1> QED
  BY <1>12, <1>13, <1>14, <1>15, <1>16 DEF NamespaceInv

\* PUBLISH_OK moves an announcement among those in force.
LEMMA WelcomedNamespaces ==
    ASSUME TypeOK, Draft > 15, AnnounceInv, IdsBelowNext, NEW e \in Endpoint,
           RecvPublishOk(e), NamespaceInv(e)
    PROVE  NamespaceInv(e)'
<1> DEFINE id == Head(control[e]).request_id
           ns == pending_sent_publish_namespace[e][id]
<1>1. Arrived(e, "PublishOk") /\ control[e] # << >> /\ Head(control[e]).type = "PublishOk"
  BY DEF RecvPublishOk, Arrived
<1>2. id \in DOMAIN pending_sent_publish_namespace[e]
  BY <1>1, AnnounceSettled
<1>3. /\ sent_namespaces' = [sent_namespaces EXCEPT ![e] = Put(@, id, ns)]
      /\ pending_sent_publish_namespace' =
             [pending_sent_publish_namespace EXCEPT ![e] = Without(@, {id})]
      /\ Consume(e)
      /\ UNCHANGED <<pending_received_publish_namespace, received_namespaces, next_request_id>>
  BY <1>2 DEF RecvPublishOk, listenerVars
<1>4. /\ Announced(e) = {o.request_id : o \in Carried(control[Peer(e)], {"PublishNamespace"})}
      /\ Announced(e) \cup Offers(e) \cup Welcomed(e)
            \subseteq DOMAIN pending_sent_publish_namespace[e]
      /\ Announced(e) \cap Welcomed(e) = {}
      /\ Offers(e) \cap Welcomed(e) = {}
      /\ Single(control[e], {"PublishOk"})
  BY AnnouncedPlaces
<1>5. id \in Welcomed(e) /\ Welcomed(e)' = Welcomed(e) \ {id}
  <2>1. Head(control[e]).type \in {"PublishOk"}
    BY <1>1
  <2> QED
    BY <1>1, <1>3, <1>4, <2>1, ConsumeIds DEF Welcomed
<1> HIDE DEF id, ns
<1>6. /\ Carried(control'[Peer(e)], {"PublishNamespace"})
            = Carried(control[Peer(e)], {"PublishNamespace"})
      /\ Carried(control'[Peer(e)], {"PublishNamespaceDone"})
            = Carried(control[Peer(e)], {"PublishNamespaceDone"})
  BY <1>1, <1>3, PeerType, ConsumeCarried, ZenonT(60)
<1>7. Dones(e)' = Dones(e) /\ Offers(e)' = Offers(e)
  BY <1>3, <1>6, CarriedIds DEF Dones, Offers
<1>8. /\ sent_namespaces'[e] = Put(sent_namespaces[e], id, ns)
      /\ pending_sent_publish_namespace'[e] = Without(pending_sent_publish_namespace[e], {id})
  BY <1>3 DEF TypeOK, Maps
<1>9. /\ DOMAIN sent_namespaces'[e] = DOMAIN sent_namespaces[e] \cup {id}
      /\ sent_namespaces'[e][id] = ns
      /\ \A i \in DOMAIN sent_namespaces[e] \ {id} :
            sent_namespaces'[e][i] = sent_namespaces[e][i]
  BY <1>8 DEF Put
<1>10. /\ DOMAIN pending_sent_publish_namespace'[e]
             = DOMAIN pending_sent_publish_namespace[e] \ {id}
       /\ \A i \in DOMAIN pending_sent_publish_namespace[e] \ {id} :
             pending_sent_publish_namespace'[e][i] = pending_sent_publish_namespace[e][i]
  BY <1>8 DEF Without
<1>11. /\ id \in DOMAIN received_namespaces[Peer(e)]
       /\ received_namespaces[Peer(e)][id] = ns
  BY <1>5 DEF NamespaceInv, ns
<1>12. id \notin DOMAIN sent_namespaces[e] /\ id \notin Dones(e)
  BY <1>2 DEF NamespaceInv
<1>13. id \in Nat /\ id < next_request_id[e]
  BY <1>2 DEF IdsBelowNext, TypeOK, Maps
<1>14. \A i \in DOMAIN sent_namespaces'[e] :
          /\ i \in DOMAIN received_namespaces[Peer(e)]
          /\ received_namespaces[Peer(e)][i] = sent_namespaces'[e][i]
  BY <1>9, <1>11 DEF NamespaceInv
<1>15. \A i \in Welcomed(e)' :
          /\ i \in DOMAIN received_namespaces[Peer(e)]
          /\ received_namespaces[Peer(e)][i] = pending_sent_publish_namespace'[e][i]
  BY <1>4, <1>5, <1>10 DEF NamespaceInv
<1>16. \A i \in Offers(e)' :
          pending_received_publish_namespace[Peer(e)][i] = pending_sent_publish_namespace'[e][i]
  BY <1>4, <1>5, <1>7, <1>10 DEF NamespaceInv
<1>17. ASSUME NEW o \in Carried(control[Peer(e)], {"PublishNamespace"})
       PROVE  o.namespace = pending_sent_publish_namespace'[e][o.request_id]
  <2>1. o.request_id \in Announced(e)
    BY <1>4
  <2>2. o.request_id \in DOMAIN pending_sent_publish_namespace[e] \ {id}
    BY <1>4, <1>5, <2>1
  <2> QED
    BY <1>10, <2>2 DEF NamespaceInv
<1>18. DOMAIN received_namespaces[Peer(e)]
          \subseteq DOMAIN sent_namespaces'[e] \cup Welcomed(e)' \cup Dones(e)'
  BY <1>5, <1>7, <1>9 DEF NamespaceInv
<1>19. /\ DOMAIN sent_namespaces'[e] \cap DOMAIN pending_sent_publish_namespace'[e] = {}
       /\ Dones(e)' \cap (DOMAIN sent_namespaces'[e]
                             \cup DOMAIN pending_sent_publish_namespace'[e]) = {}
  BY <1>7, <1>9, <1>10, <1>12 DEF NamespaceInv
<1>20. \A i \in DOMAIN sent_namespaces'[e] \cup Dones(e)' : i \in Nat /\ i < next_request_id[e]
  BY <1>7, <1>9, <1>13 DEF NamespaceInv
<1> QED
  BY <1>3, <1>6, <1>14, <1>15, <1>16, <1>17, <1>18, <1>19, <1>20 DEF NamespaceInv

\* publish_namespace_done() sends the withdrawal after the announcement's end.
LEMMA EndedNamespaces ==
    ASSUME TypeOK, Draft > 15, NEW e \in Endpoint, NEW id \in DOMAIN sent_namespaces[e],
           PublishNamespaceDoneCall(e, id), NamespaceInv(e)
    PROVE  NamespaceInv(e)'
<1> DEFINE m == PublishNamespaceDone(id, sent_namespaces[e][id])
<1>1. id \in Nat /\ sent_namespaces[e][id] \in Namespace
  BY DEF TypeOK, Maps
<1>2. m \in Message /\ m.type = "PublishNamespaceDone" /\ m.request_id = id
  BY <1>1, ConstructorsType, DraftAssumption DEF PublishNamespaceDone
<1>3. /\ Send(e, m)
      /\ sent_namespaces' = [sent_namespaces EXCEPT ![e] = Without(@, {id})]
      /\ UNCHANGED <<pending_sent_publish_namespace, pending_received_publish_namespace,
                     received_namespaces, next_request_id>>
  BY DEF PublishNamespaceDoneCall, listenerVars
<1> HIDE DEF m
<1>4. /\ Carried(control'[Peer(e)], {"PublishNamespaceDone"})
            = Carried(control[Peer(e)], {"PublishNamespaceDone"}) \cup {m}
      /\ Carried(control'[Peer(e)], {"PublishNamespace"})
            = Carried(control[Peer(e)], {"PublishNamespace"})
      /\ Carried(control'[e], {"PublishOk"}) = Carried(control[e], {"PublishOk"})
  <2>1. m.type \in {"PublishNamespaceDone"} /\ m.type \notin {"PublishNamespace"}
    BY <1>2
  <2> QED
    BY <1>2, <1>3, <2>1, PeerType, SendCarried, SMTT(30)
<1>5. /\ Dones(e)' = Dones(e) \cup {id}
      /\ Welcomed(e)' = Welcomed(e)
      /\ Offers(e)' = Offers(e)
  BY <1>2, <1>3, <1>4, CarriedIds DEF Dones, Welcomed, Offers
<1>6. sent_namespaces'[e] = Without(sent_namespaces[e], {id})
  BY <1>3 DEF TypeOK, Maps
<1>7. /\ DOMAIN sent_namespaces'[e] = DOMAIN sent_namespaces[e] \ {id}
      /\ \A i \in DOMAIN sent_namespaces[e] \ {id} :
            sent_namespaces'[e][i] = sent_namespaces[e][i]
  BY <1>6 DEF Without
<1>8. \A i \in DOMAIN sent_namespaces'[e] :
         /\ i \in DOMAIN received_namespaces[Peer(e)]
         /\ received_namespaces[Peer(e)][i] = sent_namespaces'[e][i]
  BY <1>7 DEF NamespaceInv
<1>9. DOMAIN received_namespaces[Peer(e)]
         \subseteq DOMAIN sent_namespaces'[e] \cup Welcomed(e)' \cup Dones(e)'
  BY <1>5, <1>7 DEF NamespaceInv
<1>10. /\ DOMAIN sent_namespaces'[e] \cap DOMAIN pending_sent_publish_namespace[e] = {}
       /\ Dones(e)' \cap (DOMAIN sent_namespaces'[e]
                             \cup DOMAIN pending_sent_publish_namespace[e]) = {}
  BY <1>5, <1>7 DEF NamespaceInv
<1>11. \A i \in DOMAIN sent_namespaces'[e] \cup Dones(e)' : i \in Nat /\ i < next_request_id[e]
  BY <1>5, <1>7 DEF NamespaceInv
<1> QED
  BY <1>3, <1>4, <1>5, <1>8, <1>9, <1>10, <1>11, ZenonT(60) DEF NamespaceInv

\* PUBLISH_NAMESPACE_DONE ends what its sender no longer counts.
LEMMA WithdrawnNamespaces ==
    ASSUME TypeOK, Draft > 15, AnnounceInv, NEW e \in Endpoint, RecvPublishNamespaceDone(e),
           NEW x \in Endpoint, x = Peer(e), NamespaceInv(x)
    PROVE  NamespaceInv(x)'
<1> DEFINE m == Head(control[e])
           id == m.request_id
<1>1. Peer(x) = e
  BY PeerType
<1>2. /\ control[e] # << >> /\ m.type = "PublishNamespaceDone" /\ Consume(e)
      /\ received_namespaces' = [received_namespaces EXCEPT ![e] = Without(@, Withdrawn(e, m))]
      /\ UNCHANGED <<sent_namespaces, pending_sent_publish_namespace, next_request_id,
                     pending_received_publish_namespace>>
  BY DEF RecvPublishNamespaceDone, Arrived, announcerVars
<1>3. Withdrawn(e, m) = {id}
  BY DraftAssumption DEF Withdrawn
<1> HIDE DEF m
<1>4. /\ Carried(control[e], {"PublishNamespaceDone"})
            = Carried(control'[e], {"PublishNamespaceDone"}) \cup {m}
      /\ Carried(control'[e], {"PublishNamespace"}) = Carried(control[e], {"PublishNamespace"})
      /\ Carried(control'[x], {"PublishOk"}) = Carried(control[x], {"PublishOk"})
  <2>1. m.type \in {"PublishNamespaceDone"} /\ m.type \notin {"PublishNamespace"}
    BY <1>2
  <2> QED
    BY <1>2, <2>1, ConsumeCarried, ZenonT(60) DEF m
<1>5. /\ Dones(x) = Dones(x)' \cup {id}
      /\ Welcomed(x)' = Welcomed(x)
      /\ Offers(x)' = Offers(x)
  <2>1. Dones(x) = {o.request_id : o \in Carried(control[e], {"PublishNamespaceDone"})}
    BY <1>1, CarriedIds DEF Dones
  <2>2. Dones(x)' = {o.request_id : o \in Carried(control'[e], {"PublishNamespaceDone"})}
    BY <1>1, CarriedIds DEF Dones
  <2>3. Welcomed(x)' = Welcomed(x) /\ Offers(x)' = Offers(x)
    BY <1>1, <1>2, <1>4, CarriedIds DEF Welcomed, Offers
  <2> QED
    BY <1>4, <2>1, <2>2, <2>3
<1> HIDE DEF id
<1>6. received_namespaces'[e] = Without(received_namespaces[e], {id})
  BY <1>2, <1>3 DEF TypeOK, Maps
<1>7. /\ DOMAIN received_namespaces'[e] = DOMAIN received_namespaces[e] \ {id}
      /\ \A i \in DOMAIN received_namespaces[e] \ {id} :
            received_namespaces'[e][i] = received_namespaces[e][i]
  BY <1>6 DEF Without
<1>8. /\ id \notin DOMAIN sent_namespaces[x]
      /\ id \notin DOMAIN pending_sent_publish_namespace[x]
  BY <1>5 DEF NamespaceInv
<1>9. id \notin Welcomed(x)
  BY <1>8, AnnouncedPlaces
<1>10. \A i \in DOMAIN sent_namespaces[x] :
          /\ i \in DOMAIN received_namespaces'[e]
          /\ received_namespaces'[e][i] = sent_namespaces[x][i]
  BY <1>1, <1>7, <1>8 DEF NamespaceInv
<1>11. \A i \in Welcomed(x) :
          /\ i \in DOMAIN received_namespaces'[e]
          /\ received_namespaces'[e][i] = pending_sent_publish_namespace[x][i]
  BY <1>1, <1>7, <1>9 DEF NamespaceInv
<1>12. DOMAIN received_namespaces'[e]
          \subseteq DOMAIN sent_namespaces[x] \cup Welcomed(x) \cup Dones(x)'
  BY <1>1, <1>5, <1>7 DEF NamespaceInv
<1> QED
  BY <1>1, <1>2, <1>4, <1>5, <1>10, <1>11, <1>12 DEF NamespaceInv

-----------------------------------------------------------------------------
(* Every step.                                                             *)

\* A message that the announcements of x do not travel in.
LEMMA QueuesSent ==
    ASSUME TypeOK, NEW e \in Endpoint, NEW m \in Message, Send(e, m), NEW x \in Endpoint,
           x = Peer(e) => m.type # "PublishOk",
           x = e => m.type \notin {"PublishNamespace", "PublishNamespaceDone"}
    PROVE  SameQueues(x)
<1>1. CASE x = e
  <2>1. m.type \notin {"PublishNamespace"} /\ m.type \notin {"PublishNamespaceDone"}
    BY <1>1
  <2>2. Carried(control'[x], {"PublishOk"}) = Carried(control[x], {"PublishOk"})
    BY <1>1, SendCarried
  <2>3. /\ Carried(control'[Peer(x)], {"PublishNamespace"})
              = Carried(control[Peer(x)], {"PublishNamespace"})
        /\ Carried(control'[Peer(x)], {"PublishNamespaceDone"})
              = Carried(control[Peer(x)], {"PublishNamespaceDone"})
    BY <2>1, PeerType, SendCarried
  <2> QED
    BY <2>2, <2>3 DEF SameQueues
<1>2. CASE x = Peer(e)
  <2>1. m.type \notin {"PublishOk"} /\ Peer(x) = e
    BY <1>2, PeerType
  <2> QED
    BY <1>2, <2>1, SendCarried DEF SameQueues
<1> QED
  BY <1>1, <1>2, OneOfTwo

LEMMA QueuesConsumed ==
    ASSUME TypeOK, NEW e \in Endpoint, Consume(e), control[e] # << >>, NEW x \in Endpoint,
           x = e => Head(control[e]).type # "PublishOk",
           x = Peer(e) => Head(control[e]).type \notin {"PublishNamespace", "PublishNamespaceDone"}
    PROVE  SameQueues(x)
<1>1. CASE x = e
  <2>1. Head(control[e]).type \notin {"PublishOk"}
    BY <1>1
  <2>2. Carried(control'[x], {"PublishOk"}) = Carried(control[x], {"PublishOk"})
    BY <1>1, <2>1, ConsumeCarried
  <2>3. \A types : Carried(control'[Peer(x)], types) = Carried(control[Peer(x)], types)
    BY <1>1, ConsumedQueue
  <2> QED
    BY <2>2, <2>3 DEF SameQueues
<1>2. CASE x = Peer(e)
  <2>1. /\ Head(control[e]).type \notin {"PublishNamespace"}
        /\ Head(control[e]).type \notin {"PublishNamespaceDone"}
        /\ Peer(x) = e
    BY <1>2, PeerType
  <2>2. /\ Carried(control'[e], {"PublishNamespace"}) = Carried(control[e], {"PublishNamespace"})
        /\ Carried(control'[e], {"PublishNamespaceDone"})
              = Carried(control[e], {"PublishNamespaceDone"})
    BY <2>1, ConsumeCarried
  <2>3. control'[x] = control[x]
    BY <1>2, ConsumedQueue
  <2> QED
    BY <2>1, <2>2, <2>3 DEF SameQueues
<1> QED
  BY <1>1, <1>2, OneOfTwo

LEMMA StillNamespaces ==
    ASSUME TypeOK, NEW x \in Endpoint, NamespaceInv(x),
           UNCHANGED <<sent_namespaces, pending_sent_publish_namespace, received_namespaces,
                       pending_received_publish_namespace, next_request_id, control>>
    PROVE  NamespaceInv(x)'
  BY UndisturbedKeeps DEF SameMaps, SameQueues

LEMMA PollNamespaces ==
    ASSUME TypeOK, Rest, Draft > 15, NEW e \in Endpoint, Poll(e),
           NEW x \in Endpoint, NamespaceInv(x)
    PROVE  NamespaceInv(x)'
<1> USE DEF setupVars, subscriberVars, publisherVars, announcerVars, listenerVars
<1>1. ASSUME Consume(e), control[e] # << >>,
             Head(control[e]).type \notin {"PublishNamespace", "PublishOk", "PublishNamespaceDone"},
             UNCHANGED <<sent_namespaces, pending_sent_publish_namespace, received_namespaces,
                         pending_received_publish_namespace, next_request_id>>
      PROVE  NamespaceInv(x)'
  <2>1. SameQueues(x)
    BY <1>1, QueuesConsumed
  <2>2. SameMaps(x)
    BY <1>1 DEF SameMaps
  <2> QED
    BY <2>1, <2>2, UndisturbedKeeps
<1>2. ASSUME NEW why, Panic(e, why)
      PROVE  NamespaceInv(x)'
  BY <1>2, StillNamespaces DEF Panic
<1>3. CASE RecvClientSetup(e)
  <2> DEFINE m == ServerSetup(OutMaxRequestId[e])
  <2>1. /\ e = "server" /\ control[e] # << >> /\ Head(control[e]).type = "ClientSetup"
        /\ control' = [control EXCEPT ![e] = Tail(@), ![Peer(e)] = Append(@, m)]
        /\ UNCHANGED <<sent_namespaces, pending_sent_publish_namespace, received_namespaces,
                       pending_received_publish_namespace, next_request_id>>
    BY <1>3, SetupRoles DEF RecvClientSetup, Rest, Arrived
  <2>2. m \in Message /\ m.type = "ServerSetup"
    <3>1. OutMaxRequestId[e] \in Nat
      BY OutMaxAssumption
    <3> QED
      BY <3>1, ConstructorsType DEF ServerSetup
  <2> HIDE DEF m
  <2>3. control'[e] = Tail(control[e]) /\ control'[Peer(e)] = Append(control[Peer(e)], m)
    BY <2>1, PeerType DEF TypeOK
  <2>4. control[e] \in Seq(Message) /\ control[Peer(e)] \in Seq(Message)
    BY PeerType DEF TypeOK
  <2>5. ASSUME NEW type \in {"PublishNamespace", "PublishOk", "PublishNamespaceDone"}
        PROVE  /\ Carried(control'[e], {type}) = Carried(control[e], {type})
               /\ Carried(control'[Peer(e)], {type}) = Carried(control[Peer(e)], {type})
    <3>1. Head(control[e]).type \notin {type} /\ m.type \notin {type}
      BY <2>1, <2>2
    <3>2. Carried(control'[e], {type}) = Carried(control[e], {type})
      BY <2>1, <2>3, <2>4, <3>1, CarriedTail
    <3>3. Carried(control'[Peer(e)], {type}) = Carried(control[Peer(e)], {type})
      BY <2>2, <2>3, <2>4, <3>1, CarriedAppend
    <3> QED
      BY <3>2, <3>3
  <2>6. SameQueues(x)
    BY <2>5, OneOfTwo, PeerType DEF SameQueues
  <2>7. SameMaps(x)
    BY <2>1 DEF SameMaps
  <2> QED
    BY <2>6, <2>7, UndisturbedKeeps
<1>4. CASE RecvServerSetup(e)
  <2>1. e = "client"
    BY <1>4, SetupRoles DEF RecvServerSetup, Rest
  <2> QED
    BY <1>1, <1>4, <2>1 DEF RecvServerSetup, Arrived
<1>5. CASE RecvSubscribe(e)
  BY <1>1, <1>5 DEF RecvSubscribe, Arrived
<1>6. CASE RecvSubscribeOk(e)
  <2>1. CASE Head(control[e]).request_id \in pending_subscribe[e]
    BY <1>1, <1>6, <2>1 DEF RecvSubscribeOk, Arrived
  <2>2. CASE Head(control[e]).request_id \notin pending_subscribe[e]
    BY <1>2, <1>6, <2>2 DEF RecvSubscribeOk
  <2> QED
    BY <2>1, <2>2
<1>7. CASE RecvRequestError(e)
  <2>1. CASE Head(control[e]).request_id \in pending_subscribe[e]
    BY <1>1, <1>7, <2>1 DEF RecvRequestError, Arrived
  <2>2. CASE Head(control[e]).request_id \notin pending_subscribe[e]
    BY <1>2, <1>7, <2>2 DEF RecvRequestError
  <2> QED
    BY <2>1, <2>2
<1>8. CASE RecvPublishDone(e)
  BY <1>1, <1>8 DEF RecvPublishDone, Arrived
<1>9. CASE RecvPublishNamespace(e)
  <2> DEFINE fault == PublishNamespaceFault(e, Head(control[e]))
  <2>1. CASE fault = "no"
    <3>1. /\ Arrived(e, "PublishNamespace") /\ Consume(e) /\ control[e] # << >>
          /\ Head(control[e]).type = "PublishNamespace"
          /\ pending_received_publish_namespace' =
                 [pending_received_publish_namespace EXCEPT
                    ![e] = Put(@, Head(control[e]).request_id, Head(control[e]).namespace)]
          /\ UNCHANGED <<sent_namespaces, pending_sent_publish_namespace, received_namespaces,
                         next_request_id>>
      BY <1>9, <2>1 DEF RecvPublishNamespace, Arrived
    <3>2. CASE x = e
      <4>1. SameQueues(x)
        BY <3>1, <3>2, QueuesConsumed, PeerType
      <4>2. SameMaps(x)
        BY <3>1, <3>2, PeerType DEF SameMaps, TypeOK, Maps
      <4> QED
        BY <4>1, <4>2, UndisturbedKeeps
    <3>3. CASE x = Peer(e)
      BY <3>1, <3>3, ReceivedNamespaces
    <3> QED
      BY <3>2, <3>3, OneOfTwo
  <2>2. CASE fault # "no"
    BY <1>2, <1>9, <2>2 DEF RecvPublishNamespace
  <2> QED
    BY <2>1, <2>2
<1>10. CASE RecvPublishOk(e)
  <2>1. CASE x = e
    BY <1>10, <2>1, WelcomedNamespaces DEF Rest
  <2>2. CASE x = Peer(e)
    <3>1. Arrived(e, "PublishOk") /\ control[e] # << >> /\ Head(control[e]).type = "PublishOk"
      BY <1>10 DEF RecvPublishOk, Arrived
    <3>2. Head(control[e]).request_id \in DOMAIN pending_sent_publish_namespace[e]
      BY <3>1, AnnounceSettled DEF Rest
    <3>3. SameQueues(x)
      BY <1>10, <2>2, <3>1, <3>2, QueuesConsumed, PeerType DEF RecvPublishOk
    <3>4. SameMaps(x)
      BY <1>10, <2>2, <3>2, PeerType DEF RecvPublishOk, SameMaps, TypeOK, Maps
    <3> QED
      BY <3>3, <3>4, UndisturbedKeeps
  <2> QED
    BY <2>1, <2>2, OneOfTwo
<1>11. CASE RecvPublishNamespaceDone(e)
  <2>1. CASE x = Peer(e)
    BY <1>11, <2>1, WithdrawnNamespaces DEF Rest
  <2>2. CASE x = e
    <3>1. /\ control[e] # << >> /\ Head(control[e]).type = "PublishNamespaceDone"
          /\ Consume(e)
      BY <1>11 DEF RecvPublishNamespaceDone, Arrived
    <3>2. SameQueues(x)
      BY <2>2, <3>1, QueuesConsumed, PeerType
    <3>3. SameMaps(x)
      BY <1>11, <2>2, PeerType DEF RecvPublishNamespaceDone, SameMaps, TypeOK, Maps
    <3> QED
      BY <3>2, <3>3, UndisturbedKeeps
  <2> QED
    BY <2>1, <2>2, OneOfTwo
<1> QED
  BY <1>3, <1>4, <1>5, <1>6, <1>7, <1>8, <1>9, <1>10, <1>11 DEF Poll

LEMMA CallNamespaces ==
    ASSUME TypeOK, Rest, Draft > 15, NEW e \in Endpoint, Call(e),
           NEW x \in Endpoint, NamespaceInv(x)
    PROVE  NamespaceInv(x)'
<1> USE DEF setupVars, subscriberVars, publisherVars, announcerVars, listenerVars
<1>1. ASSUME NEW m \in Message, Send(e, m),
             m.type \notin {"PublishNamespace", "PublishOk", "PublishNamespaceDone"},
             UNCHANGED <<sent_namespaces, pending_sent_publish_namespace, received_namespaces,
                         pending_received_publish_namespace>>,
             next_request_id'[x] \in {next_request_id[x], next_request_id[x] + 2}
      PROVE  NamespaceInv(x)'
  <2>1. SameQueues(x)
    BY <1>1, QueuesSent
  <2>2. SameMaps(x)
    BY <1>1 DEF SameMaps
  <2> QED
    BY <2>1, <2>2, UndisturbedKeeps
<1>2. CASE SubscribeCall(e)
  <2> DEFINE m == Subscribe(next_request_id[e])
  <2>1. m \in Message /\ m.type = "Subscribe"
    <3>1. next_request_id[e] \in Nat
      BY DEF TypeOK
    <3> QED
      BY <3>1, ConstructorsType DEF Subscribe
  <2>2. Send(e, m)
    BY <1>2 DEF SubscribeCall
  <2>3. next_request_id'[x] \in {next_request_id[x], next_request_id[x] + 2}
    BY <1>2 DEF SubscribeCall, TypeOK
  <2> HIDE DEF m
  <2> QED
    BY <1>1, <1>2, <2>1, <2>2, <2>3 DEF SubscribeCall
<1>3. ASSUME NEW ns \in Namespace, PublishNamespaceCall(e, ns)
      PROVE  NamespaceInv(x)'
  <2> DEFINE m == PublishNamespace(next_request_id[e], ns)
  <2>1. CASE x = e
    BY <1>3, <2>1, CalledNamespaces DEF Rest
  <2>2. CASE x = Peer(e)
    <3>1. m \in Message /\ m.type = "PublishNamespace"
      <4>1. next_request_id[e] \in Nat
        BY DEF TypeOK
      <4> QED
        BY <4>1, ConstructorsType DEF PublishNamespace
    <3>2. Send(e, m)
      BY <1>3 DEF PublishNamespaceCall
    <3> HIDE DEF m
    <3>3. SameQueues(x)
      BY <2>2, <3>1, <3>2, QueuesSent, PeerType
    <3>4. SameMaps(x)
      BY <1>3, <2>2, PeerType DEF PublishNamespaceCall, SameMaps, TypeOK, Maps
    <3> QED
      BY <3>3, <3>4, UndisturbedKeeps
  <2> QED
    BY <2>1, <2>2, OneOfTwo
<1>4. ASSUME NEW id \in pending_received_subscriptions[e], AcceptSubscription(e, id)
      PROVE  NamespaceInv(x)'
  <2> DEFINE m == SubscribeOk(id, GrantedAlias(e, id))
  <2>1. m \in Message /\ m.type = "SubscribeOk"
    <3>1. id \in Nat /\ GrantedAlias(e, id) \in Nat
      BY DEF TypeOK, GrantedAlias
    <3> QED
      BY <3>1, ConstructorsType DEF SubscribeOk
  <2>2. Send(e, m)
    BY <1>4 DEF AcceptSubscription
  <2> HIDE DEF m
  <2> QED
    BY <1>1, <1>4, <2>1, <2>2 DEF AcceptSubscription
<1>5. ASSUME NEW id \in pending_received_subscriptions[e], RejectSubscription(e, id)
      PROVE  NamespaceInv(x)'
  <2>1. CASE RequestErrorSupported
    <3> DEFINE m == RequestError(id)
    <3>1. m \in Message /\ m.type = "RequestError"
      <4>1. id \in Nat
        BY DEF TypeOK
      <4> QED
        BY <4>1, ConstructorsType DEF RequestError
    <3>2. Send(e, m)
      BY <1>5, <2>1 DEF RejectSubscription
    <3> HIDE DEF m
    <3> QED
      BY <1>1, <1>5, <2>1, <3>1, <3>2 DEF RejectSubscription
  <2>2. CASE ~RequestErrorSupported
    BY <1>5, <2>2, StillNamespaces DEF RejectSubscription, Panic
  <2> QED
    BY <2>1, <2>2
<1>6. ASSUME NEW id \in DOMAIN pending_received_publish_namespace[e],
             AcceptNamespacePublish(e, id)
      PROVE  NamespaceInv(x)'
  <2> DEFINE m == PublishOk(id)
  <2>1. CASE x = Peer(e)
    BY <1>6, <2>1, AcceptedNamespaces DEF Rest
  <2>2. CASE x = e
    <3>1. m \in Message /\ m.type = "PublishOk"
      <4>1. id \in Nat
        BY DEF TypeOK, Maps
      <4> QED
        BY <4>1, ConstructorsType DEF PublishOk
    <3>2. Send(e, m)
      BY <1>6 DEF AcceptNamespacePublish
    <3> HIDE DEF m
    <3>3. SameQueues(x)
      BY <2>2, <3>1, <3>2, QueuesSent, PeerType
    <3>4. SameMaps(x)
      BY <1>6, <2>2, PeerType DEF AcceptNamespacePublish, SameMaps, TypeOK, Maps
    <3> QED
      BY <3>3, <3>4, UndisturbedKeeps
  <2> QED
    BY <2>1, <2>2, OneOfTwo
<1>7. ASSUME NEW id, PollSubscribeResponse(e, id)
      PROVE  NamespaceInv(x)'
  BY <1>7, StillNamespaces DEF PollSubscribeResponse
<1>8. ASSUME NEW id \in DOMAIN accepted[e], PublishDoneCall(e, id)
      PROVE  NamespaceInv(x)'
  <2> DEFINE m == PublishDone(id)
  <2>1. m \in Message /\ m.type = "PublishDone"
    <3>1. id \in Nat
      BY DEF TypeOK, Maps
    <3> QED
      BY <3>1, ConstructorsType DEF PublishDone
  <2>2. Send(e, m)
    BY <1>8 DEF PublishDoneCall
  <2> HIDE DEF m
  <2> QED
    BY <1>1, <1>8, <2>1, <2>2 DEF PublishDoneCall
<1>9. ASSUME NEW id \in DOMAIN sent_namespaces[e], PublishNamespaceDoneCall(e, id)
      PROVE  NamespaceInv(x)'
  <2> DEFINE m == PublishNamespaceDone(id, sent_namespaces[e][id])
  <2>1. CASE x = e
    BY <1>9, <2>1, EndedNamespaces
  <2>2. CASE x = Peer(e)
    <3>1. m \in Message /\ m.type = "PublishNamespaceDone"
      <4>1. id \in Nat /\ sent_namespaces[e][id] \in Namespace
        BY DEF TypeOK, Maps
      <4> QED
        BY <4>1, ConstructorsType DEF PublishNamespaceDone
    <3>2. Send(e, m)
      BY <1>9 DEF PublishNamespaceDoneCall
    <3> HIDE DEF m
    <3>3. SameQueues(x)
      BY <2>2, <3>1, <3>2, QueuesSent, PeerType
    <3>4. SameMaps(x)
      BY <1>9, <2>2, PeerType DEF PublishNamespaceDoneCall, SameMaps, TypeOK, Maps
    <3> QED
      BY <3>3, <3>4, UndisturbedKeeps
  <2> QED
    BY <2>1, <2>2, OneOfTwo
<1> QED
  BY <1>2, <1>3, <1>4, <1>5, <1>6, <1>7, <1>8, <1>9
  DEF Call, AnswerSubscription, AnswerNamespace

-----------------------------------------------------------------------------
(* The theorem.                                                            *)

Namespaces == \A x \in Endpoint : NamespaceInv(x)

LEMMA InitNamespaces == Init => Namespaces
<1> SUFFICES ASSUME Init, NEW x \in Endpoint PROVE NamespaceInv(x)
  BY DEF Namespaces
<1> DEFINE setup == ClientSetup(OutMaxRequestId["client"])
<1>1. control["client"] = << >> /\ control["server"] = << setup >>
  BY DEF Init, Endpoint
<1>2. setup.type = "ClientSetup"
  BY DEF ClientSetup
<1> HIDE DEF setup
<1>3. ASSUME NEW y \in Endpoint, NEW types, "ClientSetup" \notin types
      PROVE  Places(control[y], types) = {}
  BY <1>1, <1>2, <1>3 DEF Places, Endpoint
<1>4. /\ Welcomed(x) = {} /\ Dones(x) = {}
      /\ Carried(control[Peer(x)], {"PublishNamespace"}) = {}
  BY <1>3, PeerType DEF Welcomed, Dones, Ids, Carried
<1>5. /\ DOMAIN sent_namespaces[x] = {}
      /\ DOMAIN received_namespaces[Peer(x)] = {}
      /\ Offers(x) = {}
  BY PeerType DEF Init, EmptyMap, Offers
<1> QED
  BY <1>4, <1>5 DEF NamespaceInv

\* From draft 16 on, both sides agree on the namespaces in force: where they
\* differ, an acceptance or a withdrawal is under way.
THEOREM NamespacesAgree ==
    ASSUME Draft > 15
    PROVE  Spec => []NamespaceAgreement
<1>1. TypeOK /\ Rest /\ Namespaces /\ [Next]_vars => Namespaces'
  <2> SUFFICES ASSUME TypeOK, Rest, Namespaces, [Next]_vars, NEW x \in Endpoint
               PROVE  NamespaceInv(x)'
    BY DEF Namespaces
  <2>1. NamespaceInv(x)
    BY DEF Namespaces
  <2>2. CASE Next
    BY <2>1, <2>2, PollNamespaces, CallNamespaces DEF Next
  <2>3. CASE UNCHANGED vars
    BY <2>1, <2>3, StillNamespaces DEF vars, announcerVars, listenerVars
  <2> QED
    BY <2>2, <2>3
<1>2. Namespaces => NamespaceAgreement
  <2> SUFFICES ASSUME Namespaces, NEW e \in Endpoint
               PROVE  /\ \A id \in DOMAIN sent_namespaces[e] :
                            /\ id \in DOMAIN received_namespaces[Peer(e)]
                            /\ received_namespaces[Peer(e)][id] = sent_namespaces[e][id]
                      /\ \A id \in DOMAIN received_namespaces[Peer(e)] :
                            \/ id \in DOMAIN sent_namespaces[e]
                            \/ id \in Welcomed(e)
                            \/ id \in Dones(e)
    BY DEF NamespaceAgreement
  <2> QED
    BY DEF Namespaces, NamespaceInv
<1> QED
  BY InductiveInvariant, InitNamespaces, <1>1, <1>2, PTL DEF Spec

=============================================================================
