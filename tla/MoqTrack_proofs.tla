--------------------------- MODULE MoqTrack_proofs ---------------------------
(***************************************************************************)
(* Proofs about MoqTrack: its types, how streams are filed and counted,    *)
(* and that it implements SubgroupDelivery.                                *)
(***************************************************************************)
EXTENDS MoqTrack, SequenceTheorems, FiniteSetTheorems, WellFoundedInduction, TLAPS

(***************************************************************************)
(* The inductive invariant.                                                *)
(***************************************************************************)

\* Types, as far as they are used: the publisher's, those of QUIC and WebTransport,
\* the subscriber's session's, its application's.  TypeOK follows.
OutStreamType ==
    [state : {"SubgroupHeader", "ObjectHeader", "ObjectPayload"}, group_id : Group,
     next_object_id : 0..MaxObjectId + 1, size : Size \cup {0}, remaining : Nat]

InStreamType == [subgroup_header : BOOLEAN, remaining : Nat, buf : Seq(Unit)]

OutTypes ==
    /\ opened \in 0..MaxStream
    /\ current_stream_id \in (1..opened) \cup {None}
    /\ DOMAIN out_streams \subseteq 1..opened
    /\ \A s \in DOMAIN out_streams : out_streams[s] \in OutStreamType
    /\ published \in BOOLEAN
    /\ written \in [Stream -> Seq(Object)]

NetTypes ==
    /\ wire \in [Stream -> Seq(Unit)]
    /\ inbound \in [Stream -> Seq(Unit)]
    /\ ending \in [Stream -> {"open", "fin", "reset"}]
    /\ ended \in [Stream -> BOOLEAN]
    /\ wt_finished \subseteq wt_streams
    /\ wt_streams \subseteq 1..opened

InTypes ==
    /\ DOMAIN in_streams \subseteq 1..opened
    /\ \A s \in DOMAIN in_streams :
          in_streams[s] \in InStreamType /\ Len(in_streams[s].buf) <= BufLen
    /\ in_track \in BOOLEAN
    /\ pending_stream \in Stream \cup {None}
    /\ readable_streams \subseteq Stream
    /\ finned_streams \in Nat
    /\ expected_streams \in {None, 0}

AppTypes ==
    /\ received \in [Stream -> Seq(Object)]
    /\ obj_hdr # NoObject =>
          obj_hdr \in [stream : Stream, id : Id, size : Size, payload : Seq(Unit)]
    /\ track_fin \in BOOLEAN
    /\ panicked \in PanicReason

\* SUBSCRIBE_OK comes first, and PUBLISH_DONE last.
ControlInv ==
    /\ control \in Seq({"SubscribeOk", "PublishDone"})
    /\ \A i \in 1..Len(control) :
          /\ control[i] = "SubscribeOk" => i = 1
          /\ control[i] = "PublishDone" => i = Len(control) /\ published

\* Only the current stream is written, and what is not open has nothing.
WriterInv ==
    /\ current_stream_id # None =>
          /\ current_stream_id \in DOMAIN out_streams
          /\ ending[current_stream_id] = "open"
    /\ \A s \in Stream : s > opened =>
          /\ wire[s] = << >> /\ inbound[s] = << >>
          /\ written[s] = << >> /\ received[s] = << >>
          /\ ending[s] = "open" /\ ~ended[s]

\* What has ended is complete, and what WebTransport has dropped has ended.
EndInv ==
    /\ \A s \in Stream : ended[s] => wire[s] = << >> /\ ending[s] # "open"
    /\ \A s \in wt_finished : ended[s]
    /\ \A s \in DOMAIN in_streams : s \in wt_streams \/ ended[s]

ReaderInv ==
    /\ \A s \in DOMAIN in_streams :
          /\ ~in_streams[s].subgroup_header =>
                 in_streams[s].buf = << >> /\ in_streams[s].remaining = 0
          /\ in_streams[s].remaining # 0 => obj_hdr.stream = s
    /\ obj_hdr # NoObject =>
          /\ in_track
          /\ obj_hdr.stream \in readable_streams
          /\ in_streams[obj_hdr.stream].remaining = obj_hdr.size - Len(obj_hdr.payload)
          /\ Len(obj_hdr.payload) < obj_hdr.size

\* Streams that have been counted as finished, among others.
Counted == {s \in Stream : /\ ended[s] /\ inbound[s] = << >>
                           /\ s \notin readable_streams /\ s # pending_stream}

CountInv == finned_streams <= Cardinality(Counted)

\* The units of stream s from the object that the application has not completed
\* to the last one sent, the subgroup header before them: it is kept here when it
\* has been read, and so is the object being read.
Reading(s) ==
    IF obj_hdr.stream = s
    THEN << ObjectHeader(obj_hdr.id, obj_hdr.size) >> \o obj_hdr.payload ELSE << >>
Held(s) ==
    IF InStream(s).subgroup_header THEN SubgroupHeader \o (Reading(s) \o InStream(s).buf)
    ELSE << >>
Sent(s) == Held(s) \o (inbound[s] \o wire[s])

IsHeader(V, i) == V[i].kind = "object"
EndOf(V, i) == i + V[i].size

\* After the subgroup header there are objects, each with its payload, of which
\* only the last may be cut off.
Framed(s, V) ==
    /\ V \in Seq(Unit)
    /\ V # << >> => Len(V) >= HeaderLen
    /\ \A i \in 1..Len(V) : i <= HeaderLen => V[i].kind = "subgroup"
    /\ Len(V) > HeaderLen => IsHeader(V, HeaderLen + 1)
    /\ \A i \in 1..Len(V) : IsHeader(V, i) =>
          /\ \A j \in 1..V[i].size : i + j <= Len(V) => V[i + j] = Payload(s, V[i].id, j)
          /\ EndOf(V, i) < Len(V) => IsHeader(V, EndOf(V, i) + 1)

Numbering == [Nat -> Nat]

\* The object whose header is at i is number num[i] of those written, if it is
\* complete; the first one follows the n objects that have been received.
Numbered(s, V, W, n, num) ==
    /\ Len(V) > HeaderLen => num[HeaderLen + 1] = n + 1
    /\ \A i \in 1..Len(V) : IsHeader(V, i) =>
          /\ EndOf(V, i) < Len(V) => num[EndOf(V, i) + 1] = num[i] + 1
          /\ EndOf(V, i) <= Len(V) =>
                num[i] \in 1..Len(W) /\ W[num[i]] = WholeObject(s, V[i].id, V[i].size)

\* The object at i is the one being written.
Unfinished(V, W, num, st, i) ==
    /\ IsHeader(V, i)
    /\ V[i].id = st.next_object_id - 1
    /\ V[i].size = st.size
    /\ EndOf(V, i) = Len(V) + st.remaining
    /\ num[i] = Len(W) + 1
    /\ \A j \in 1..Len(V) : IsHeader(V, j) /\ j # i => EndOf(V, j) < i

\* Where the OutStream st is in what it has sent.
WrittenTo(V, W, n, num, st) ==
    /\ st.state = "SubgroupHeader" => V = << >> /\ W = << >> /\ n = 0
    /\ st.state = "ObjectHeader" =>
          /\ Len(V) >= HeaderLen
          /\ Len(V) = HeaderLen => n = Len(W)
          /\ \A i \in 1..Len(V) : IsHeader(V, i) =>
                EndOf(V, i) <= Len(V) /\ (EndOf(V, i) = Len(V) => num[i] = Len(W))
    /\ st.state = "ObjectPayload" =>
          st.remaining > 0 /\ \E i \in 1..Len(V) : Unfinished(V, W, num, st, i)

StreamOK(s, num) ==
    /\ Framed(s, Sent(s))
    /\ Numbered(s, Sent(s), written[s], Len(received[s]), num)
    /\ s = current_stream_id =>
          WrittenTo(Sent(s), written[s], Len(received[s]), num, out_streams[s])

StreamInv == \A s \in Stream : \E num \in Numbering : StreamOK(s, num)

Inv ==
    /\ OutTypes
    /\ NetTypes
    /\ InTypes
    /\ AppTypes
    /\ ControlInv
    /\ WriterInv
    /\ EndInv
    /\ ReaderInv
    /\ StreamsFiled
    /\ CountInv
    /\ StreamInv

(***************************************************************************)
(* Numbers, units and sequences.                                           *)
(***************************************************************************)

LEMMA Constants ==
    /\ HeaderLen \in Nat /\ HeaderLen > 0 /\ BufLen \in Nat /\ BufLen >= HeaderLen
    /\ Size \subseteq Nat \ {0}
    /\ MaxStream \in Nat
    /\ None \notin Stream
    /\ Id \subseteq Nat
BY LengthsAssumption, BoundsAssumption DEF Stream, None, Id

\* A set of streams that is not empty has a first one.
LEMMA FirstStream ==
    ASSUME NEW S \in SUBSET Stream, S # {}
    PROVE  /\ CurrentStream(S) \in S
           /\ \A t \in S : CurrentStream(S) <= t
<1> DEFINE R == {p \in Nat \X Nat : p[1] < p[2]}
<1>1. IsWellFoundedOn(R, Nat)
  BY NatLessThanWellFounded, Zenon DEF OpToRel
<1>2. S \subseteq Nat
  BY DEF Stream
<1>3. PICK x \in S : \A y \in S : ~(<<y, x>> \in R)
  BY <1>1, <1>2, WFMin, Zenon
<1>4. \A y \in Nat : y < x => <<y, x>> \in R
  BY <1>2
<1>5. \A y \in S : ~(y < x)
  BY <1>2, <1>3, <1>4, Zenon
<1>6. \A y \in S : x <= y
  BY <1>2, <1>5
<1> QED
  BY <1>6, Zenon DEF CurrentStream, Min

\* The lesser of two numbers.
LEMMA MinOfTwo ==
    ASSUME NEW a \in Int, NEW b \in Int
    PROVE  Min({a, b}) = IF a <= b THEN a ELSE b
<1> DEFINE m == IF a <= b THEN a ELSE b
<1>1. m \in {a, b} /\ \A y \in {a, b} : m <= y
  OBVIOUS
<1>2. \A x \in {a, b} : (\A y \in {a, b} : x <= y) => x = m
  OBVIOUS
<1> QED
  BY <1>1, <1>2, Zenon DEF Min

LEMMA Units ==
    /\ [kind |-> "subgroup"] \in Unit
    /\ \A id \in Id, size \in Size : ObjectHeader(id, size) \in Unit
    /\ \A s \in Stream, id \in Id, i \in Nat \ {0} : Payload(s, id, i) \in Unit
    /\ \A id, size : /\ ObjectHeader(id, size).kind = "object"
                     /\ ObjectHeader(id, size).id = id
                     /\ ObjectHeader(id, size).size = size
    /\ \A s, id, i : Payload(s, id, i).kind = "payload"
BY DEF Unit, ObjectHeader, Payload, PayloadUnit

LEMMA UnitKinds ==
    ASSUME NEW u \in Unit
    PROVE  /\ u.kind \in {"subgroup", "object", "payload"}
           /\ u.kind = "subgroup" => u = [kind |-> "subgroup"]
           /\ u.kind = "object" => /\ u.id \in Id /\ u.size \in Size
                                   /\ u.size \in Nat /\ u.size > 0
                                   /\ u = ObjectHeader(u.id, u.size)
<1>1. CASE u \in [kind : {"subgroup"}]
  BY <1>1
<1>2. CASE u \in [kind : {"object"}, id : Id, size : Size]
  <2>1. u = [kind |-> u.kind, id |-> u.id, size |-> u.size] /\ u.kind = "object"
    BY <1>2
  <2>2. u.id \in Id /\ u.size \in Size
    BY <1>2
  <2> QED
    BY <2>1, <2>2, Constants DEF ObjectHeader
<1>3. CASE u \in PayloadUnit
  BY <1>3 DEF PayloadUnit
<1> QED
  BY <1>1, <1>2, <1>3 DEF Unit

LEMMA HeaderUnits ==
    /\ SubgroupHeader \in Seq(Unit)
    /\ Len(SubgroupHeader) = HeaderLen
    /\ \A i \in 1..HeaderLen : SubgroupHeader[i] = [kind |-> "subgroup"]
<1>1. \A i \in 1..HeaderLen : [kind |-> "subgroup"] \in Unit
  BY Units
<1>2. SubgroupHeader \in [1..HeaderLen -> Unit]
  BY <1>1 DEF SubgroupHeader
<1> QED
  BY <1>2, Constants DEF SubgroupHeader

(***************************************************************************)
(* The framing of a stream: what an appended header, appended payload, an  *)
(* object taken from the front, and a cut leave of it.                     *)
(***************************************************************************)

LEMMA FrameTypes ==
    ASSUME NEW s \in Stream, NEW V, Framed(s, V)
    PROVE  /\ V \in Seq(Unit) /\ Len(V) \in Nat
           /\ \A i \in 1..Len(V) : V[i] \in Unit
           /\ \A i \in 1..Len(V) : IsHeader(V, i) =>
                 /\ i > HeaderLen
                 /\ V[i].id \in Id /\ V[i].size \in Size
                 /\ V[i].size \in Nat /\ V[i].size > 0
                 /\ EndOf(V, i) \in Nat /\ EndOf(V, i) > i
<1>1. V \in Seq(Unit) /\ Len(V) \in Nat
  BY DEF Framed
<1>2. \A i \in 1..Len(V) : V[i] \in Unit
  BY <1>1
<1>3. ASSUME NEW i \in 1..Len(V), IsHeader(V, i)
      PROVE  /\ i > HeaderLen
             /\ V[i].id \in Id /\ V[i].size \in Size
             /\ V[i].size \in Nat /\ V[i].size > 0
             /\ EndOf(V, i) \in Nat /\ EndOf(V, i) > i
  <2>1. i > HeaderLen
    BY <1>3, Constants DEF Framed, IsHeader
  <2>2. V[i].id \in Id /\ V[i].size \in Size /\ V[i].size \in Nat /\ V[i].size > 0
    BY <1>2, <1>3, UnitKinds DEF IsHeader
  <2> QED
    BY <2>1, <2>2 DEF EndOf
<1> QED
  BY <1>1, <1>2, <1>3

\* A header does not lie in the payload of an earlier object.
LEMMA HeadersApart ==
    ASSUME NEW s \in Stream, NEW V, Framed(s, V),
           NEW i \in 1..Len(V), NEW j \in 1..Len(V), IsHeader(V, i), IsHeader(V, j), j < i
    PROVE  EndOf(V, j) < i
<1>1. V[j].size \in Nat /\ i \in Nat /\ j \in Nat
  BY FrameTypes
<1>2. SUFFICES ASSUME i <= EndOf(V, j) PROVE FALSE
  BY <1>1 DEF EndOf
<1>3. i - j \in 1..V[j].size
  BY <1>1, <1>2 DEF EndOf
<1>4. j + (i - j) = i
  BY <1>1
<1>5. V[i] = Payload(s, V[j].id, i - j)
  BY <1>3, <1>4, FrameTypes DEF Framed
<1> QED
  BY <1>5, Units DEF IsHeader

\* The state of an OutStream, kept together.
InState(st, state) == st.state = state
Started(st, id, size) ==
    /\ st.state = "ObjectPayload"
    /\ st.next_object_id = id + 1
    /\ st.size = size
    /\ st.remaining = size

LEMMA Updated ==
    ASSUME NEW f \in Numbering, NEW a \in Nat, NEW b \in Nat
    PROVE  LET g == [f EXCEPT ![a + 1] = b + 1] IN
           /\ g \in Numbering
           /\ g[a + 1] = b + 1
           /\ \A i \in Nat : i # a + 1 => g[i] = f[i]
<1> DEFINE c == a + 1
           d == b + 1
<1>1. c \in Nat /\ d \in Nat
  OBVIOUS
<1> HIDE DEF c, d
<1>2. LET g == [f EXCEPT ![c] = d] IN
      g \in Numbering /\ g[c] = d /\ \A i \in Nat : i # c => g[i] = f[i]
  BY <1>1 DEF Numbering
<1> QED
  BY <1>2, Zenon DEF c, d

LEMMA FirstSubgroupHeader ==
    ASSUME NEW s \in Stream, NEW num \in Numbering, NEW st,
           st.state = "ObjectHeader"
    PROVE  /\ Framed(s, SubgroupHeader)
           /\ Numbered(s, SubgroupHeader, << >>, 0, num)
           /\ WrittenTo(SubgroupHeader, << >>, 0, num, st)
<1>1. \A i \in 1..Len(SubgroupHeader) : ~IsHeader(SubgroupHeader, i)
  BY HeaderUnits DEF IsHeader
<1>2. \A i \in 1..Len(SubgroupHeader) : SubgroupHeader[i].kind = "subgroup"
  BY HeaderUnits
<1> QED
  BY <1>1, <1>2, HeaderUnits, Constants DEF Framed, Numbered, WrittenTo

LEMMA AppendHeader ==
    ASSUME NEW s \in Stream, NEW V, NEW W \in Seq(Object), NEW n \in Nat,
           NEW num \in Numbering, NEW st, NEW st2, NEW id \in Id, NEW size \in Size,
           Framed(s, V), Numbered(s, V, W, n, num), WrittenTo(V, W, n, num, st),
           InState(st, "ObjectHeader"), Started(st2, id, size)
    PROVE  LET V2 == V \o << ObjectHeader(id, size) >>
               num2 == [num EXCEPT ![Len(V) + 1] = Len(W) + 1] IN
           /\ num2 \in Numbering
           /\ Framed(s, V2)
           /\ Numbered(s, V2, W, n, num2)
           /\ WrittenTo(V2, W, n, num2, st2)
<1> DEFINE u == ObjectHeader(id, size)
           V2 == V \o << u >>
           num2 == [num EXCEPT ![Len(V) + 1] = Len(W) + 1]
<1>t. V \in Seq(Unit) /\ Len(V) \in Nat /\ Len(W) \in Nat
  BY FrameTypes, LenProperties
<1>h. \A i \in 1..Len(V) : IsHeader(V, i) =>
          V[i].size \in Nat /\ V[i].size > 0 /\ EndOf(V, i) \in Nat /\ EndOf(V, i) > i
  BY FrameTypes
<1>u. u \in Unit /\ u.kind = "object" /\ u.id = id /\ u.size = size
  BY Units
<1>s. size \in Nat /\ size > 0 /\ id \in Nat
  BY Constants
<1>1. /\ V2 \in Seq(Unit)
      /\ Len(V2) = Len(V) + 1
      /\ \A i \in 1..Len(V) : V2[i] = V[i]
      /\ V2[Len(V) + 1] = u
  <2>1. V2 = Append(V, u)
    BY <1>t, <1>u, AppendIsConcat
  <2> HIDE DEF u, V2
  <2> QED
    BY <2>1, <1>t, <1>u, AppendProperties
<1>2. /\ num2 \in Numbering
      /\ num2[Len(V) + 1] = Len(W) + 1
      /\ \A i \in Nat : i # Len(V) + 1 => num2[i] = num[i]
  BY <1>t, Updated
<1> HIDE DEF u, V2, num2
<1>3. \A i \in 1..Len(V) : IsHeader(V2, i) <=> IsHeader(V, i)
  BY <1>1 DEF IsHeader
<1>4. \A i \in 1..Len(V) : EndOf(V2, i) = EndOf(V, i)
  BY <1>1 DEF EndOf
<1>5. IsHeader(V2, Len(V) + 1) /\ EndOf(V2, Len(V) + 1) = Len(V) + 1 + size
  BY <1>1, <1>u DEF IsHeader, EndOf
<1>6. \A i \in 1..Len(V) : IsHeader(V, i) =>
          EndOf(V, i) <= Len(V) /\ (EndOf(V, i) = Len(V) => num[i] = Len(W))
  BY DEF WrittenTo, InState
<1>7. Len(V) >= HeaderLen /\ (Len(V) = HeaderLen => n = Len(W))
  BY DEF WrittenTo, InState
<1>8. Framed(s, V2)
  <2>1. \A i \in 1..Len(V2) : i <= HeaderLen => V2[i].kind = "subgroup"
    <3> TAKE i \in 1..Len(V2)
    <3>1. i <= HeaderLen => i \in 1..Len(V)
      BY <1>1, <1>7, <1>t, Constants
    <3> QED
      BY <3>1, <1>1 DEF Framed
  <2>2. IsHeader(V2, HeaderLen + 1)
    <3>1. CASE Len(V) = HeaderLen
      BY <3>1, <1>5
    <3>2. CASE Len(V) # HeaderLen
      <4>1. Len(V) > HeaderLen /\ HeaderLen + 1 \in 1..Len(V)
        BY <3>2, <1>7, <1>t, Constants
      <4> QED
        BY <4>1, <1>3 DEF Framed
    <3> QED
      BY <3>1, <3>2
  <2>3. ASSUME NEW i \in 1..Len(V2), IsHeader(V2, i)
        PROVE  /\ \A j \in 1..V2[i].size : i + j <= Len(V2) =>
                      V2[i + j] = Payload(s, V2[i].id, j)
               /\ EndOf(V2, i) < Len(V2) => IsHeader(V2, EndOf(V2, i) + 1)
    <3>1. CASE i = Len(V) + 1
      BY <3>1, <1>1, <1>5, <1>s, <1>t, <1>u
    <3>2. CASE i # Len(V) + 1
      <4>1. i \in 1..Len(V) /\ IsHeader(V, i) /\ V2[i] = V[i]
        BY <3>2, <2>3, <1>1, <1>3, <1>t
      <4>2. EndOf(V, i) <= Len(V) /\ EndOf(V2, i) = EndOf(V, i) /\ EndOf(V, i) \in Nat
        BY <4>1, <1>4, <1>6, <1>h
      <4>3. ASSUME NEW j \in 1..V[i].size
            PROVE  V2[i + j] = Payload(s, V[i].id, j)
        <5>0. V[i].size \in Nat /\ i \in Nat
          BY <4>1, <1>h
        <5>1. i + j \in 1..Len(V)
          BY <5>0, <4>2, <1>t DEF EndOf
        <5> QED
          BY <5>1, <4>1, <1>1 DEF Framed
      <4>4. ASSUME EndOf(V, i) < Len(V)
            PROVE  IsHeader(V2, EndOf(V, i) + 1)
        <5>1. EndOf(V, i) + 1 \in 1..Len(V)
          BY <4>2, <4>4, <1>t
        <5> QED
          BY <5>1, <4>1, <4>4, <1>3 DEF Framed
      <4>5. EndOf(V, i) = Len(V) => IsHeader(V2, EndOf(V, i) + 1)
        BY <1>5
      <4> QED
        BY <4>1, <4>2, <4>3, <4>4, <4>5, <1>t
    <3> QED
      BY <3>1, <3>2
  <2>4. Len(V2) >= HeaderLen
    BY <1>1, <1>7, <1>t, Constants
  <2> QED
    BY <1>1, <2>1, <2>2, <2>3, <2>4 DEF Framed
<1>9. Numbered(s, V2, W, n, num2)
  <2>1. num2[HeaderLen + 1] = n + 1
    <3>1. CASE Len(V) = HeaderLen
      BY <3>1, <1>2, <1>7
    <3>2. CASE Len(V) # HeaderLen
      <4>1. Len(V) > HeaderLen /\ HeaderLen + 1 # Len(V) + 1 /\ HeaderLen + 1 \in Nat
        BY <3>2, <1>7, <1>t, Constants
      <4> QED
        BY <4>1, <1>2 DEF Numbered
    <3> QED
      BY <3>1, <3>2
  <2>2. ASSUME NEW i \in 1..Len(V2), IsHeader(V2, i)
        PROVE  /\ EndOf(V2, i) < Len(V2) => num2[EndOf(V2, i) + 1] = num2[i] + 1
               /\ EndOf(V2, i) <= Len(V2) =>
                     /\ num2[i] \in 1..Len(W)
                     /\ W[num2[i]] = WholeObject(s, V2[i].id, V2[i].size)
    <3>1. CASE i = Len(V) + 1
      BY <3>1, <1>1, <1>5, <1>s, <1>t
    <3>2. CASE i # Len(V) + 1
      <4>1. i \in 1..Len(V) /\ IsHeader(V, i) /\ V2[i] = V[i] /\ num2[i] = num[i]
        BY <3>2, <2>2, <1>1, <1>2, <1>3, <1>t
      <4>2. /\ EndOf(V, i) <= Len(V) /\ EndOf(V2, i) = EndOf(V, i) /\ EndOf(V, i) \in Nat
            /\ EndOf(V, i) = Len(V) => num[i] = Len(W)
        BY <4>1, <1>4, <1>6, <1>h
      <4>3. num[i] \in 1..Len(W) /\ W[num[i]] = WholeObject(s, V[i].id, V[i].size)
        BY <4>1, <4>2 DEF Numbered
      <4>4. CASE EndOf(V, i) = Len(V)
        BY <4>1, <4>2, <4>3, <4>4, <1>2
      <4>5. CASE EndOf(V, i) < Len(V)
        <5>1. EndOf(V, i) + 1 \in Nat /\ EndOf(V, i) + 1 # Len(V) + 1
          BY <4>2, <4>5, <1>t
        <5>2. num2[EndOf(V, i) + 1] = num[EndOf(V, i) + 1]
          BY <5>1, <1>2
        <5>3. num[EndOf(V, i) + 1] = num[i] + 1
          BY <4>1, <4>5 DEF Numbered
        <5> QED
          BY <4>1, <4>2, <4>3, <5>2, <5>3
      <4> QED
        BY <4>2, <4>4, <4>5, <1>t
    <3> QED
      BY <3>1, <3>2
  <2> QED
    BY <2>1, <2>2 DEF Numbered
<1>10. Unfinished(V2, W, num2, st2, Len(V) + 1)
  <2>1. ASSUME NEW j \in 1..Len(V2), IsHeader(V2, j), j # Len(V) + 1
        PROVE  EndOf(V2, j) < Len(V) + 1
    <3>1. j \in 1..Len(V) /\ IsHeader(V, j)
      BY <2>1, <1>1, <1>3, <1>t
    <3> QED
      BY <3>1, <1>4, <1>6, <1>h, <1>t
  <2>2. EndOf(V2, Len(V) + 1) = Len(V2) + st2.remaining
    BY <1>1, <1>5, <1>s, <1>t DEF Started
  <2>3. V2[Len(V) + 1].id = st2.next_object_id - 1 /\ V2[Len(V) + 1].size = st2.size
    BY <1>1, <1>u, <1>s DEF Started
  <2> QED
    BY <2>1, <2>2, <2>3, <1>2, <1>5 DEF Unfinished
<1>11. WrittenTo(V2, W, n, num2, st2)
  <2>1. Len(V) + 1 \in 1..Len(V2)
    BY <1>1, <1>t
  <2> QED
    BY <2>1, <1>10, <1>s DEF WrittenTo, Started
<1> QED
  BY <1>2, <1>8, <1>9, <1>11 DEF u, V2, num2

\* V2 is V with more of the payload of its last object, whose header is at i.
Extends(s, V, V2, i, k) ==
    /\ IsHeader(V, i)
    /\ V2 \in Seq(Unit)
    /\ Len(V2) = Len(V) + k
    /\ Len(V) < EndOf(V, i) /\ Len(V2) <= EndOf(V, i)
    /\ \A j \in 1..Len(V) : IsHeader(V, j) /\ j # i => EndOf(V, j) < i
    /\ \A j \in 1..Len(V) : V2[j] = V[j]
    /\ \A j \in 1..k : V2[Len(V) + j] = Payload(s, V[i].id, Len(V) + j - i)

LEMMA ExtendHeaders ==
    ASSUME NEW s \in Stream, NEW V, NEW V2, NEW i \in 1..Len(V), NEW k \in Nat,
           Framed(s, V), Extends(s, V, V2, i, k)
    PROVE  /\ Len(V2) \in Nat /\ Len(V2) >= Len(V)
           /\ \A j \in 1..Len(V2) : IsHeader(V2, j) <=> j \in 1..Len(V) /\ IsHeader(V, j)
           /\ \A j \in 1..Len(V) : EndOf(V2, j) = EndOf(V, j)
<1>t. Len(V) \in Nat
  BY FrameTypes
<1>1. Len(V2) = Len(V) + k /\ Len(V2) \in Nat /\ Len(V2) >= Len(V)
  BY <1>t DEF Extends
<1>2. ASSUME NEW j \in 1..Len(V2)
      PROVE  IsHeader(V2, j) <=> j \in 1..Len(V) /\ IsHeader(V, j)
  <2>1. CASE j \in 1..Len(V)
    BY <2>1 DEF Extends, IsHeader
  <2>2. CASE j \notin 1..Len(V)
    <3>1. j - Len(V) \in 1..k /\ Len(V) + (j - Len(V)) = j
      BY <2>2, <1>1, <1>t
    <3>2. PICK m \in 1..k : m = j - Len(V)
      BY <3>1
    <3>3. V2[j] = Payload(s, V[i].id, Len(V) + m - i)
      BY <3>1, <3>2 DEF Extends
    <3>4. V2[j].kind = "payload"
      BY <3>3, Units
    <3> QED
      BY <3>4, <2>2 DEF IsHeader
  <2> QED
    BY <2>1, <2>2
<1>3. \A j \in 1..Len(V) : EndOf(V2, j) = EndOf(V, j)
  BY DEF Extends, EndOf
<1> QED
  BY <1>1, <1>2, <1>3

LEMMA ExtendFrame ==
    ASSUME NEW s \in Stream, NEW V, NEW V2, NEW i \in 1..Len(V), NEW k \in Nat,
           Framed(s, V), Extends(s, V, V2, i, k)
    PROVE  Framed(s, V2)
<1>t. /\ Len(V) \in Nat /\ Len(V2) \in Nat /\ Len(V2) >= Len(V) /\ Len(V2) = Len(V) + k
      /\ V # << >> /\ Len(V) >= HeaderLen /\ i > HeaderLen
  <2>1. Len(V) \in Nat /\ i > HeaderLen
    BY FrameTypes DEF Extends
  <2>2. V # << >>
    OBVIOUS
  <2> QED
    BY <2>1, <2>2, ExtendHeaders DEF Extends, Framed
<1>i. IsHeader(V, i)
  BY DEF Extends
<1>e. Len(V) < EndOf(V, i) /\ Len(V2) <= EndOf(V, i)
  BY DEF Extends
<1>h. \A j \in 1..Len(V2) : IsHeader(V2, j) <=> j \in 1..Len(V) /\ IsHeader(V, j)
  BY ExtendHeaders
<1>s. \A j \in 1..Len(V) : V2[j] = V[j] /\ EndOf(V2, j) = EndOf(V, j)
  <2>1. \A j \in 1..Len(V) : EndOf(V2, j) = EndOf(V, j)
    BY DEF Extends, EndOf
  <2> QED
    BY <2>1 DEF Extends
<1>1. \A j \in 1..Len(V2) : j <= HeaderLen => V2[j].kind = "subgroup"
  <2> TAKE j \in 1..Len(V2)
  <2>1. j <= HeaderLen => j \in 1..Len(V)
    BY <1>t, Constants
  <2> QED
    BY <2>1, <1>s DEF Framed
<1>2. IsHeader(V2, HeaderLen + 1)
  <2>1. Len(V) > HeaderLen /\ HeaderLen + 1 \in 1..Len(V) /\ HeaderLen + 1 \in 1..Len(V2)
    BY <1>t, Constants
  <2> QED
    BY <2>1, <1>h DEF Framed
<1>3. ASSUME NEW j \in 1..Len(V2), IsHeader(V2, j)
      PROVE  /\ \A m \in 1..V2[j].size : j + m <= Len(V2) =>
                    V2[j + m] = Payload(s, V2[j].id, m)
             /\ EndOf(V2, j) < Len(V2) => IsHeader(V2, EndOf(V2, j) + 1)
  <2>1. j \in 1..Len(V) /\ IsHeader(V, j) /\ V2[j] = V[j] /\ EndOf(V2, j) = EndOf(V, j)
    BY <1>3, <1>h, <1>s
  <2>t. V[j].size \in Nat /\ EndOf(V, j) \in Nat /\ j \in Nat
    BY <2>1, FrameTypes
  <2>2. CASE j = i
    <3>1. ~(EndOf(V2, j) < Len(V2))
      BY <2>1, <2>2, <2>t, <1>e, <1>t
    <3>2. ASSUME NEW m \in 1..V[j].size, j + m <= Len(V2)
          PROVE  V2[j + m] = Payload(s, V[j].id, m)
      <4>1. CASE j + m <= Len(V)
        <5>1. j + m \in 1..Len(V)
          BY <4>1, <2>t, <1>t
        <5>2. V[j + m] = Payload(s, V[j].id, m)
          BY <4>1, <2>1 DEF Framed
        <5> QED
          BY <5>1, <5>2, <1>s
      <4>2. CASE ~(j + m <= Len(V))
        <5>1. PICK x \in 1..k : x = j + m - Len(V)
          BY <4>2, <3>2, <2>t, <1>t
        <5>2. V2[Len(V) + x] = Payload(s, V[i].id, Len(V) + x - i)
          BY DEF Extends
        <5>3. Len(V) + x = j + m /\ Len(V) + x - i = m
          BY <5>1, <2>2, <2>t, <1>t
        <5> QED
          BY <5>2, <5>3, <2>2
      <4> QED
        BY <4>1, <4>2
    <3> QED
      BY <3>1, <3>2, <2>1
  <2>3. CASE j # i
    <3>1. EndOf(V, j) < i
      BY <2>1, <2>3 DEF Extends
    <3>2. ASSUME NEW m \in 1..V[j].size
          PROVE  V2[j + m] = Payload(s, V[j].id, m)
      <4>1. j + m \in 1..Len(V) /\ j + m <= Len(V)
        BY <3>1, <2>t, <1>t DEF EndOf
      <4>2. V[j + m] = Payload(s, V[j].id, m)
        BY <4>1, <2>1 DEF Framed
      <4> QED
        BY <4>1, <4>2, <1>s
    <3>3. IsHeader(V2, EndOf(V, j) + 1)
      <4>1. EndOf(V, j) < Len(V) /\ EndOf(V, j) + 1 \in 1..Len(V)
                                 /\ EndOf(V, j) + 1 \in 1..Len(V2)
        BY <3>1, <2>t, <1>t
      <4> QED
        BY <4>1, <2>1, <1>h DEF Framed
    <3> QED
      BY <3>2, <3>3, <2>1
  <2> QED
    BY <2>2, <2>3
<1>4. V2 \in Seq(Unit) /\ Len(V2) >= HeaderLen
  BY <1>t, Constants DEF Extends
<1> QED
  BY <1>1, <1>2, <1>3, <1>4 DEF Framed

\* The objects written, when the one that V ends with may be complete in V2.
LEMMA ExtendNumbers ==
    ASSUME NEW s \in Stream, NEW V, NEW V2, NEW i \in 1..Len(V), NEW k \in Nat,
           NEW W \in Seq(Object), NEW W2 \in Seq(Object), NEW n \in Nat, NEW num \in Numbering,
           Framed(s, V), Extends(s, V, V2, i, k), Numbered(s, V, W, n, num),
           num[i] = Len(W) + 1,
           Len(W2) >= Len(W) /\ \A j \in 1..Len(W) : W2[j] = W[j],
           Len(V2) = EndOf(V, i) => /\ Len(W2) = Len(W) + 1
                                    /\ W2[Len(W) + 1] = WholeObject(s, V[i].id, V[i].size)
    PROVE  Numbered(s, V2, W2, n, num)
<1>t. /\ Len(V) \in Nat /\ Len(V2) \in Nat /\ Len(V2) >= Len(V)
      /\ Len(W) \in Nat /\ Len(W2) \in Nat
  <2>1. Len(V) \in Nat
    BY FrameTypes, Zenon
  <2>2. Len(V2) \in Nat /\ Len(V2) >= Len(V)
    BY ExtendHeaders, Zenon
  <2>3. Len(W) \in Nat /\ Len(W2) \in Nat
    BY LenProperties
  <2> QED
    BY <2>1, <2>2, <2>3
<1>e. Len(V) < EndOf(V, i) /\ Len(V2) <= EndOf(V, i) /\ i > HeaderLen
  BY FrameTypes DEF Extends
<1>h. \A j \in 1..Len(V2) : IsHeader(V2, j) <=> j \in 1..Len(V) /\ IsHeader(V, j)
  BY ExtendHeaders
<1>s. \A j \in 1..Len(V) : V2[j] = V[j] /\ EndOf(V2, j) = EndOf(V, j)
  <2>1. \A j \in 1..Len(V) : EndOf(V2, j) = EndOf(V, j)
    BY DEF Extends, EndOf
  <2> QED
    BY <2>1 DEF Extends
<1>1. num[HeaderLen + 1] = n + 1
  <2>1. Len(V) > HeaderLen
    BY <1>e, <1>t, Constants
  <2> QED
    BY <2>1 DEF Numbered
<1>2. ASSUME NEW j \in 1..Len(V2), IsHeader(V2, j)
      PROVE  /\ EndOf(V2, j) < Len(V2) => num[EndOf(V2, j) + 1] = num[j] + 1
             /\ EndOf(V2, j) <= Len(V2) =>
                   /\ num[j] \in 1..Len(W2)
                   /\ W2[num[j]] = WholeObject(s, V2[j].id, V2[j].size)
  <2>1. j \in 1..Len(V) /\ IsHeader(V, j) /\ V2[j] = V[j] /\ EndOf(V2, j) = EndOf(V, j)
    BY <1>2, <1>h, <1>s
  <2>t. EndOf(V, j) \in Nat
    BY <2>1, FrameTypes
  <2>2. CASE j = i
    <3>1. ~(EndOf(V2, j) < Len(V2))
      BY <2>1, <2>2, <2>t, <1>e, <1>t
    <3>2. EndOf(V2, j) <= Len(V2) => Len(V2) = EndOf(V, i)
      BY <2>1, <2>2, <2>t, <1>e, <1>t
    <3>3. Len(W2) = Len(W) + 1 => Len(W) + 1 \in 1..Len(W2)
      BY <1>t
    <3> QED
      BY <3>1, <3>2, <3>3, <2>1, <2>2
  <2>3. CASE j # i
    <3>1. EndOf(V, j) < Len(V)
      <4>1. EndOf(V, j) < i
        BY <2>1, <2>3 DEF Extends
      <4> QED
        BY <4>1, <2>t, <1>t
    <3>2. num[EndOf(V, j) + 1] = num[j] + 1
      BY <3>1, <2>1 DEF Numbered
    <3>3. num[j] \in 1..Len(W) /\ W[num[j]] = WholeObject(s, V[j].id, V[j].size)
      <4>1. EndOf(V, j) <= Len(V)
        BY <3>1, <2>t, <1>t
      <4> QED
        BY <4>1, <2>1 DEF Numbered
    <3>4. num[j] \in 1..Len(W2) /\ W2[num[j]] = W[num[j]]
      BY <3>3, <1>t
    <3> QED
      BY <3>2, <3>3, <3>4, <2>1
  <2> QED
    BY <2>2, <2>3
<1> QED
  BY <1>1, <1>2 DEF Numbered

\* How the OutStream st goes on when k more units of its object have been sent.
Continued(st, st2, k) ==
    /\ st2.state = "ObjectPayload"
    /\ st2.next_object_id = st.next_object_id
    /\ st2.size = st.size
    /\ st2.remaining = st.remaining - k

LEMMA AppendPayload ==
    ASSUME NEW s \in Stream, NEW V, NEW V2, NEW k \in Nat, NEW W \in Seq(Object),
           NEW W2, NEW n \in Nat, NEW num \in Numbering, NEW st, NEW st2, NEW i \in 1..Len(V),
           Framed(s, V), Numbered(s, V, W, n, num), Unfinished(V, W, num, st, i),
           Extends(s, V, V2, i, k), st.remaining \in Nat,
           \/ k < st.remaining /\ Continued(st, st2, k) /\ W2 = W
           \/ /\ k = st.remaining /\ InState(st2, "ObjectHeader")
              /\ W2 = Append(W, WholeObject(s, st.next_object_id - 1, st.size))
              /\ W2 \in Seq(Object)
    PROVE  /\ Framed(s, V2)
           /\ Numbered(s, V2, W2, n, num)
           /\ WrittenTo(V2, W2, n, num, st2)
<1>t. /\ Len(V) \in Nat /\ Len(V2) \in Nat /\ Len(V2) = Len(V) + k /\ Len(V2) >= HeaderLen
      /\ Len(V2) > HeaderLen
  <2>1. Len(V) \in Nat /\ i > HeaderLen
    BY FrameTypes DEF Extends
  <2> QED
    BY <2>1, Constants DEF Extends
<1>u. /\ IsHeader(V, i) /\ V[i].id = st.next_object_id - 1 /\ V[i].size = st.size
      /\ EndOf(V, i) = Len(V) + st.remaining /\ num[i] = Len(W) + 1
  BY DEF Unfinished
<1>h. \A j \in 1..Len(V2) : IsHeader(V2, j) <=> j \in 1..Len(V) /\ IsHeader(V, j)
  BY ExtendHeaders
<1>s. \A j \in 1..Len(V) : V2[j] = V[j] /\ EndOf(V2, j) = EndOf(V, j)
  BY DEF Extends, EndOf
<1>o. \A j \in 1..Len(V) : IsHeader(V, j) /\ j # i => EndOf(V, j) < i
  BY DEF Extends
<1>1. Framed(s, V2)
  BY ExtendFrame
<1>2. CASE k < st.remaining /\ Continued(st, st2, k) /\ W2 = W
  <2>1. Len(V2) # EndOf(V, i)
    BY <1>2, <1>u, <1>t
  <2>2. Len(W2) >= Len(W) /\ \A j \in 1..Len(W) : W2[j] = W[j]
    BY <1>2
  <2>3. Numbered(s, V2, W2, n, num)
    BY <1>2, <2>1, <2>2, <1>u, ExtendNumbers, Zenon
  <2>4. Unfinished(V2, W2, num, st2, i)
    <3>1. i \in 1..Len(V2) /\ IsHeader(V2, i) /\ V2[i] = V[i] /\ EndOf(V2, i) = EndOf(V, i)
      BY <1>t, <1>u, <1>h, <1>s
    <3>2. ASSUME NEW j \in 1..Len(V2), IsHeader(V2, j), j # i
          PROVE  EndOf(V2, j) < i
      BY <3>2, <1>h, <1>s, <1>o
    <3>3. EndOf(V2, i) = Len(V2) + st2.remaining
      BY <3>1, <1>2, <1>u, <1>t DEF Continued
    <3>4. V2[i].id = st2.next_object_id - 1 /\ V2[i].size = st2.size
      BY <3>1, <1>2, <1>u DEF Continued
    <3> QED
      BY <3>1, <3>2, <3>3, <3>4, <1>2, <1>u DEF Unfinished
  <2>5. st2.state = "ObjectPayload" /\ st2.remaining > 0 /\ i \in 1..Len(V2)
    BY <1>2, <1>t DEF Continued
  <2> QED
    BY <1>1, <2>3, <2>4, <2>5 DEF WrittenTo
<1>3. CASE /\ k = st.remaining /\ InState(st2, "ObjectHeader")
           /\ W2 = Append(W, WholeObject(s, st.next_object_id - 1, st.size))
           /\ W2 \in Seq(Object)
  <2>1. /\ Len(W) \in Nat /\ Len(W2) = Len(W) + 1
        /\ W2[Len(W) + 1] = WholeObject(s, st.next_object_id - 1, st.size)
        /\ \A j \in 1..Len(W) : W2[j] = W[j]
    BY <1>3
  <2>2. Len(W2) >= Len(W) /\ \A j \in 1..Len(W) : W2[j] = W[j]
    BY <2>1
  <2>3. W2[Len(W) + 1] = WholeObject(s, V[i].id, V[i].size)
    BY <2>1, <1>u
  <2>4. Numbered(s, V2, W2, n, num)
    BY <1>3, <2>1, <2>2, <2>3, <1>u, ExtendNumbers, Zenon
  <2>5. Len(V2) = EndOf(V, i)
    BY <1>3, <1>u, <1>t
  <2>6. ASSUME NEW j \in 1..Len(V2), IsHeader(V2, j)
        PROVE  EndOf(V2, j) <= Len(V2) /\ (EndOf(V2, j) = Len(V2) => num[j] = Len(W2))
    <3>1. j \in 1..Len(V) /\ IsHeader(V, j) /\ EndOf(V2, j) = EndOf(V, j)
      BY <2>6, <1>h, <1>s
    <3>2. CASE j = i
      BY <3>1, <3>2, <2>5, <2>1, <1>u, <1>t
    <3>3. CASE j # i
      <4>1. EndOf(V, j) < i /\ EndOf(V, j) \in Nat
        BY <3>1, <3>3, <1>o, FrameTypes
      <4> QED
        BY <4>1, <3>1, <1>t
    <3> QED
      BY <3>2, <3>3
  <2>7. Len(V2) # HeaderLen
    BY <1>t, Constants
  <2> QED
    BY <1>1, <1>3, <2>4, <2>6, <2>7, <1>t DEF WrittenTo, InState
<1> QED
  BY <1>2, <1>3

\* V2 is V without its first object, which is complete.
WithoutFirst(V, V2) ==
    /\ Len(V) > HeaderLen
    /\ EndOf(V, HeaderLen + 1) <= Len(V)
    /\ V2 \in Seq(Unit)
    /\ Len(V2) = Len(V) - (V[HeaderLen + 1].size + 1)
    /\ \A i \in 1..Len(V2) : i <= HeaderLen => V2[i] = V[i]
    /\ \A i \in 1..Len(V2) : i > HeaderLen => V2[i] = V[i + (V[HeaderLen + 1].size + 1)]

\* The number of a header once d units before it have gone.
Shifted(num, d) == [i \in Nat |-> num[i + d]]

LEMMA ShiftedType ==
    ASSUME NEW num \in Numbering, NEW d \in Nat
    PROVE  /\ Shifted(num, d) \in Numbering
           /\ \A i \in Nat : Shifted(num, d)[i] = num[i + d]
BY DEF Shifted, Numbering

LEMMA ShiftedEnd ==
    ASSUME NEW i \in Nat, NEW d \in Nat, NEW z \in Nat, z > 0
    PROVE  i + z \in Nat /\ i + z > i /\ (i + d) + z = (i + z) + d
OBVIOUS

\* What the positions in V and in V2 have to do with each other.
LEMMA ShiftedPositions ==
    ASSUME NEW s \in Stream, NEW V, NEW V2, Framed(s, V), WithoutFirst(V, V2),
           NEW d, d = V[HeaderLen + 1].size + 1
    PROVE  /\ Len(V) \in Nat /\ Len(V2) \in Nat /\ d \in Nat /\ d > 1
           /\ IsHeader(V, HeaderLen + 1)
           /\ HeaderLen + 1 \in 1..Len(V)
           /\ Len(V) = Len(V2) + d
           /\ EndOf(V, HeaderLen + 1) = HeaderLen + d
           /\ Len(V2) >= HeaderLen
           /\ \A i \in 1..Len(V2) : IsHeader(V2, i) =>
                 /\ i > HeaderLen
                 /\ i + d \in 1..Len(V)
                 /\ V2[i] = V[i + d] /\ IsHeader(V, i + d)
                 /\ EndOf(V2, i) \in Nat /\ EndOf(V2, i) > i
                 /\ EndOf(V, i + d) = EndOf(V2, i) + d
<1> DEFINE h == HeaderLen + 1
<1>1. /\ Len(V) \in Nat /\ Len(V) > HeaderLen /\ h \in 1..Len(V) /\ IsHeader(V, h)
  <2>1. Len(V) \in Nat
    BY FrameTypes
  <2>2. Len(V) > HeaderLen /\ h \in 1..Len(V)
    BY <2>1, Constants DEF WithoutFirst
  <2> QED
    BY <2>1, <2>2 DEF Framed
<1>2. V[h].size \in Nat /\ V[h].size > 0
  BY <1>1, FrameTypes
<1>3. d \in Nat /\ d > 1
  BY <1>2
<1>4. EndOf(V, h) = HeaderLen + d
  BY <1>2, Constants DEF EndOf
<1>5. Len(V2) \in Nat /\ Len(V) = Len(V2) + d /\ Len(V2) >= HeaderLen
  <2>1. EndOf(V, h) <= Len(V) /\ Len(V2) = Len(V) - d
    BY DEF WithoutFirst
  <2> QED
    BY <2>1, <1>1, <1>3, <1>4, Constants
<1>6. ASSUME NEW i \in 1..Len(V2), IsHeader(V2, i)
      PROVE  /\ i > HeaderLen
             /\ i + d \in 1..Len(V)
             /\ V2[i] = V[i + d] /\ IsHeader(V, i + d)
             /\ EndOf(V2, i) \in Nat /\ EndOf(V2, i) > i
             /\ EndOf(V, i + d) = EndOf(V2, i) + d
  <2>1. i > HeaderLen
    <3>1. SUFFICES ASSUME i <= HeaderLen PROVE FALSE
      BY Constants
    <3>2. i \in 1..Len(V)
      BY <3>1, <1>1, Constants
    <3>3. V2[i] = V[i] /\ V[i].kind = "subgroup"
      BY <3>1, <3>2 DEF WithoutFirst, Framed
    <3> QED
      BY <3>3, <1>6 DEF IsHeader
  <2>2. i + d \in 1..Len(V)
    BY <1>3, <1>5, <1>1
  <2>3. V2[i] = V[i + d]
    BY <2>1 DEF WithoutFirst
  <2>4. IsHeader(V, i + d)
    BY <2>3, <1>6 DEF IsHeader
  <2>5. V[i + d].size \in Nat /\ V[i + d].size > 0
    BY <2>2, <2>4, FrameTypes
  <2>6. EndOf(V2, i) = i + V[i + d].size
    BY <2>3 DEF EndOf
  <2>7. EndOf(V, i + d) = (i + d) + V[i + d].size
    BY DEF EndOf
  <2>8. i \in Nat
    OBVIOUS
  <2>9. /\ EndOf(V2, i) \in Nat /\ EndOf(V2, i) > i
        /\ EndOf(V, i + d) = EndOf(V2, i) + d
    <3>1. PICK z \in Nat : z = V[i + d].size /\ z > 0
      BY <2>5
    <3>2. EndOf(V2, i) = i + z /\ EndOf(V, i + d) = (i + d) + z
      BY <3>1, <2>6, <2>7, Zenon
    <3>3. i + z \in Nat /\ i + z > i /\ (i + d) + z = (i + z) + d
      BY <3>1, <2>8, <1>3, ShiftedEnd, Zenon
    <3> QED
      BY <3>2, <3>3, Zenon
  <2> QED
    BY <2>1, <2>2, <2>3, <2>4, <2>9
<1> QED
  BY <1>1, <1>3, <1>4, <1>5, <1>6

\* Taking the first object away, once it is received, shifts the others.
LEMMA TakeFirst ==
    ASSUME NEW s \in Stream, NEW V, NEW V2, NEW W \in Seq(Object), NEW n \in Nat,
           NEW num \in Numbering,
           Framed(s, V), Numbered(s, V, W, n, num), WithoutFirst(V, V2)
    PROVE  LET d == V[HeaderLen + 1].size + 1 IN
           /\ n + 1 \in 1..Len(W)
           /\ W[n + 1] = WholeObject(s, V[HeaderLen + 1].id, V[HeaderLen + 1].size)
           /\ Framed(s, V2)
           /\ Shifted(num, d) \in Numbering
           /\ Numbered(s, V2, W, n + 1, Shifted(num, d))
           /\ \A st : st.remaining \in Nat /\ WrittenTo(V, W, n, num, st) =>
                         WrittenTo(V2, W, n + 1, Shifted(num, d), st)
<1> DEFINE h == HeaderLen + 1
           d == V[h].size + 1
           num2 == Shifted(num, d)
<1>t. /\ Len(V) \in Nat /\ Len(V2) \in Nat /\ d \in Nat /\ d > 1
      /\ h \in 1..Len(V) /\ Len(V) = Len(V2) + d /\ EndOf(V, h) = HeaderLen + d
      /\ Len(V2) >= HeaderLen
  BY ShiftedPositions
<1>f. IsHeader(V, h)
  BY ShiftedPositions
<1>p. \A i \in 1..Len(V2) : IsHeader(V2, i) =>
          /\ i > HeaderLen
          /\ i + d \in 1..Len(V)
          /\ V2[i] = V[i + d] /\ IsHeader(V, i + d)
          /\ EndOf(V2, i) \in Nat /\ EndOf(V2, i) > i
          /\ EndOf(V, i + d) = EndOf(V2, i) + d
  BY ShiftedPositions
<1>n. num2 \in Numbering /\ \A i \in Nat : num2[i] = num[i + d]
  BY <1>t, ShiftedType
<1>w. num[h] = n + 1
  BY <1>t, Constants DEF Numbered
<1>1. n + 1 \in 1..Len(W) /\ W[n + 1] = WholeObject(s, V[h].id, V[h].size)
  <2>1. EndOf(V, h) <= Len(V)
    BY DEF WithoutFirst
  <2>2. num[h] \in 1..Len(W) /\ W[num[h]] = WholeObject(s, V[h].id, V[h].size)
    BY <2>1, <1>t, <1>f DEF Numbered
  <2> QED
    BY <2>2, <1>w
<1>2. Len(V2) > HeaderLen => /\ IsHeader(V, h + d) /\ num[h + d] = n + 2
                             /\ h + d \in 1..Len(V) /\ V2[h] = V[h + d] /\ h \in 1..Len(V2)
  <2>1. SUFFICES ASSUME Len(V2) > HeaderLen
                 PROVE  /\ IsHeader(V, h + d) /\ num[h + d] = n + 2
                        /\ h + d \in 1..Len(V) /\ V2[h] = V[h + d] /\ h \in 1..Len(V2)
    OBVIOUS
  <2>2. EndOf(V, h) < Len(V) /\ EndOf(V, h) + 1 = h + d /\ h + d \in 1..Len(V)
    BY <2>1, <1>t, Constants
  <2>3. h \in 1..Len(V2) /\ h > HeaderLen
    BY <2>1, <1>t, Constants
  <2>4. V2[h] = V[h + d]
    BY <2>3 DEF WithoutFirst
  <2>5. IsHeader(V, h + d)
    BY <2>2, <1>f, <1>t DEF Framed
  <2>6. num[EndOf(V, h) + 1] = num[h] + 1
    BY <2>2, <1>f, <1>t DEF Numbered
  <2> QED
    BY <2>2, <2>3, <2>4, <2>5, <2>6, <1>w
<1>3. Framed(s, V2)
  <2>1. \A i \in 1..Len(V2) : i <= HeaderLen => V2[i].kind = "subgroup"
    <3> TAKE i \in 1..Len(V2)
    <3>1. i \in 1..Len(V)
      BY <1>t
    <3> QED
      BY <3>1 DEF WithoutFirst, Framed
  <2>2. Len(V2) > HeaderLen => IsHeader(V2, h)
    BY <1>2 DEF IsHeader
  <2>3. ASSUME NEW i \in 1..Len(V2), IsHeader(V2, i)
        PROVE  /\ \A j \in 1..V2[i].size : i + j <= Len(V2) =>
                      V2[i + j] = Payload(s, V2[i].id, j)
               /\ EndOf(V2, i) < Len(V2) => IsHeader(V2, EndOf(V2, i) + 1)
    <3>1. /\ i > HeaderLen /\ i + d \in 1..Len(V) /\ V2[i] = V[i + d] /\ IsHeader(V, i + d)
          /\ EndOf(V2, i) \in Nat /\ EndOf(V2, i) > i /\ EndOf(V, i + d) = EndOf(V2, i) + d
      BY <2>3, <1>p
    <3>2. ASSUME NEW j \in 1..V[i + d].size, i + j <= Len(V2)
          PROVE  V2[i + j] = Payload(s, V[i + d].id, j)
      <4>0. V[i + d].size \in Nat /\ i \in Nat /\ j \in Nat /\ j >= 1
        BY <3>1, FrameTypes
      <4>1. i + j \in 1..Len(V2) /\ i + j > HeaderLen
        BY <4>0, <3>1, <3>2, <1>t, Constants
      <4>2. V2[i + j] = V[(i + j) + d]
        BY <4>1 DEF WithoutFirst
      <4>3. (i + j) + d = (i + d) + j /\ (i + d) + j <= Len(V)
        BY <4>0, <4>1, <1>t
      <4>4. V[(i + d) + j] = Payload(s, V[i + d].id, j)
        BY <3>1, <4>3 DEF Framed
      <4> QED
        BY <4>2, <4>3, <4>4
    <3>3. ASSUME EndOf(V2, i) < Len(V2)
          PROVE  IsHeader(V2, EndOf(V2, i) + 1)
      <4> DEFINE e == EndOf(V2, i)
      <4>0. /\ e \in Nat /\ e > i /\ i > HeaderLen /\ e < Len(V2)
            /\ EndOf(V, i + d) = e + d
        BY <3>1, <3>3
      <4> HIDE DEF e, d
      <4>1. e + 1 \in 1..Len(V2) /\ e + 1 > HeaderLen /\ EndOf(V, i + d) < Len(V)
        BY <4>0, <1>t, Constants
      <4> USE DEF e, d
      <4>2. V2[e + 1] = V[(e + 1) + d]
        BY <4>1 DEF WithoutFirst
      <4>3. (e + 1) + d = EndOf(V, i + d) + 1
        BY <3>1, <1>t
      <4>4. IsHeader(V, EndOf(V, i + d) + 1)
        BY <3>1, <4>1 DEF Framed
      <4> QED
        BY <4>2, <4>3, <4>4 DEF IsHeader
    <3> QED
      BY <3>1, <3>2, <3>3
  <2>4. V2 \in Seq(Unit)
    BY DEF WithoutFirst
  <2> QED
    BY <2>1, <2>2, <2>3, <2>4, <1>t DEF Framed
<1>4. Numbered(s, V2, W, n + 1, num2)
  <2>1. Len(V2) > HeaderLen => num2[h] = n + 2
    BY <1>2, <1>n, Constants
  <2>2. ASSUME NEW i \in 1..Len(V2), IsHeader(V2, i)
        PROVE  /\ EndOf(V2, i) < Len(V2) => num2[EndOf(V2, i) + 1] = num2[i] + 1
               /\ EndOf(V2, i) <= Len(V2) =>
                     /\ num2[i] \in 1..Len(W)
                     /\ W[num2[i]] = WholeObject(s, V2[i].id, V2[i].size)
    <3>1. /\ i + d \in 1..Len(V) /\ V2[i] = V[i + d] /\ IsHeader(V, i + d)
          /\ EndOf(V2, i) \in Nat /\ EndOf(V, i + d) = EndOf(V2, i) + d
      BY <2>2, <1>p
    <3>2. num2[i] = num[i + d] /\ num2[EndOf(V2, i) + 1] = num[(EndOf(V2, i) + 1) + d]
      <4>1. i \in Nat /\ EndOf(V2, i) + 1 \in Nat
        BY <3>1
      <4> QED
        BY <4>1, <1>n
    <3>3. /\ (EndOf(V2, i) + 1) + d = EndOf(V, i + d) + 1
          /\ EndOf(V2, i) < Len(V2) => EndOf(V, i + d) < Len(V)
          /\ EndOf(V2, i) <= Len(V2) => EndOf(V, i + d) <= Len(V)
      <4> DEFINE e == EndOf(V2, i)
                 f == EndOf(V, i + d)
      <4>1. e \in Nat /\ f = e + d
        BY <3>1
      <4> HIDE DEF e, f, d
      <4>2. /\ (e + 1) + d = f + 1
            /\ e < Len(V2) => f < Len(V)
            /\ e <= Len(V2) => f <= Len(V)
        BY <4>1, <1>t
      <4> QED
        BY <4>2 DEF e, f
    <3>5. EndOf(V, i + d) < Len(V) => num[EndOf(V, i + d) + 1] = num[i + d] + 1
      BY <3>1 DEF Numbered
    <3>6. EndOf(V, i + d) <= Len(V) =>
              /\ num[i + d] \in 1..Len(W)
              /\ W[num[i + d]] = WholeObject(s, V[i + d].id, V[i + d].size)
      BY <3>1 DEF Numbered
    <3> QED
      BY <3>1, <3>2, <3>3, <3>5, <3>6
  <2> QED
    BY <2>1, <2>2 DEF Numbered
<1>5. ASSUME NEW st, st.remaining \in Nat, WrittenTo(V, W, n, num, st)
      PROVE  WrittenTo(V2, W, n + 1, num2, st)
  <2>1. st.state # "SubgroupHeader"
    <3>1. V # << >>
      BY <1>t
    <3> QED
      BY <3>1, <1>5 DEF WrittenTo
  <2>2. ASSUME st.state = "ObjectHeader"
        PROVE  /\ Len(V2) = HeaderLen => n + 1 = Len(W)
               /\ \A i \in 1..Len(V2) : IsHeader(V2, i) =>
                     EndOf(V2, i) <= Len(V2) /\ (EndOf(V2, i) = Len(V2) => num2[i] = Len(W))
    <3>1. \A i \in 1..Len(V) : IsHeader(V, i) =>
              EndOf(V, i) <= Len(V) /\ (EndOf(V, i) = Len(V) => num[i] = Len(W))
      BY <2>2, <1>5 DEF WrittenTo
    <3>2. Len(V2) = HeaderLen => EndOf(V, h) = Len(V)
      BY <1>t, Constants
    <3>3. EndOf(V, h) = Len(V) => num[h] = Len(W)
      BY <3>1, <1>t, <1>f
    <3>4. ASSUME NEW i \in 1..Len(V2), IsHeader(V2, i)
          PROVE  EndOf(V2, i) <= Len(V2) /\ (EndOf(V2, i) = Len(V2) => num2[i] = Len(W))
      <4>1. /\ i + d \in 1..Len(V) /\ IsHeader(V, i + d)
            /\ EndOf(V2, i) \in Nat /\ EndOf(V, i + d) = EndOf(V2, i) + d
        BY <3>4, <1>p
      <4>2. EndOf(V, i + d) <= Len(V) /\ (EndOf(V, i + d) = Len(V) => num[i + d] = Len(W))
        BY <4>1, <3>1
      <4>3. num2[i] = num[i + d]
        BY <1>n
      <4> QED
        BY <4>1, <4>2, <4>3, <1>t
    <3> QED
      BY <3>2, <3>3, <3>4, <1>w
  <2>3. ASSUME st.state = "ObjectPayload"
        PROVE  st.remaining > 0 /\ \E i \in 1..Len(V2) : Unfinished(V2, W, num2, st, i)
    <3>1. st.remaining > 0 /\ \E i \in 1..Len(V) : Unfinished(V, W, num, st, i)
      BY <2>3, <1>5 DEF WrittenTo
    <3>2. PICK x \in 1..Len(V) : Unfinished(V, W, num, st, x)
      BY <3>1
    <3>3. /\ IsHeader(V, x) /\ V[x].id = st.next_object_id - 1 /\ V[x].size = st.size
          /\ EndOf(V, x) = Len(V) + st.remaining /\ num[x] = Len(W) + 1
          /\ \A j \in 1..Len(V) : IsHeader(V, j) /\ j # x => EndOf(V, j) < x
      BY <3>2 DEF Unfinished
    <3>4. x # h
      <4>1. SUFFICES ASSUME x = h PROVE FALSE
        OBVIOUS
      <4>2. num[h] = Len(W) + 1 /\ Len(W) \in Nat
        BY <4>1, <3>3, LenProperties
      <4> QED
        BY <4>2, <1>1, <1>w
    <3>5. EndOf(V, h) < x
      BY <3>3, <3>4, <1>t, <1>f
    <3>6. PICK y \in 1..Len(V2) : y + d = x /\ y > HeaderLen
      <4>1. x - d \in 1..Len(V2) /\ (x - d) + d = x /\ x - d > HeaderLen
        BY <3>5, <1>t, Constants
      <4> QED
        BY <4>1
    <3>7. V2[y] = V[x]
      BY <3>6 DEF WithoutFirst
    <3>8. IsHeader(V2, y)
      BY <3>7, <3>3 DEF IsHeader
    <3>9. EndOf(V2, y) \in Nat /\ EndOf(V, x) = EndOf(V2, y) + d
      BY <3>6, <3>8, <1>p
    <3>10. EndOf(V2, y) = Len(V2) + st.remaining
      <4>1. EndOf(V, x) \in Nat
        BY <3>9, <1>t
      <4>2. V[x].size \in Nat /\ x \in Nat
        BY <3>3, FrameTypes
      <4>3. EndOf(V2, y) + d = (Len(V2) + d) + st.remaining
        BY <3>3, <3>9, <1>t
      <4> DEFINE e == EndOf(V2, y)
                 r == st.remaining
      <4>4. e \in Nat /\ r \in Nat /\ e + d = (Len(V2) + d) + r
        BY <4>3, <1>5, <3>9
      <4> HIDE DEF e, r, d
      <4>5. e = Len(V2) + r
        BY <4>4, <1>t
      <4> QED
        BY <4>5 DEF e, r
    <3>11. num2[y] = Len(W) + 1
      BY <3>6, <3>3, <1>n
    <3>12. ASSUME NEW j \in 1..Len(V2), IsHeader(V2, j), j # y
           PROVE  EndOf(V2, j) < y
      <4>1. /\ j + d \in 1..Len(V) /\ IsHeader(V, j + d)
            /\ EndOf(V2, j) \in Nat /\ EndOf(V, j + d) = EndOf(V2, j) + d
        BY <3>12, <1>p
      <4>2. j + d # x
        BY <3>12, <3>6, <1>t
      <4>3. EndOf(V, j + d) < x
        BY <4>1, <4>2, <3>3
      <4> QED
        BY <4>1, <4>3, <3>6, <1>t
    <3>13. Unfinished(V2, W, num2, st, y)
      BY <3>3, <3>7, <3>8, <3>10, <3>11, <3>12 DEF Unfinished
    <3> QED
      BY <3>1, <3>13
  <2> QED
    BY <2>1, <2>2, <2>3, <1>t DEF WrittenTo
<1> QED
  BY <1>1, <1>3, <1>4, <1>5, <1>n

\* What is left of V when its end, or all of it, is cut off.
LEMMA Cut ==
    ASSUME NEW s \in Stream, NEW V, NEW V2 \in Seq(Unit), NEW W, NEW n, NEW num,
           Framed(s, V), Numbered(s, V, W, n, num),
           Len(V2) <= Len(V), V2 # << >> => Len(V2) >= HeaderLen,
           \A i \in 1..Len(V2) : V2[i] = V[i]
    PROVE  Framed(s, V2) /\ Numbered(s, V2, W, n, num)
<1>t. Len(V) \in Nat /\ Len(V2) \in Nat
  BY FrameTypes, LenProperties
<1>s. \A i \in 1..Len(V2) : i \in 1..Len(V) /\ (IsHeader(V2, i) <=> IsHeader(V, i))
                                            /\ EndOf(V2, i) = EndOf(V, i)
  BY <1>t DEF IsHeader, EndOf
<1>1. Len(V2) > HeaderLen => /\ IsHeader(V2, HeaderLen + 1)
                             /\ Len(V) > HeaderLen
  <2>1. SUFFICES ASSUME Len(V2) > HeaderLen
                 PROVE  IsHeader(V2, HeaderLen + 1) /\ Len(V) > HeaderLen
    OBVIOUS
  <2>2. Len(V) > HeaderLen /\ HeaderLen + 1 \in 1..Len(V2)
    BY <2>1, <1>t, Constants
  <2> QED
    BY <2>2, <1>s DEF Framed
<1>2. ASSUME NEW i \in 1..Len(V2), IsHeader(V2, i)
      PROVE  /\ \A j \in 1..V2[i].size : i + j <= Len(V2) => V2[i + j] = Payload(s, V2[i].id, j)
             /\ EndOf(V2, i) < Len(V2) => /\ IsHeader(V2, EndOf(V2, i) + 1)
                                          /\ EndOf(V, i) < Len(V)
             /\ EndOf(V2, i) <= Len(V2) => EndOf(V, i) <= Len(V)
  <2>1. i \in 1..Len(V) /\ IsHeader(V, i) /\ V2[i] = V[i] /\ EndOf(V2, i) = EndOf(V, i)
    BY <1>2, <1>s
  <2>2. EndOf(V, i) \in Nat /\ EndOf(V, i) > i /\ V[i].size \in Nat
    BY <2>1, FrameTypes
  <2>3. ASSUME NEW j \in 1..V[i].size, i + j <= Len(V2)
        PROVE  V2[i + j] = Payload(s, V[i].id, j)
    <3>1. i + j \in 1..Len(V2) /\ i + j <= Len(V)
      BY <2>2, <2>3, <1>t
    <3>2. V[i + j] = Payload(s, V[i].id, j)
      BY <2>1, <3>1 DEF Framed
    <3> QED
      BY <3>1, <3>2
  <2>4. ASSUME EndOf(V, i) < Len(V2)
        PROVE  IsHeader(V2, EndOf(V, i) + 1) /\ EndOf(V, i) < Len(V)
    <3>1. EndOf(V, i) < Len(V) /\ EndOf(V, i) + 1 \in 1..Len(V2)
      BY <2>2, <2>4, <1>t
    <3>2. IsHeader(V, EndOf(V, i) + 1)
      BY <3>1, <2>1 DEF Framed
    <3> QED
      BY <3>1, <3>2, <1>s
  <2>5. EndOf(V, i) <= Len(V2) => EndOf(V, i) <= Len(V)
    BY <2>2, <1>t
  <2> QED
    BY <2>1, <2>3, <2>4, <2>5
<1>3. Framed(s, V2)
  <2>1. \A i \in 1..Len(V2) : i <= HeaderLen => V2[i].kind = "subgroup"
    BY <1>s DEF Framed
  <2> QED
    BY <2>1, <1>1, <1>2 DEF Framed
<1>4. Numbered(s, V2, W, n, num)
  <2>1. Len(V2) > HeaderLen => num[HeaderLen + 1] = n + 1
    BY <1>1 DEF Numbered
  <2>2. ASSUME NEW i \in 1..Len(V2), IsHeader(V2, i)
        PROVE  /\ EndOf(V2, i) < Len(V2) => num[EndOf(V2, i) + 1] = num[i] + 1
               /\ EndOf(V2, i) <= Len(V2) =>
                     num[i] \in 1..Len(W) /\ W[num[i]] = WholeObject(s, V2[i].id, V2[i].size)
    <3>1. i \in 1..Len(V) /\ IsHeader(V, i) /\ V2[i] = V[i] /\ EndOf(V2, i) = EndOf(V, i)
      BY <2>2, <1>s
    <3> QED
      BY <3>1, <2>2, <1>2 DEF Numbered
  <2> QED
    BY <2>1, <2>2 DEF Numbered
<1> QED
  BY <1>3, <1>4

\* A stream that has nothing.
LEMMA NothingSent ==
    ASSUME NEW s, NEW W, NEW n, NEW num
    PROVE  Framed(s, << >>) /\ Numbered(s, << >>, W, n, num)
BY Constants DEF Framed, Numbered

LEMMA ConcatUnits ==
    ASSUME NEW a \in Seq(Unit), NEW b \in Seq(Unit)
    PROVE  /\ a \o b \in Seq(Unit)
           /\ Len(a \o b) = Len(a) + Len(b)
           /\ Len(a) \in Nat /\ Len(b) \in Nat
           /\ a \o << >> = a /\ << >> \o a = a
<1>1. a \o b \in Seq(Unit) /\ Len(a \o b) = Len(a) + Len(b)
  BY ConcatProperties, Zenon
<1>2. a \o << >> = a /\ << >> \o a = a
  BY ConcatEmptySeq, Zenon
<1>3. Len(a) \in Nat /\ Len(b) \in Nat
  OBVIOUS
<1> QED
  BY <1>1, <1>2, <1>3

LEMMA AssocUnits ==
    ASSUME NEW a \in Seq(Unit), NEW b \in Seq(Unit), NEW c \in Seq(Unit)
    PROVE  (a \o b) \o c = a \o (b \o c)
BY ConcatAssociative

LEMMA SplitUnits ==
    ASSUME NEW q \in Seq(Unit), NEW k \in 0..Len(q)
    PROVE  /\ SubSeq(q, 1, k) \in Seq(Unit) /\ Len(SubSeq(q, 1, k)) = k
           /\ SubSeq(q, k + 1, Len(q)) \in Seq(Unit)
           /\ Len(SubSeq(q, k + 1, Len(q))) = Len(q) - k
           /\ SubSeq(q, 1, k) \o SubSeq(q, k + 1, Len(q)) = q
           /\ \A i \in 1..k : SubSeq(q, 1, k)[i] = q[i]
<1>t. Len(q) \in Nat /\ k \in Int
  OBVIOUS
<1>1. \A i \in 1..k : q[i] \in Unit
  OBVIOUS
<1>2. \A i \in k + 1..Len(q) : q[i] \in Unit
  OBVIOUS
<1>3. /\ SubSeq(q, 1, k) \in Seq(Unit)
      /\ Len(SubSeq(q, 1, k)) = IF 1 <= k THEN k - 1 + 1 ELSE 0
      /\ \A i \in 1..k - 1 + 1 : SubSeq(q, 1, k)[i] = q[1 + i - 1]
  BY <1>t, <1>1, SubSeqProperties
<1>4. /\ SubSeq(q, k + 1, Len(q)) \in Seq(Unit)
      /\ Len(SubSeq(q, k + 1, Len(q))) = IF k + 1 <= Len(q) THEN Len(q) - (k + 1) + 1 ELSE 0
  <2>1. k + 1 \in Int /\ Len(q) \in Int
    BY <1>t
  <2> QED
    BY <2>1, <1>2, SubSeqProperties
<1>5. SubSeq(q, 1, k) \o SubSeq(q, k + 1, Len(q)) = SubSeq(q, 1, Len(q))
  <2>1. 1 \in 1..Len(q) + 1 /\ k \in 1 - 1..Len(q) /\ Len(q) \in k..Len(q)
    BY <1>t
  <2> QED
    BY <2>1, ConcatAdjacentSubSeq
<1>6. SubSeq(q, 1, Len(q)) = q
  BY SubSeqFull
<1>7. Len(SubSeq(q, 1, k)) = k /\ Len(SubSeq(q, k + 1, Len(q))) = Len(q) - k
  BY <1>3, <1>4, <1>t
<1>8. \A i \in 1..k : SubSeq(q, 1, k)[i] = q[i]
  <2> TAKE i \in 1..k
  <2>1. i \in 1..k - 1 + 1 /\ 1 + i - 1 = i
    BY <1>t
  <2> QED
    BY <2>1, <1>3
<1> QED
  BY <1>3, <1>4, <1>5, <1>6, <1>7, <1>8

LEMMA FirstUnit ==
    ASSUME NEW q \in Seq(Unit), q # << >>
    PROVE  /\ Head(q) \in Unit /\ Head(q) = q[1] /\ 1 \in 1..Len(q)
           /\ Tail(q) \in Seq(Unit) /\ Len(Tail(q)) = Len(q) - 1
           /\ << Head(q) >> \in Seq(Unit)
           /\ << Head(q) >> \o Tail(q) = q
<1>1. /\ Head(q) \in Unit /\ Tail(q) \in Seq(Unit) /\ Len(Tail(q)) = Len(q) - 1
  BY HeadTailProperties, Zenon
<1>2. Len(q) \in Nat /\ Len(q) > 0 /\ 1 \in 1..Len(q)
  OBVIOUS
<1>3. Head(q) = q[1]
  OBVIOUS
<1>4. << Head(q) >> \in Seq(Unit)
  BY <1>1
<1>5. q = << q[1] >> \o SubSeq(q, 2, Len(q))
  <2>1. Len(q) \in 1..Len(q) /\ 1 + 1 = 2
    BY <1>2
  <2>2. SubSeq(q, 1, Len(q)) = << q[1] >> \o SubSeq(q, 1 + 1, Len(q))
    BY <2>1, <1>2, SubSeqRecursiveFirst
  <2> QED
    BY <2>1, <2>2, SubSeqFull
<1>6. Tail(q) = SubSeq(q, 2, Len(q))
  BY TailIsSubSeq, Zenon
<1> QED
  BY <1>1, <1>2, <1>3, <1>4, <1>5, <1>6

\* Filling the buffer loses nothing and leaves the order.
LEMMA Fills ==
    ASSUME NEW s, NEW st, inbound[s] \in Seq(Unit), st.buf \in Seq(Unit),
           Len(st.buf) <= BufLen
    PROVE  /\ Filled(st, s) \in Seq(Unit) /\ Unfilled(st, s) \in Seq(Unit)
           /\ Len(Filled(st, s)) <= BufLen
           /\ Filled(st, s) \o Unfilled(st, s) = st.buf \o inbound[s]
           /\ Filled(st, s) = << >> => /\ st.buf = << >>
                                       /\ inbound[s] = << >> /\ Unfilled(st, s) = << >>
<1>1. CASE st.buf # << >>
  BY <1>1 DEF Filled, Unfilled
<1>2. CASE st.buf = << >>
  <2> DEFINE q == inbound[s]
             k == Min({BufLen, Len(q)})
  <2>1. Len(q) \in Nat /\ BufLen \in Nat /\ BufLen > 0
    BY Constants
  <2>2. k = IF BufLen <= Len(q) THEN BufLen ELSE Len(q)
    BY <2>1, MinOfTwo
  <2>3. k \in 0..Len(q) /\ k <= BufLen /\ (k = 0 => Len(q) = 0)
    BY <2>1, <2>2
  <2>4. Filled(st, s) = SubSeq(q, 1, k)
    BY <1>2 DEF Filled
  <2>5. /\ SubSeq(q, 1, k) \in Seq(Unit) /\ Len(SubSeq(q, 1, k)) = k
        /\ SubSeq(q, k + 1, Len(q)) \in Seq(Unit)
        /\ SubSeq(q, 1, k) \o SubSeq(q, k + 1, Len(q)) = q
    <3> HIDE DEF k, q
    <3> QED
      BY <2>3, SplitUnits DEF q
  <2>6. Unfilled(st, s) = SubSeq(q, k + 1, Len(q))
    BY <1>2, <2>4, <2>5 DEF Unfilled
  <2>7. st.buf \o q = q
    BY <1>2, ConcatUnits
  <2>8. Filled(st, s) = << >> => q = << >> /\ Unfilled(st, s) = << >>
    <3>1. SUFFICES ASSUME Filled(st, s) = << >>
                   PROVE  q = << >> /\ Unfilled(st, s) = << >>
      OBVIOUS
    <3>2. k = 0
      BY <3>1, <2>4, <2>5, EmptySeq
    <3>3. q = << >>
      BY <3>2, <2>3
    <3>4. SubSeq(q, 1, k) \o SubSeq(q, k + 1, Len(q)) = SubSeq(q, k + 1, Len(q))
      BY <3>1, <2>4, <2>5, ConcatUnits
    <3> QED
      BY <3>3, <3>4, <2>5, <2>6
  <2> QED
    BY <1>2, <2>3, <2>4, <2>5, <2>6, <2>7, <2>8
<1> QED
  BY <1>1, <1>2

(***************************************************************************)
(* What a step leaves of the streams.                                      *)
(***************************************************************************)

LEMMA SentType ==
    ASSUME NetTypes, InTypes, AppTypes, NEW t \in Stream
    PROVE  /\ InStream(t) \in InStreamType /\ Len(InStream(t).buf) <= BufLen
           /\ InStream(t).buf \in Seq(Unit) /\ InStream(t).remaining \in Nat
           /\ inbound[t] \in Seq(Unit) /\ wire[t] \in Seq(Unit)
           /\ inbound[t] \o wire[t] \in Seq(Unit)
           /\ Reading(t) \in Seq(Unit)
           /\ Held(t) \in Seq(Unit)
<1>1. InStream(t) \in InStreamType /\ Len(InStream(t).buf) <= BufLen
  <2>1. NewInStream \in InStreamType /\ Len(NewInStream.buf) <= BufLen
    BY Constants DEF NewInStream, InStreamType
  <2> QED
    BY <2>1 DEF InTypes, InStream
<1>2. InStream(t).buf \in Seq(Unit) /\ InStream(t).remaining \in Nat
  BY <1>1 DEF InStreamType
<1>3. inbound[t] \in Seq(Unit) /\ wire[t] \in Seq(Unit)
  BY DEF NetTypes
<1>4. Reading(t) \in Seq(Unit)
  <2>1. CASE obj_hdr.stream = t
    <3>1. obj_hdr # NoObject
      BY <2>1, Constants DEF NoObject
    <3>2. obj_hdr.id \in Id /\ obj_hdr.size \in Size /\ obj_hdr.payload \in Seq(Unit)
      BY <3>1 DEF AppTypes
    <3>3. << ObjectHeader(obj_hdr.id, obj_hdr.size) >> \in Seq(Unit)
      BY <3>2, Units
    <3> QED
      BY <2>1, <3>2, <3>3, ConcatUnits DEF Reading
  <2>2. CASE obj_hdr.stream # t
    BY <2>2 DEF Reading
  <2> QED
    BY <2>1, <2>2
<1>5. Held(t) \in Seq(Unit)
  BY <1>2, <1>4, HeaderUnits, ConcatUnits DEF Held
<1> QED
  BY <1>1, <1>2, <1>3, <1>4, <1>5, ConcatUnits

\* A stream to which nothing happens.
Untouched(t) ==
    /\ Sent(t)' = Sent(t)
    /\ written'[t] = written[t]
    /\ received'[t] = received[t]
    /\ t = current_stream_id' =>
           t = current_stream_id /\ out_streams'[t] = out_streams[t]

LEMMA KeepStream ==
    ASSUME StreamInv, NEW t \in Stream, Untouched(t)
    PROVE  \E num \in Numbering : StreamOK(t, num)'
<1>1. PICK num \in Numbering : StreamOK(t, num)
  BY DEF StreamInv
<1>2. StreamOK(t, num)'
  BY <1>1 DEF StreamOK, Untouched
<1> QED
  BY <1>2

\* A stream of which the end, or everything, is lost.
LEMMA CutStream ==
    ASSUME StreamInv, NEW t \in Stream,
           written'[t] = written[t], received'[t] = received[t],
           t # current_stream_id',
           Sent(t)' \in Seq(Unit), Len(Sent(t)') <= Len(Sent(t)),
           Sent(t)' # << >> => Len(Sent(t)') >= HeaderLen,
           \A i \in 1..Len(Sent(t)') : Sent(t)'[i] = Sent(t)[i]
    PROVE  \E num \in Numbering : StreamOK(t, num)'
<1>1. PICK num \in Numbering : StreamOK(t, num)
  BY DEF StreamInv
<1>2. Framed(t, Sent(t)) /\ Numbered(t, Sent(t), written[t], Len(received[t]), num)
  BY <1>1 DEF StreamOK
<1>3. Framed(t, Sent(t)') /\ Numbered(t, Sent(t)', written[t], Len(received[t]), num)
  <2> DEFINE V == Sent(t)
             V2 == Sent(t)'
  <2>1. /\ V2 \in Seq(Unit) /\ Framed(t, V)
        /\ Numbered(t, V, written[t], Len(received[t]), num)
        /\ Len(V2) <= Len(V) /\ (V2 # << >> => Len(V2) >= HeaderLen)
        /\ \A i \in 1..Len(V2) : V2[i] = V[i]
    BY <1>2
  <2> HIDE DEF V, V2
  <2>2. Framed(t, V2) /\ Numbered(t, V2, written[t], Len(received[t]), num)
    BY <2>1, Cut, Zenon
  <2> QED
    BY <2>2 DEF V2
<1>4. StreamOK(t, num)'
  BY <1>3 DEF StreamOK
<1> QED
  BY <1>4

(***************************************************************************)
(* The headers of an object, as far as QUIC takes them.                    *)
(***************************************************************************)

Headers(st, id, size, capacity) ==
    (IF st.state = "SubgroupHeader" /\ capacity # "none" THEN SubgroupHeader ELSE << >>)
    \o (IF capacity = "both" THEN << ObjectHeader(id, size) >> ELSE << >>)

AfterHeaders(st, id, size, capacity) ==
    IF capacity = "both"
    THEN [st EXCEPT !.state = "ObjectPayload", !.next_object_id = id + 1,
                    !.size = size, !.remaining = size]
    ELSE [st EXCEPT !.state = IF st.state = "SubgroupHeader" /\ capacity # "none"
                              THEN "ObjectHeader" ELSE st.state]

LEMMA AfterHeadersType ==
    ASSUME NEW st \in OutStreamType, NEW id \in Id, NEW size \in Size, NEW capacity \in Capacity
    PROVE  /\ AfterHeaders(st, id, size, capacity) \in OutStreamType
           /\ Headers(st, id, size, capacity) \in Seq(Unit)
           /\ capacity = "both" => Started(AfterHeaders(st, id, size, capacity), id, size)
<1>1. /\ SubgroupHeader \in Seq(Unit) /\ << >> \in Seq(Unit)
      /\ << ObjectHeader(id, size) >> \in Seq(Unit)
  BY HeaderUnits, Units
<1>2. Headers(st, id, size, capacity) \in Seq(Unit)
  BY <1>1, ConcatUnits DEF Headers
<1>3. id + 1 \in 0..MaxObjectId + 1 /\ size \in Nat
  BY BoundsAssumption DEF Id
<1>4. AfterHeaders(st, id, size, capacity) \in OutStreamType
  BY <1>3 DEF AfterHeaders, OutStreamType
<1>5. capacity = "both" => Started(AfterHeaders(st, id, size, capacity), id, size)
  BY DEF AfterHeaders, Started, OutStreamType
<1> QED
  BY <1>2, <1>4, <1>5

LEMMA HeadersWritten ==
    ASSUME NEW s \in Stream, NEW V, NEW W \in Seq(Object), NEW n \in Nat,
           NEW num \in Numbering, NEW st \in OutStreamType,
           NEW id \in Id, NEW size \in Size, NEW capacity \in Capacity,
           Framed(s, V), Numbered(s, V, W, n, num), WrittenTo(V, W, n, num, st),
           st.state # "ObjectPayload"
    PROVE  \E num2 \in Numbering :
              LET V2 == V \o Headers(st, id, size, capacity) IN
              /\ Framed(s, V2)
              /\ Numbered(s, V2, W, n, num2)
              /\ WrittenTo(V2, W, n, num2, AfterHeaders(st, id, size, capacity))
<1> DEFINE st2 == AfterHeaders(st, id, size, capacity)
           u == ObjectHeader(id, size)
<1>t. /\ V \in Seq(Unit) /\ SubgroupHeader \in Seq(Unit) /\ << u >> \in Seq(Unit)
      /\ << >> \in Seq(Unit)
  BY FrameTypes, HeaderUnits, Units
<1>s. capacity = "both" => Started(st2, id, size)
  BY AfterHeadersType
<1>1. CASE st.state = "SubgroupHeader"
  <2>1. V = << >> /\ W = << >> /\ n = 0
    BY <1>1 DEF WrittenTo
  <2>2. CASE capacity = "none"
    <3>1. Headers(st, id, size, capacity) = << >> /\ st2 = st
      BY <2>2, <1>t, ConcatUnits DEF Headers, AfterHeaders, OutStreamType
    <3>2. V \o << >> = V
      BY <1>t, ConcatUnits
    <3> QED
      BY <3>1, <3>2
  <2> DEFINE st1 == [st EXCEPT !.state = "ObjectHeader"]
  <2>3. st1.state = "ObjectHeader"
    BY DEF OutStreamType
  <2> HIDE DEF st1
  <2>4. /\ Framed(s, SubgroupHeader)
        /\ Numbered(s, SubgroupHeader, << >>, 0, num)
        /\ WrittenTo(SubgroupHeader, << >>, 0, num, st1)
    BY <2>3, FirstSubgroupHeader
  <2>5. CASE capacity = "subgroup header"
    <3>1. Headers(st, id, size, capacity) = SubgroupHeader /\ st2 = st1
      BY <1>1, <2>5, <1>t, ConcatUnits DEF Headers, AfterHeaders, st1
    <3>2. V \o SubgroupHeader = SubgroupHeader
      BY <2>1, <1>t, ConcatUnits
    <3> QED
      BY <3>1, <3>2, <2>1, <2>4
  <2>6. CASE capacity = "both"
    <3>1. Headers(st, id, size, capacity) = SubgroupHeader \o << u >>
      BY <1>1, <2>6 DEF Headers
    <3>2. V \o (SubgroupHeader \o << u >>) = SubgroupHeader \o << u >>
      BY <2>1, <1>t, ConcatUnits
    <3>3. InState(st1, "ObjectHeader") /\ Started(st2, id, size)
      BY <2>3, <2>6, <1>s DEF InState
    <3> HIDE DEF st2
    <3>4. LET V2 == SubgroupHeader \o << u >>
              num2 == [num EXCEPT ![Len(SubgroupHeader) + 1] = Len(W) + 1] IN
          /\ num2 \in Numbering
          /\ Framed(s, V2)
          /\ Numbered(s, V2, W, n, num2)
          /\ WrittenTo(V2, W, n, num2, st2)
      BY <3>3, <2>1, <2>4, AppendHeader
    <3> QED
      BY <3>1, <3>2, <3>4, Zenon DEF st2
  <2> QED
    BY <2>2, <2>5, <2>6 DEF Capacity
<1>2. CASE st.state = "ObjectHeader"
  <2>1. CASE capacity # "both"
    <3>1. Headers(st, id, size, capacity) = << >>
      BY <1>2, <2>1, <1>t, ConcatUnits DEF Headers
    <3>2. st2.state = "ObjectHeader"
      BY <1>2, <2>1 DEF AfterHeaders, OutStreamType
    <3>3. WrittenTo(V, W, n, num, st2)
      BY <1>2, <3>2 DEF WrittenTo
    <3>4. V \o << >> = V
      BY <1>t, ConcatUnits
    <3> QED
      BY <3>1, <3>3, <3>4
  <2>2. CASE capacity = "both"
    <3>1. Headers(st, id, size, capacity) = << u >>
      BY <1>2, <2>2, <1>t, ConcatUnits DEF Headers
    <3>2. InState(st, "ObjectHeader") /\ Started(st2, id, size)
      BY <1>2, <2>2, <1>s DEF InState
    <3> HIDE DEF st2
    <3>3. LET V2 == V \o << u >>
              num2 == [num EXCEPT ![Len(V) + 1] = Len(W) + 1] IN
          /\ num2 \in Numbering
          /\ Framed(s, V2)
          /\ Numbered(s, V2, W, n, num2)
          /\ WrittenTo(V2, W, n, num2, st2)
      BY <3>2, AppendHeader
    <3> QED
      BY <3>1, <3>3, Zenon DEF st2
  <2> QED
    BY <2>1, <2>2
<1> QED
  BY <1>1, <1>2 DEF OutStreamType

(***************************************************************************)
(* The publisher's steps.                                                  *)
(***************************************************************************)

LEMMA SameSent ==
    ASSUME NEW t, InStream(t)' = InStream(t), inbound'[t] = inbound[t], wire'[t] = wire[t],
           obj_hdr' = obj_hdr
    PROVE  Sent(t)' = Sent(t)
BY DEF Sent, Held, Reading

\* A step of the publisher leaves what the subscriber knows.
LEMMA SubscriberKept ==
    ASSUME Inv, UNCHANGED publisherOnly, opened' \in Nat, opened' >= opened,
           published' = published
    PROVE  /\ InTypes' /\ AppTypes' /\ ControlInv' /\ ReaderInv' /\ StreamsFiled' /\ CountInv'
           /\ \A t \in Stream : InStream(t)' = InStream(t)
<1>u. UNCHANGED <<control, ended, wt_streams, inbound, wt_finished, in_streams, in_track,
                  readable_streams, finned_streams, expected_streams, pending_stream, obj_hdr,
                  received, track_fin, panicked>>
  BY DEF publisherOnly, wtVars, trackVars, appVars
<1>o. opened \in Nat
  BY DEF Inv, OutTypes
<1>1. InTypes'
  <2>1. 1..opened \subseteq 1..opened'
    BY <1>o
  <2> QED
    BY <2>1, <1>u DEF Inv, InTypes
<1>2. AppTypes'
  BY <1>u DEF Inv, AppTypes
<1>3. ControlInv'
  BY <1>u DEF Inv, ControlInv
<1>4. ReaderInv'
  BY <1>u DEF Inv, ReaderInv
<1>5. StreamsFiled'
  BY <1>u DEF Inv, StreamsFiled
<1>6. CountInv'
  BY <1>u DEF Inv, CountInv, Counted
<1>7. \A t \in Stream : InStream(t)' = InStream(t)
  BY <1>u DEF InStream
<1> QED
  BY <1>1, <1>2, <1>3, <1>4, <1>5, <1>6, <1>7

\* The current stream, if there is one, is open.
LEMMA CurrentOpen ==
    ASSUME Inv, current_stream_id # None
    PROVE  /\ current_stream_id \in Stream /\ current_stream_id \in 1..opened
           /\ current_stream_id \in DOMAIN out_streams
           /\ out_streams[current_stream_id] \in OutStreamType
           /\ ending[current_stream_id] = "open" /\ ~ended[current_stream_id]
<1>1. current_stream_id \in 1..opened /\ opened \in 0..MaxStream
  BY DEF Inv, OutTypes
<1>2. current_stream_id \in Stream
  BY <1>1, BoundsAssumption DEF Stream
<1> QED
  BY <1>1, <1>2 DEF Inv, OutTypes, WriterInv, EndInv

LEMMA FinCurrentEnds ==
    ASSUME Inv, FinCurrent
    PROVE  /\ ending' \in [Stream -> {"open", "fin", "reset"}]
           /\ \A t \in Stream : t # current_stream_id => ending'[t] = ending[t]
           /\ \A t \in Stream : ending[t] # "open" => ending'[t] # "open"
<1>1. ending \in [Stream -> {"open", "fin", "reset"}]
  BY DEF Inv, NetTypes
<1>2. CASE UNCHANGED ending
  BY <1>1, <1>2
<1>3. CASE ending' = [ending EXCEPT ![current_stream_id] = "fin"]
  BY <1>1, <1>3
<1> QED
  BY <1>2, <1>3 DEF FinCurrent

LEMMA BlockedStep ==
    ASSUME Inv, NEW group, OpenBlocked(group)
    PROVE  Inv'
<1>u. /\ current_stream_id' = None
      /\ UNCHANGED <<out_streams, opened, published, written, wire>>
      /\ UNCHANGED publisherOnly
      /\ FinCurrent
  BY DEF OpenBlocked
<1>v. UNCHANGED <<ended, wt_streams, inbound, wt_finished, in_streams, obj_hdr, received>>
  BY <1>u DEF publisherOnly, wtVars, trackVars, appVars
<1>f. /\ ending' \in [Stream -> {"open", "fin", "reset"}]
      /\ \A t \in Stream : t # current_stream_id => ending'[t] = ending[t]
      /\ \A t \in Stream : ending[t] # "open" => ending'[t] # "open"
  BY <1>u, FinCurrentEnds
<1>1. /\ InTypes' /\ AppTypes' /\ ControlInv' /\ ReaderInv' /\ StreamsFiled' /\ CountInv'
      /\ \A t \in Stream : InStream(t)' = InStream(t)
  <2>1. opened \in Nat
    BY DEF Inv, OutTypes
  <2> QED
    BY <2>1, <1>u, SubscriberKept
<1>2. OutTypes'
  BY <1>u DEF Inv, OutTypes
<1>3. NetTypes'
  BY <1>u, <1>v, <1>f DEF Inv, NetTypes
<1>4. WriterInv'
  <2>1. \A t \in Stream : t > opened => ending'[t] = ending[t]
    <3>1. \A t \in Stream : t > opened => t # current_stream_id
      BY Constants DEF Inv, OutTypes, Stream, None
    <3> QED
      BY <3>1, <1>f
  <2> QED
    BY <2>1, <1>u, <1>v DEF Inv, WriterInv
<1>5. EndInv'
  BY <1>u, <1>v, <1>f DEF Inv, EndInv
<1>6. StreamInv'
  <2>1. ASSUME NEW t \in Stream
        PROVE  \E num \in Numbering : StreamOK(t, num)'
    <3>1. Sent(t)' = Sent(t)
      BY <1>1, <1>u, <1>v, SameSent
    <3>2. t # current_stream_id'
      BY <1>u, Constants
    <3>3. Untouched(t)
      BY <3>1, <3>2, <1>u, <1>v DEF Untouched
    <3> QED
      BY <3>3, KeepStream DEF Inv
  <2> QED
    BY <2>1 DEF StreamInv
<1> QED
  BY <1>1, <1>2, <1>3, <1>4, <1>5, <1>6 DEF Inv

LEMMA ResetStep ==
    ASSUME Inv, ResetCurrentTrackStream
    PROVE  Inv'
<1> DEFINE c == current_stream_id
<1>u. /\ current_stream_id' = None /\ c # None
      /\ ending' = [ending EXCEPT ![c] = "reset"]
      /\ out_streams' = Without(out_streams, {c})
      /\ UNCHANGED <<opened, published, written, wire>>
      /\ UNCHANGED publisherOnly
  BY DEF ResetCurrentTrackStream
<1>v. UNCHANGED <<ended, wt_streams, inbound, wt_finished, in_streams, obj_hdr, received>>
  BY <1>u DEF publisherOnly, wtVars, trackVars, appVars
<1>c. c \in Stream /\ c \in 1..opened /\ ~ended[c]
  BY <1>u, CurrentOpen
<1>f. /\ ending' \in [Stream -> {"open", "fin", "reset"}]
      /\ \A t \in Stream : t # c => ending'[t] = ending[t]
      /\ \A t \in Stream : ending[t] # "open" => ending'[t] # "open"
  BY <1>u DEF Inv, NetTypes
<1>1. /\ InTypes' /\ AppTypes' /\ ControlInv' /\ ReaderInv' /\ StreamsFiled' /\ CountInv'
      /\ \A t \in Stream : InStream(t)' = InStream(t)
  <2>1. opened \in Nat
    BY DEF Inv, OutTypes
  <2> QED
    BY <2>1, <1>u, SubscriberKept
<1>2. OutTypes'
  <2>1. /\ DOMAIN out_streams' \subseteq DOMAIN out_streams
        /\ \A t \in DOMAIN out_streams' : out_streams'[t] = out_streams[t]
    BY <1>u DEF Without
  <2> QED
    BY <2>1, <1>u DEF Inv, OutTypes
<1>3. NetTypes'
  BY <1>u, <1>v, <1>f DEF Inv, NetTypes
<1>4. WriterInv'
  <2>1. \A t \in Stream : t > opened => ending'[t] = ending[t]
    <3>1. \A t \in Stream : t > opened => t # c
      BY <1>c DEF Inv, OutTypes, Stream
    <3> QED
      BY <3>1, <1>f
  <2> QED
    BY <2>1, <1>u, <1>v DEF Inv, WriterInv
<1>5. EndInv'
  BY <1>u, <1>v, <1>f DEF Inv, EndInv
<1>6. StreamInv'
  <2>1. ASSUME NEW t \in Stream
        PROVE  \E num \in Numbering : StreamOK(t, num)'
    <3>1. Sent(t)' = Sent(t)
      BY <1>1, <1>u, <1>v, SameSent
    <3>2. t # current_stream_id'
      BY <1>u, Constants
    <3>3. Untouched(t)
      BY <3>1, <3>2, <1>u, <1>v DEF Untouched
    <3> QED
      BY <3>3, KeepStream DEF Inv
  <2> QED
    BY <2>1 DEF StreamInv
<1> QED
  BY <1>1, <1>2, <1>3, <1>4, <1>5, <1>6 DEF Inv

LEMMA PublishDoneStep ==
    ASSUME Inv, PublishDoneCall
    PROVE  Inv'
<1>u. /\ ~published /\ published' = TRUE
      /\ control' = Append(control, "PublishDone")
      /\ UNCHANGED <<current_stream_id, out_streams, opened, written, wire, ending, ended,
                     wt_streams, inbound, wt_finished, in_streams, in_track,
                     readable_streams, finned_streams, expected_streams, pending_stream,
                     obj_hdr, received, track_fin, panicked>>
  BY DEF PublishDoneCall, wtVars, trackVars, appVars
<1>c. /\ control' \in Seq({"SubscribeOk", "PublishDone"})
      /\ Len(control) \in Nat /\ Len(control') = Len(control) + 1
      /\ \A i \in 1..Len(control) : control'[i] = control[i]
      /\ control'[Len(control) + 1] = "PublishDone"
  <2>1. control \in Seq({"SubscribeOk", "PublishDone"}) /\ Len(control) \in Nat
    BY DEF Inv, ControlInv
  <2>2. "PublishDone" \in {"SubscribeOk", "PublishDone"}
    OBVIOUS
  <2> QED
    BY <2>1, <2>2, <1>u, AppendProperties
<1>d. \A i \in 1..Len(control) : control[i] = "SubscribeOk"
  BY <1>u, ElementOfSeq DEF Inv, ControlInv
<1>1. OutTypes' /\ NetTypes' /\ InTypes' /\ AppTypes'
  BY <1>u DEF Inv, OutTypes, NetTypes, InTypes, AppTypes
<1>2. ControlInv'
  BY <1>u, <1>c, <1>d DEF Inv, ControlInv
<1>3. WriterInv' /\ EndInv'
  BY <1>u DEF Inv, WriterInv, EndInv
<1>4. ReaderInv' /\ CountInv'
  BY <1>u DEF Inv, ReaderInv, CountInv, Counted
<1>5. StreamsFiled'
  <2>1. (control' = << >> \/ Head(control') = "PublishDone")
            <=> (control = << >> \/ Head(control) = "PublishDone")
    <3>1. Head(control') = control'[1] /\ control' # << >>
      BY <1>c
    <3>2. CASE control = << >>
      BY <3>1, <3>2, <1>c
    <3>3. CASE control # << >>
      <4>1. 1 \in 1..Len(control) /\ Head(control) = control[1]
        BY <3>3 DEF Inv, ControlInv
      <4> QED
        BY <4>1, <3>1, <3>3, <1>c
    <3> QED
      BY <3>2, <3>3
  <2> QED
    BY <2>1, <1>u DEF Inv, StreamsFiled
<1>6. StreamInv'
  <2>1. ASSUME NEW t \in Stream
        PROVE  \E num \in Numbering : StreamOK(t, num)'
    <3>1. InStream(t)' = InStream(t)
      BY <1>u DEF InStream
    <3>2. Sent(t)' = Sent(t)
      BY <3>1, <1>u, SameSent
    <3>3. Untouched(t)
      BY <3>2, <1>u DEF Untouched
    <3> QED
      BY <3>3, KeepStream DEF Inv
  <2> QED
    BY <2>1 DEF StreamInv
<1> QED
  BY <1>1, <1>2, <1>3, <1>4, <1>5, <1>6 DEF Inv

\* More units of stream s are sent.
LEMMA SendMore ==
    ASSUME Inv, NEW s \in Stream, NEW X \in Seq(Unit),
           wire' = [wire EXCEPT ![s] = wire[s] \o X],
           InStream(s)' = InStream(s), inbound' = inbound, obj_hdr' = obj_hdr
    PROVE  /\ wire' \in [Stream -> Seq(Unit)]
           /\ \A t \in Stream : t # s => wire'[t] = wire[t]
           /\ Sent(s)' = Sent(s) \o X
<1>1. wire \in [Stream -> Seq(Unit)] /\ wire[s] \in Seq(Unit) /\ inbound[s] \in Seq(Unit)
      /\ Held(s) \in Seq(Unit)
  BY SentType DEF Inv, NetTypes
<1>2. wire[s] \o X \in Seq(Unit)
  BY <1>1, ConcatUnits
<1>3. wire' \in [Stream -> Seq(Unit)] /\ wire'[s] = wire[s] \o X
  BY <1>1, <1>2
<1>4. Held(s)' = Held(s)
  BY DEF Held, Reading
<1>5. inbound[s] \o (wire[s] \o X) = (inbound[s] \o wire[s]) \o X
  BY <1>1, AssocUnits, ZenonT(60)
<1>6. inbound[s] \o wire[s] \in Seq(Unit)
  BY <1>1, ConcatUnits
<1>7. Held(s) \o ((inbound[s] \o wire[s]) \o X) = (Held(s) \o (inbound[s] \o wire[s])) \o X
  BY <1>1, <1>6, AssocUnits, ZenonT(60)
<1>8. Sent(s)' = Sent(s) \o X
  BY <1>3, <1>4, <1>5, <1>7 DEF Sent
<1>9. \A t \in Stream : t # s => wire'[t] = wire[t]
  BY <1>1
<1> QED
  BY <1>3, <1>8, <1>9

\* The headers of an object on the stream s, of which the OutStream is st.
LEMMA HeadersStep ==
    ASSUME Inv, NEW s \in Stream, NEW st \in OutStreamType, NEW id \in Id, NEW size \in Size,
           NEW capacity \in Capacity, WriteHeaders(s, st, id, size, capacity),
           st.state # "ObjectPayload",
           \A num \in Numbering : StreamOK(s, num) =>
               WrittenTo(Sent(s), written[s], Len(received[s]), num, st),
           opened' \in 0..MaxStream, opened' >= opened, s \in 1..opened', ~ended[s],
           current_stream_id' = s, ending'[s] = "open",
           ending' \in [Stream -> {"open", "fin", "reset"}],
           \A t \in Stream : t > opened' => ending'[t] = ending[t],
           \A t \in Stream : ending[t] # "open" => ending'[t] # "open",
           UNCHANGED publisherOnly, published' = published, written' = written
    PROVE  Inv'
<1> DEFINE X == Headers(st, id, size, capacity)
           st2 == AfterHeaders(st, id, size, capacity)
<1>v. UNCHANGED <<control, ended, wt_streams, inbound, wt_finished, in_streams, obj_hdr,
                  received, track_fin, panicked>>
  BY DEF publisherOnly, wtVars, trackVars, appVars
<1>o. opened \in Nat /\ opened' \in Nat /\ 1..opened \subseteq 1..opened'
  BY BoundsAssumption DEF Inv, OutTypes
<1>1. /\ InTypes' /\ AppTypes' /\ ControlInv' /\ ReaderInv' /\ StreamsFiled' /\ CountInv'
      /\ \A t \in Stream : InStream(t)' = InStream(t)
  BY <1>o, SubscriberKept
<1>x. X \in Seq(Unit) /\ st2 \in OutStreamType
  BY AfterHeadersType
<1>w. wire' = [wire EXCEPT ![s] = wire[s] \o X]
  <2> DEFINE a == IF st.state = "SubgroupHeader" /\ capacity # "none"
                  THEN SubgroupHeader ELSE << >>
             b == IF capacity = "both" THEN << ObjectHeader(id, size) >> ELSE << >>
  <2>1. wire' = [wire EXCEPT ![s] = (wire[s] \o a) \o b]
    BY DEF WriteHeaders
  <2>2. a \in Seq(Unit) /\ b \in Seq(Unit) /\ wire[s] \in Seq(Unit)
    BY HeaderUnits, Units DEF Inv, NetTypes
  <2>3. (wire[s] \o a) \o b = wire[s] \o (a \o b)
    <3> HIDE DEF a, b
    <3> QED
      BY <2>2, AssocUnits
  <2>4. X = a \o b
    BY DEF Headers
  <2> QED
    BY <2>1, <2>3, <2>4
<1>p. out_streams' = Put(out_streams, s, st2)
  BY DEF WriteHeaders, AfterHeaders
<1> HIDE DEF X, st2
<1>2. /\ wire' \in [Stream -> Seq(Unit)]
      /\ \A t \in Stream : t # s => wire'[t] = wire[t]
      /\ Sent(s)' = Sent(s) \o X
  BY <1>1, <1>v, <1>w, <1>x, SendMore
<1>3. /\ DOMAIN out_streams' = DOMAIN out_streams \cup {s}
      /\ out_streams'[s] = st2
      /\ \A t \in DOMAIN out_streams : t # s => out_streams'[t] = out_streams[t]
  BY <1>p DEF Put
<1>4. OutTypes'
  BY <1>o, <1>x, <1>3 DEF Inv, OutTypes
<1>5. NetTypes'
  BY <1>o, <1>v, <1>2 DEF Inv, NetTypes
<1>6. WriterInv'
  <2>1. \A t \in Stream : t > opened' => t > opened /\ t # s
    BY <1>o DEF Stream
  <2> QED
    BY <2>1, <1>v, <1>2, <1>3 DEF Inv, WriterInv
<1>7. EndInv'
  <2>1. \A t \in Stream : ended[t] => wire'[t] = << >>
    BY <1>2 DEF Inv, EndInv
  <2> QED
    BY <2>1, <1>v DEF Inv, EndInv
<1>8. StreamInv'
  <2>1. ASSUME NEW t \in Stream, t # s
        PROVE  \E num \in Numbering : StreamOK(t, num)'
    <3>1. Sent(t)' = Sent(t)
      BY <2>1, <1>1, <1>2, <1>v, SameSent
    <3>2. Untouched(t)
      BY <2>1, <3>1, <1>v DEF Untouched
    <3> QED
      BY <3>2, KeepStream DEF Inv
  <2>2. \E num \in Numbering : StreamOK(s, num)'
    <3>1. PICK num \in Numbering : StreamOK(s, num)
      BY DEF Inv, StreamInv
    <3> DEFINE V == Sent(s)
               W == written[s]
               n == Len(received[s])
    <3>2. /\ Framed(s, V) /\ Numbered(s, V, W, n, num) /\ WrittenTo(V, W, n, num, st)
          /\ W \in Seq(Object) /\ n \in Nat
      BY <3>1 DEF StreamOK, Inv, OutTypes, AppTypes
    <3> HIDE DEF V, W, n
    <3>3. PICK num2 \in Numbering :
              LET V2 == V \o Headers(st, id, size, capacity) IN
              /\ Framed(s, V2)
              /\ Numbered(s, V2, W, n, num2)
              /\ WrittenTo(V2, W, n, num2, AfterHeaders(st, id, size, capacity))
      BY <3>2, HeadersWritten
    <3>4. /\ Framed(s, Sent(s)')
          /\ Numbered(s, Sent(s)', written'[s], Len(received'[s]), num2)
          /\ WrittenTo(Sent(s)', written'[s], Len(received'[s]), num2, out_streams'[s])
      BY <3>3, <1>2, <1>3, <1>v DEF V, W, n, X, st2
    <3>5. StreamOK(s, num2)'
      BY <3>4 DEF StreamOK
    <3> QED
      BY <3>5
  <2> QED
    BY <2>1, <2>2 DEF StreamInv
<1> QED
  BY <1>1, <1>4, <1>5, <1>6, <1>7, <1>8 DEF Inv

LEMMA SendOnCurrentStep ==
    ASSUME Inv, NEW group, NEW id \in Id, NEW size \in Size, NEW capacity \in Capacity,
           SendOnCurrent(group, id, size, capacity)
    PROVE  Inv'
<1> DEFINE c == current_stream_id
           st == out_streams[c]
<1>1. c # None /\ st.state # "ObjectPayload"
  BY DEF SendOnCurrent, NeedNewStream, MaySend
<1>2. /\ c \in Stream /\ c \in 1..opened /\ st \in OutStreamType
      /\ ending[c] = "open" /\ ~ended[c]
  BY <1>1, CurrentOpen
<1>3. /\ WriteHeaders(c, st, id, size, capacity)
      /\ UNCHANGED <<current_stream_id, opened, published, written, ending>>
      /\ UNCHANGED publisherOnly
  BY DEF SendOnCurrent
<1>4. opened \in 0..MaxStream /\ ending \in [Stream -> {"open", "fin", "reset"}]
  BY DEF Inv, OutTypes, NetTypes
<1>5. \A num \in Numbering : StreamOK(c, num) =>
          WrittenTo(Sent(c), written[c], Len(received[c]), num, st)
  BY DEF StreamOK
<1>6. opened' \in 0..MaxStream /\ opened' >= opened /\ c \in 1..opened'
  BY <1>2, <1>3, <1>4
<1>7. /\ current_stream_id' = c /\ ending'[c] = "open"
      /\ ending' \in [Stream -> {"open", "fin", "reset"}]
      /\ \A t \in Stream : ending'[t] = ending[t]
  BY <1>2, <1>3, <1>4
<1> QED
  BY <1>1, <1>2, <1>3, <1>5, <1>6, <1>7, HeadersStep

LEMMA SendOnNewStep ==
    ASSUME Inv, NEW group \in Group \cup {None}, NEW id \in Id, NEW size \in Size,
           NEW capacity \in Capacity, SendOnNew(group, id, size, capacity)
    PROVE  Inv'
<1> DEFINE s == opened + 1
           st == NewOutStream(IF group = None THEN 0 ELSE group)
<1>1. /\ WriteHeaders(s, st, id, size, capacity)
      /\ opened < MaxStream /\ opened' = s /\ current_stream_id' = s
      /\ FinCurrent
      /\ UNCHANGED <<published, written>>
      /\ UNCHANGED publisherOnly
  BY DEF SendOnNew
<1>2. opened \in 0..MaxStream /\ MaxStream \in Nat
  BY BoundsAssumption DEF Inv, OutTypes
<1>3. /\ s \in Stream /\ s \in 1..opened' /\ s > opened
      /\ opened' \in 0..MaxStream /\ opened' >= opened
  BY <1>1, <1>2 DEF Stream
<1>4. /\ wire[s] = << >> /\ inbound[s] = << >> /\ written[s] = << >> /\ received[s] = << >>
      /\ ending[s] = "open" /\ ~ended[s]
  BY <1>3 DEF Inv, WriterInv
<1>5. st \in OutStreamType /\ st.state = "SubgroupHeader"
  BY BoundsAssumption DEF NewOutStream, OutStreamType, Group
<1>6. Sent(s) = << >>
  <2>1. s \notin DOMAIN in_streams
    BY <1>2, <1>3 DEF Inv, InTypes
  <2>2. Held(s) = << >>
    BY <2>1 DEF Held, InStream, NewInStream
  <2> QED
    BY <2>2, <1>4, ConcatUnits DEF Sent
<1>7. \A num \in Numbering : StreamOK(s, num) =>
          WrittenTo(Sent(s), written[s], Len(received[s]), num, st)
  BY <1>4, <1>5, <1>6 DEF WrittenTo
<1>8. /\ ending' \in [Stream -> {"open", "fin", "reset"}]
      /\ \A t \in Stream : t # current_stream_id => ending'[t] = ending[t]
      /\ \A t \in Stream : ending[t] # "open" => ending'[t] # "open"
  BY <1>1, FinCurrentEnds
<1>9. s # current_stream_id /\ (\A t \in Stream : t > opened' => t # current_stream_id)
  BY <1>1, <1>2, <1>3, Constants DEF Inv, OutTypes, None, Stream
<1>10. /\ ending'[s] = "open"
       /\ \A t \in Stream : t > opened' => ending'[t] = ending[t]
  BY <1>3, <1>4, <1>8, <1>9
<1>11. st.state # "ObjectPayload"
  BY <1>5
<1> HIDE DEF s, st
<1> QED
  BY <1>1, <1>3, <1>4, <1>5, <1>7, <1>8, <1>10, <1>11, HeadersStep

\* What OutStream and stream agree on, in the middle of an object.
LEMMA InObject ==
    ASSUME Inv, NEW s \in Stream, s = current_stream_id,
           out_streams[s].state = "ObjectPayload", NEW num \in Numbering, StreamOK(s, num)
    PROVE  LET V == Sent(s)
               st == out_streams[s] IN
           /\ st.remaining > 0 /\ st.remaining \in Nat /\ st.size \in Size
           /\ st.next_object_id - 1 \in Id
           /\ \E i \in 1..Len(V) :
                 /\ Unfinished(V, written[s], num, st, i)
                 /\ Len(V) - i = st.size - st.remaining
<1> DEFINE V == Sent(s)
           st == out_streams[s]
           W == written[s]
<1>1. Framed(s, V) /\ WrittenTo(V, W, Len(received[s]), num, st)
  BY DEF StreamOK
<1>2. st \in OutStreamType /\ st.state = "ObjectPayload"
  BY Constants, CurrentOpen
<1>3. st.remaining \in Nat
  BY <1>2 DEF OutStreamType
<1> HIDE DEF V, st, W
<1>4. st.remaining > 0 /\ \E i \in 1..Len(V) : Unfinished(V, W, num, st, i)
  BY <1>1, <1>2 DEF WrittenTo
<1>5. PICK i \in 1..Len(V) : Unfinished(V, W, num, st, i)
  BY <1>4
<1>6. /\ IsHeader(V, i) /\ V[i].id = st.next_object_id - 1 /\ V[i].size = st.size
      /\ EndOf(V, i) = Len(V) + st.remaining
  BY <1>5 DEF Unfinished
<1>7. V[i].id \in Id /\ V[i].size \in Size /\ V[i].size \in Nat /\ Len(V) \in Nat
  BY <1>1, <1>6, FrameTypes
<1>8. Len(V) - i = st.size - st.remaining
  BY <1>3, <1>6, <1>7 DEF EndOf
<1> QED
  BY <1>3, <1>4, <1>5, <1>6, <1>7, <1>8 DEF V, st, W

\* n more units of the payload of the object that is the last one of V.
LEMMA PayloadExtends ==
    ASSUME NEW s \in Stream, NEW V, NEW W, NEW num, NEW st, NEW i \in 1..Len(V),
           Framed(s, V), Unfinished(V, W, num, st, i),
           NEW n \in Nat, n <= st.remaining, st.remaining > 0, st.remaining \in Nat,
           Len(V) - i = st.size - st.remaining, st.size \in Size, st.next_object_id - 1 \in Id,
           NEW X, X = [j \in 1..n |->
                          Payload(s, st.next_object_id - 1, st.size - st.remaining + j)]
    PROVE  X \in Seq(Unit) /\ Extends(s, V, V \o X, i, n)
<1>t. V \in Seq(Unit) /\ Len(V) \in Nat /\ st.size \in Nat
  BY FrameTypes, Constants
<1>u. /\ IsHeader(V, i) /\ V[i].id = st.next_object_id - 1 /\ V[i].size = st.size
      /\ EndOf(V, i) = Len(V) + st.remaining
      /\ \A j \in 1..Len(V) : IsHeader(V, j) /\ j # i => EndOf(V, j) < i
  BY DEF Unfinished
<1>1. \A j \in 1..n : X[j] = Payload(s, V[i].id, Len(V) + j - i)
  <2> TAKE j \in 1..n
  <2>1. st.size - st.remaining + j = Len(V) + j - i
    BY <1>t
  <2> QED
    BY <2>1, <1>u
<1>2. X \in Seq(Unit) /\ Len(X) = n
  <2>1. \A j \in 1..n : X[j] \in Unit
    <3> TAKE j \in 1..n
    <3>1. Len(V) + j - i \in Nat \ {0}
      BY <1>t
    <3>2. V[i].id \in Id
      BY <1>u
    <3> QED
      BY <1>1, <3>1, <3>2, Units
  <2>2. X \in [1..n -> Unit]
    BY <2>1
  <2> QED
    BY <2>2
<1>3. /\ V \o X \in Seq(Unit) /\ Len(V \o X) = Len(V) + n
      /\ \A j \in 1..Len(V) + n : (V \o X)[j] = IF j <= Len(V) THEN V[j] ELSE X[j - Len(V)]
  BY <1>t, <1>2, ConcatProperties
<1>4. \A j \in 1..Len(V) : (V \o X)[j] = V[j]
  BY <1>t, <1>3
<1>5. \A j \in 1..n : (V \o X)[Len(V) + j] = X[j]
  <2> TAKE j \in 1..n
  <2>1. Len(V) + j \in 1..Len(V) + n /\ ~(Len(V) + j <= Len(V)) /\ Len(V) + j - Len(V) = j
    BY <1>t
  <2> QED
    BY <2>1, <1>3
<1>6. Len(V) < EndOf(V, i) /\ Len(V \o X) <= EndOf(V, i)
  BY <1>t, <1>u, <1>3
<1>7. \A j \in 1..n : (V \o X)[Len(V) + j] = Payload(s, V[i].id, Len(V) + j - i)
  BY <1>1, <1>5
<1> HIDE DEF Extends
<1> QED
  BY <1>2, <1>3, <1>4, <1>6, <1>7, <1>u DEF Extends

LEMMA SendObjPldStep ==
    ASSUME Inv, NEW n \in Nat \ {0}, SendObjPld(n)
    PROVE  Inv'
<1>s0. current_stream_id \in Stream
  BY CurrentOpen DEF SendObjPld
<1>s1. PICK s \in Stream : s = current_stream_id
  BY <1>s0
<1> DEFINE st == out_streams[s]
           id == st.next_object_id - 1
           first == st.size - st.remaining
           X == [i \in 1..n |-> Payload(s, id, first + i)]
           st2 == out_streams'[s]
<1>u. /\ s = current_stream_id /\ s # None /\ st.state = "ObjectPayload" /\ n <= st.remaining
      /\ wire' = [wire EXCEPT ![s] = wire[s] \o X]
      /\ UNCHANGED <<current_stream_id, opened, published, ending>>
      /\ UNCHANGED publisherOnly
  BY <1>s1, Constants DEF SendObjPld
<1>p. \/ /\ n = st.remaining
         /\ out_streams' = Put(out_streams, s, [st EXCEPT !.remaining = 0,
                                                          !.state = "ObjectHeader"])
         /\ written' = [written EXCEPT ![s] = Append(written[s], WholeObject(s, id, st.size))]
      \/ /\ n # st.remaining
         /\ out_streams' = Put(out_streams, s, [st EXCEPT !.remaining = st.remaining - n])
         /\ written' = written
  BY <1>s1 DEF SendObjPld
<1>v. UNCHANGED <<control, ended, wt_streams, inbound, wt_finished, in_streams, obj_hdr,
                  received, track_fin, panicked>>
  BY <1>u DEF publisherOnly, wtVars, trackVars, appVars
<1>c. /\ s \in Stream /\ s \in 1..opened /\ s \in DOMAIN out_streams
      /\ st \in OutStreamType /\ ending[s] = "open" /\ ~ended[s]
  BY <1>u, CurrentOpen
<1>1. /\ InTypes' /\ AppTypes' /\ ControlInv' /\ ReaderInv' /\ StreamsFiled' /\ CountInv'
      /\ \A t \in Stream : InStream(t)' = InStream(t)
  <2>1. opened \in Nat
    BY DEF Inv, OutTypes
  <2> QED
    BY <2>1, <1>u, SubscriberKept
<1>n. PICK num \in Numbering : StreamOK(s, num)
  BY <1>c DEF Inv, StreamInv
<1> DEFINE V == Sent(s)
           W == written[s]
<1>i. PICK i \in 1..Len(V) : /\ Unfinished(V, W, num, st, i)
                             /\ Len(V) - i = st.size - st.remaining
  BY <1>u, <1>c, <1>n, InObject
<1>j. st.remaining > 0 /\ st.remaining \in Nat /\ st.size \in Size /\ id \in Id
  BY <1>u, <1>c, <1>n, InObject
<1>f. Framed(s, V) /\ Numbered(s, V, W, Len(received[s]), num)
      /\ W \in Seq(Object) /\ Len(received[s]) \in Nat
  BY <1>n, <1>c DEF StreamOK, Inv, OutTypes, AppTypes
<1>x. X \in Seq(Unit) /\ Extends(s, V, V \o X, i, n)
  <2>1. X = [j \in 1..n |->
                Payload(s, st.next_object_id - 1, st.size - st.remaining + j)]
    OBVIOUS
  <2>2. n \in Nat /\ n <= st.remaining
    BY <1>u
  <2>3. Framed(s, V)
    BY <1>f
  <2> HIDE DEF V, W, st, X
  <2> QED
    BY <1>i, <1>j, <2>1, <2>2, <2>3, PayloadExtends
<1>2. /\ wire' \in [Stream -> Seq(Unit)]
      /\ \A t \in Stream : t # s => wire'[t] = wire[t]
      /\ Sent(s)' = V \o X
  <2> HIDE DEF X
  <2> QED
    BY <1>1, <1>c, <1>u, <1>v, <1>x, SendMore
<1>3. /\ DOMAIN out_streams' = DOMAIN out_streams
      /\ \A t \in DOMAIN out_streams : t # s => out_streams'[t] = out_streams[t]
  BY <1>p, <1>c DEF Put
<1>o. WholeObject(s, id, st.size) \in Object
  BY <1>c, <1>j DEF Object
<1>w. /\ written' \in [Stream -> Seq(Object)]
      /\ \A t \in Stream : t # s => written'[t] = written[t]
      /\ n = st.remaining => written'[s] = Append(W, WholeObject(s, id, st.size))
      /\ n # st.remaining => written'[s] = W
  <2>1. written \in [Stream -> Seq(Object)]
    BY DEF Inv, OutTypes
  <2>2. Append(W, WholeObject(s, id, st.size)) \in Seq(Object)
    BY <1>o, <1>f, AppendProperties
  <2> DEFINE W2 == Append(W, WholeObject(s, id, st.size))
  <2>3. \/ n = st.remaining /\ written' = [written EXCEPT ![s] = W2]
        \/ n # st.remaining /\ written' = written
    BY <1>p
  <2> HIDE DEF W2
  <2> QED
    BY <2>1, <2>2, <2>3, <1>c DEF W2
<1>s. /\ st2 \in OutStreamType
      /\ n < st.remaining => Continued(st, st2, n)
      /\ n = st.remaining => InState(st2, "ObjectHeader")
  <2>1. CASE n = st.remaining
    <3>1. st2 = [st EXCEPT !.remaining = 0, !.state = "ObjectHeader"]
      BY <2>1, <1>p, <1>c DEF Put
    <3>2. st2 \in OutStreamType
      <4>1. 0 \in Nat /\ st \in OutStreamType
        BY <1>c
      <4> HIDE DEF st, st2
      <4> QED
        BY <3>1, <4>1 DEF OutStreamType
    <3>3. st2.state = "ObjectHeader"
      BY <3>1, <1>c DEF OutStreamType
    <3> HIDE DEF st2, st
    <3> QED
      BY <2>1, <3>2, <3>3, <1>j DEF InState
  <2>2. CASE n # st.remaining
    <3>1. st2 = [st EXCEPT !.remaining = st.remaining - n]
      BY <2>2, <1>p, <1>c DEF Put
    <3>2. st.remaining - n \in Nat
      BY <1>u, <1>j
    <3>3. st2 \in OutStreamType
      BY <3>1, <3>2, <1>c DEF OutStreamType
    <3>4. /\ st2.state = st.state /\ st2.next_object_id = st.next_object_id
          /\ st2.size = st.size /\ st2.remaining = st.remaining - n
      BY <3>1, <1>c DEF OutStreamType
    <3> HIDE DEF st2, st
    <3> QED
      BY <2>2, <3>3, <3>4, <1>u DEF Continued
  <2> QED
    BY <2>1, <2>2
<1>4. OutTypes'
  <2>1. \A t \in DOMAIN out_streams' : out_streams'[t] \in OutStreamType
    BY <1>3, <1>s DEF Inv, OutTypes
  <2> QED
    BY <2>1, <1>u, <1>3, <1>w DEF Inv, OutTypes
<1>5. NetTypes'
  BY <1>u, <1>v, <1>2 DEF Inv, NetTypes
<1>6. WriterInv'
  <2>1. \A t \in Stream : t > opened => t # s
    BY <1>c DEF Inv, OutTypes, Stream
  <2> QED
    BY <2>1, <1>u, <1>v, <1>c, <1>2, <1>3, <1>w DEF Inv, WriterInv
<1>7. EndInv'
  <2>1. \A t \in Stream : ended[t] => wire'[t] = << >>
    BY <1>2, <1>c DEF Inv, EndInv
  <2> QED
    BY <2>1, <1>u, <1>v DEF Inv, EndInv
<1>8. StreamInv'
  <2>1. ASSUME NEW t \in Stream, t # s
        PROVE  \E num2 \in Numbering : StreamOK(t, num2)'
    <3>1. Sent(t)' = Sent(t)
      BY <2>1, <1>1, <1>2, <1>v, SameSent
    <3>2. Untouched(t)
      BY <2>1, <3>1, <1>u, <1>v, <1>w DEF Untouched
    <3> QED
      BY <3>2, KeepStream DEF Inv
  <2>2. StreamOK(s, num)'
    <3> DEFINE W2 == written'[s]
               V2 == V \o X
               m == Len(received[s])
    <3>0. n \in Nat /\ st.remaining \in Nat
      BY <1>j
    <3>1. \/ n < st.remaining /\ Continued(st, st2, n) /\ W2 = W
          \/ /\ n = st.remaining /\ InState(st2, "ObjectHeader")
             /\ W2 = Append(W, WholeObject(s, st.next_object_id - 1, st.size))
             /\ W2 \in Seq(Object)
      BY <3>0, <1>u, <1>s, <1>w, <1>c
    <3> HIDE DEF W2, V2, m, V, W, st, st2, X
    <3>2. /\ Framed(s, V2)
          /\ Numbered(s, V2, W2, m, num)
          /\ WrittenTo(V2, W2, m, num, st2)
      BY <3>0, <3>1, <1>c, <1>f, <1>i, <1>x, AppendPayload DEF m, V2
    <3>3. Sent(s)' = V2
      BY <1>2 DEF V2
    <3> QED
      BY <3>2, <3>3, <1>u, <1>v DEF StreamOK, W2, m, st2
  <2> QED
    BY <2>1, <2>2 DEF StreamInv
<1> QED
  BY <1>1, <1>4, <1>5, <1>6, <1>7, <1>8 DEF Inv

(***************************************************************************)
(* QUIC's and WebTransport's steps.                                        *)
(***************************************************************************)

\* A step that is not the publisher's leaves what the publisher knows.
LEMMA PublisherKept ==
    ASSUME Inv, UNCHANGED outVars
    PROVE  /\ OutTypes'
           /\ \A t \in Stream : Sent(t)' = Sent(t) /\ received'[t] = received[t] =>
                 \E num \in Numbering : StreamOK(t, num)'
<1>u. UNCHANGED <<current_stream_id, out_streams, opened, published, written>>
  BY DEF outVars
<1>1. OutTypes'
  BY <1>u DEF Inv, OutTypes
<1>2. ASSUME NEW t \in Stream, Sent(t)' = Sent(t), received'[t] = received[t]
      PROVE  \E num \in Numbering : StreamOK(t, num)'
  <2>1. Untouched(t)
    BY <1>2, <1>u DEF Untouched
  <2> QED
    BY <2>1, KeepStream DEF Inv
<1> QED
  BY <1>1, <1>2

\* Streams counted as finished stay so.
LEMMA CountGrows ==
    ASSUME CountInv, finned_streams \in Nat, finned_streams' = finned_streams,
           Counted \subseteq Counted'
    PROVE  CountInv'
<1>1. Counted' \subseteq Stream
  BY DEF Counted
<1>2. IsFiniteSet(Stream)
  BY BoundsAssumption, FS_Interval DEF Stream
<1> DEFINE A == Counted
           B == Counted'
<1>3. A \subseteq B /\ B \subseteq Stream
  BY <1>1
<1> HIDE DEF A, B
<1>4. IsFiniteSet(B)
  BY <1>2, <1>3, FS_Subset
<1>5. Cardinality(A) <= Cardinality(B) /\ IsFiniteSet(A)
  BY <1>3, <1>4, FS_Subset
<1>6. Cardinality(A) \in Nat /\ Cardinality(B) \in Nat
  BY <1>4, <1>5, FS_CardinalityType
<1>7. finned_streams <= Cardinality(A)
  BY DEF CountInv, A
<1>8. finned_streams' <= Cardinality(B)
  BY <1>5, <1>6, <1>7
<1> QED
  BY <1>8 DEF CountInv, B

LEMMA ArriveStep ==
    ASSUME Inv, NEW s \in Stream, Arrive(s)
    PROVE  Inv'
<1>u. /\ wire[s] # << >>
      /\ inbound' = [inbound EXCEPT ![s] = Append(inbound[s], Head(wire[s]))]
      /\ wire' = [wire EXCEPT ![s] = Tail(wire[s])]
      /\ wt_streams' = wt_streams \cup {s}
      /\ UNCHANGED outVars
      /\ UNCHANGED <<opened, ending, control, ended, wt_finished, in_streams, in_track,
                     readable_streams, finned_streams, expected_streams, pending_stream,
                     obj_hdr, received, track_fin, panicked, published, current_stream_id,
                     out_streams, written>>
  BY DEF Arrive, outVars, trackVars, appVars
<1>s. s \in 1..opened /\ ~ended[s]
  <2>1. ~(s > opened) /\ opened \in Nat
    BY <1>u DEF Inv, WriterInv, OutTypes
  <2> QED
    BY <2>1, <1>u DEF Inv, EndInv, Stream
<1>t. inbound[s] \in Seq(Unit) /\ wire[s] \in Seq(Unit) /\ Held(s) \in Seq(Unit)
  BY SentType DEF Inv
<1>h. /\ Head(wire[s]) \in Unit /\ Tail(wire[s]) \in Seq(Unit)
      /\ << Head(wire[s]) >> \in Seq(Unit) /\ << Head(wire[s]) >> \o Tail(wire[s]) = wire[s]
  BY <1>u, <1>t, FirstUnit
<1>a. /\ Append(inbound[s], Head(wire[s])) = inbound[s] \o << Head(wire[s]) >>
      /\ Append(inbound[s], Head(wire[s])) \in Seq(Unit)
  BY <1>t, <1>h, AppendIsConcat, AppendProperties
<1>1. OutTypes'
  BY <1>u, PublisherKept
<1>2. NetTypes'
  <2>1. inbound' \in [Stream -> Seq(Unit)] /\ wire' \in [Stream -> Seq(Unit)]
    BY <1>u, <1>h, <1>a DEF Inv, NetTypes
  <2> QED
    BY <2>1, <1>u, <1>s DEF Inv, NetTypes
<1>3. InTypes' /\ AppTypes' /\ ControlInv' /\ ReaderInv' /\ StreamsFiled'
  BY <1>u DEF Inv, InTypes, AppTypes, ControlInv, ReaderInv, StreamsFiled
<1>f. \A t \in Stream : t # s => inbound'[t] = inbound[t] /\ wire'[t] = wire[t]
  BY <1>u DEF Inv, NetTypes
<1>4. WriterInv'
  <2>1. \A t \in Stream : t > opened => t # s
    BY <1>s DEF Inv, OutTypes, Stream
  <2> QED
    BY <2>1, <1>f, <1>u DEF Inv, WriterInv
<1>5. EndInv'
  <2>1. \A t \in Stream : ended[t] => wire'[t] = << >>
    BY <1>f, <1>s DEF Inv, EndInv
  <2> QED
    BY <2>1, <1>u DEF Inv, EndInv
<1>6. CountInv'
  <2>1. Counted \subseteq Counted'
    BY <1>u, <1>f, <1>s DEF Counted
  <2> QED
    BY <2>1, <1>u, CountGrows DEF Inv, InTypes
<1>7. StreamInv'
  <2>1. ASSUME NEW t \in Stream
        PROVE  Sent(t)' = Sent(t)
    <3>1. CASE t # s
      <4>1. InStream(t)' = InStream(t)
        BY <1>u DEF InStream
      <4> QED
        BY <3>1, <4>1, <1>u, <1>f, SameSent
    <3>2. CASE t = s
      <4>1. Held(s)' = Held(s)
        BY <1>u DEF Held, Reading, InStream
      <4>2. inbound'[s] = inbound[s] \o << Head(wire[s]) >> /\ wire'[s] = Tail(wire[s])
        BY <1>u, <1>a DEF Inv, NetTypes
      <4>3. (inbound[s] \o << Head(wire[s]) >>) \o Tail(wire[s]) = inbound[s] \o wire[s]
        <5> DEFINE u == << Head(wire[s]) >>
                   v == Tail(wire[s])
        <5>1. u \in Seq(Unit) /\ v \in Seq(Unit) /\ u \o v = wire[s]
          BY <1>h
        <5> HIDE DEF u, v
        <5>2. (inbound[s] \o u) \o v = inbound[s] \o (u \o v)
          BY <1>t, <5>1, AssocUnits
        <5> QED
          BY <5>1, <5>2 DEF u, v
      <4> QED
        BY <3>2, <4>1, <4>2, <4>3 DEF Sent
    <3> QED
      BY <3>1, <3>2
  <2> QED
    BY <2>1, <1>u, PublisherKept DEF StreamInv
<1> QED
  BY <1>1, <1>2, <1>3, <1>4, <1>5, <1>6, <1>7 DEF Inv

LEMMA ArriveFinStep ==
    ASSUME Inv, NEW s \in Stream, ArriveFin(s)
    PROVE  Inv'
<1>u. /\ ending[s] = "fin" /\ wire[s] = << >>
      /\ ended' = [ended EXCEPT ![s] = TRUE]
      /\ wt_streams' = wt_streams \cup {s}
      /\ UNCHANGED outVars
      /\ UNCHANGED <<opened, ending, control, wire, inbound, wt_finished, in_streams,
                     in_track, readable_streams, finned_streams, expected_streams,
                     pending_stream, obj_hdr, received, track_fin, panicked, published,
                     current_stream_id, out_streams, written>>
  BY DEF ArriveFin, outVars, wtVars, trackVars, appVars
<1>s. s \in 1..opened
  <2>1. ~(s > opened) /\ opened \in Nat
    BY <1>u DEF Inv, WriterInv, OutTypes
  <2> QED
    BY <2>1 DEF Stream
<1>f. /\ ended' \in [Stream -> BOOLEAN] /\ ended'[s]
      /\ \A t \in Stream : t # s => ended'[t] = ended[t]
      /\ \A t \in Stream : ended[t] => ended'[t]
  BY <1>u DEF Inv, NetTypes
<1>1. OutTypes'
  BY <1>u, PublisherKept
<1>2. NetTypes'
  BY <1>u, <1>f, <1>s DEF Inv, NetTypes
<1>3. InTypes' /\ AppTypes' /\ ControlInv' /\ ReaderInv' /\ StreamsFiled'
  BY <1>u DEF Inv, InTypes, AppTypes, ControlInv, ReaderInv, StreamsFiled
<1>4. WriterInv'
  <2>1. \A t \in Stream : t > opened => t # s
    BY <1>s DEF Inv, OutTypes, Stream
  <2> QED
    BY <2>1, <1>f, <1>u DEF Inv, WriterInv
<1>5. EndInv'
  <2>1. \A t \in Stream : ended'[t] => wire[t] = << >> /\ ending[t] # "open"
    BY <1>f, <1>u DEF Inv, EndInv
  <2>2. \A t \in wt_finished : ended'[t]
    <3> TAKE t \in wt_finished
    <3>1. t \in Stream /\ ended[t]
      BY BoundsAssumption DEF Inv, EndInv, NetTypes, OutTypes, Stream
    <3> QED
      BY <3>1, <1>f
  <2>3. \A t \in DOMAIN in_streams : t \in wt_streams' \/ ended'[t]
    <3> TAKE t \in DOMAIN in_streams
    <3>1. t \in Stream
      BY BoundsAssumption DEF Inv, InTypes, OutTypes, Stream
    <3> QED
      BY <3>1, <1>u, <1>f DEF Inv, EndInv
  <2> QED
    BY <2>1, <2>2, <2>3, <1>u DEF EndInv
<1>6. CountInv'
  <2>1. Counted \subseteq Counted'
    BY <1>u, <1>f DEF Counted
  <2> QED
    BY <2>1, <1>u, CountGrows DEF Inv, InTypes
<1>7. StreamInv'
  <2>1. ASSUME NEW t \in Stream
        PROVE  Sent(t)' = Sent(t)
    <3>1. InStream(t)' = InStream(t)
      BY <1>u DEF InStream
    <3> QED
      BY <3>1, <1>u, SameSent
  <2> QED
    BY <2>1, <1>u, PublisherKept DEF StreamInv
<1> QED
  BY <1>1, <1>2, <1>3, <1>4, <1>5, <1>6, <1>7 DEF Inv

\* The subgroup header comes whole.
LEMMA HeldLength ==
    ASSUME NetTypes, InTypes, AppTypes, NEW t \in Stream, Held(t) # << >>
    PROVE  Len(Held(t)) >= HeaderLen
<1>1. InStream(t).subgroup_header
  BY DEF Held
<1>2. InStream(t).buf \in Seq(Unit) /\ Reading(t) \in Seq(Unit)
  BY SentType
<1> DEFINE rest == Reading(t) \o InStream(t).buf
<1>3. rest \in Seq(Unit)
  BY <1>2, ConcatUnits
<1>4. Held(t) = SubgroupHeader \o rest
  BY <1>1 DEF Held
<1> HIDE DEF rest
<1>5. Len(SubgroupHeader \o rest) = HeaderLen + Len(rest) /\ Len(rest) \in Nat
  BY <1>3, HeaderUnits, ConcatUnits
<1> QED
  BY <1>4, <1>5, Constants

LEMMA ArriveResetStep ==
    ASSUME Inv, NEW s \in Stream, ArriveReset(s)
    PROVE  Inv'
<1>u. /\ ending[s] = "reset" /\ ~ended[s]
      /\ ended' = [ended EXCEPT ![s] = TRUE]
      /\ wire' = [wire EXCEPT ![s] = << >>]
      /\ inbound' = [inbound EXCEPT ![s] = << >>]
      /\ UNCHANGED outVars
      /\ UNCHANGED <<opened, ending, control, wt_streams, wt_finished, in_streams,
                     in_track, readable_streams, finned_streams, expected_streams,
                     pending_stream, obj_hdr, received, track_fin, panicked, published,
                     current_stream_id, out_streams, written>>
  BY DEF ArriveReset, outVars, trackVars, appVars
<1>s. s \in 1..opened
  <2>1. ~(s > opened) /\ opened \in Nat
    BY <1>u DEF Inv, WriterInv, OutTypes
  <2> QED
    BY <2>1 DEF Stream
<1>f. /\ ended' \in [Stream -> BOOLEAN] /\ ended'[s]
      /\ \A t \in Stream : t # s => ended'[t] = ended[t]
      /\ \A t \in Stream : ended[t] => ended'[t]
  BY <1>u DEF Inv, NetTypes
<1>g. /\ wire' \in [Stream -> Seq(Unit)] /\ inbound' \in [Stream -> Seq(Unit)]
      /\ wire'[s] = << >> /\ inbound'[s] = << >>
      /\ \A t \in Stream : t # s => wire'[t] = wire[t] /\ inbound'[t] = inbound[t]
  BY <1>u DEF Inv, NetTypes
<1>1. OutTypes'
  BY <1>u, PublisherKept
<1>2. NetTypes'
  BY <1>u, <1>f, <1>g DEF Inv, NetTypes
<1>3. InTypes' /\ AppTypes' /\ ControlInv' /\ ReaderInv' /\ StreamsFiled'
  BY <1>u DEF Inv, InTypes, AppTypes, ControlInv, ReaderInv, StreamsFiled
<1>4. WriterInv'
  <2>1. \A t \in Stream : t > opened => t # s
    BY <1>s DEF Inv, OutTypes, Stream
  <2> QED
    BY <2>1, <1>f, <1>g, <1>u DEF Inv, WriterInv
<1>5. EndInv'
  <2>1. \A t \in Stream : ended'[t] => wire'[t] = << >> /\ ending[t] # "open"
    BY <1>f, <1>g, <1>u DEF Inv, EndInv
  <2>2. \A t \in wt_finished : ended'[t]
    <3> TAKE t \in wt_finished
    <3>1. t \in Stream /\ ended[t]
      BY BoundsAssumption DEF Inv, EndInv, NetTypes, OutTypes, Stream
    <3> QED
      BY <3>1, <1>f
  <2>3. \A t \in DOMAIN in_streams : t \in wt_streams \/ ended'[t]
    <3> TAKE t \in DOMAIN in_streams
    <3>1. t \in Stream
      BY BoundsAssumption DEF Inv, InTypes, OutTypes, Stream
    <3> QED
      BY <3>1, <1>f DEF Inv, EndInv
  <2> QED
    BY <2>1, <2>2, <2>3, <1>u DEF EndInv
<1>6. CountInv'
  <2>1. Counted \subseteq Counted'
    BY <1>u, <1>f, <1>g DEF Counted
  <2> QED
    BY <2>1, <1>u, CountGrows DEF Inv, InTypes
<1>7. StreamInv'
  <2>1. ASSUME NEW t \in Stream, t # s
        PROVE  Sent(t)' = Sent(t)
    <3>1. InStream(t)' = InStream(t)
      BY <1>u DEF InStream
    <3> QED
      BY <2>1, <3>1, <1>g, <1>u, SameSent
  <2>2. Sent(s)' = Held(s)
    <3>1. Held(s)' = Held(s)
      BY <1>u DEF Held, Reading, InStream
    <3>2. Held(s) \in Seq(Unit)
      BY SentType DEF Inv
    <3>3. << >> \o << >> = << >> /\ Held(s) \o << >> = Held(s)
      BY <3>2, ConcatUnits
    <3> QED
      BY <3>1, <3>3, <1>g DEF Sent
  <2>3. \E num \in Numbering : StreamOK(s, num)'
    <3> DEFINE A == Held(s)
               B == inbound[s] \o wire[s]
    <3>1. A \in Seq(Unit) /\ B \in Seq(Unit)
      BY SentType DEF Inv
    <3>2. Sent(s) = A \o B
      BY DEF Sent
    <3>3. A # << >> => Len(A) >= HeaderLen
      BY HeldLength DEF Inv
    <3>4. s # current_stream_id'
      BY <1>u, Constants DEF Inv, WriterInv
    <3> HIDE DEF A, B
    <3>5. Len(A) <= Len(A \o B) /\ \A i \in 1..Len(A) : (A \o B)[i] = A[i]
      BY <3>1, ConcatProperties
    <3>6. written'[s] = written[s] /\ received'[s] = received[s] /\ Sent(s)' = A
      BY <2>2, <1>u DEF A
    <3>7. /\ Sent(s)' \in Seq(Unit) /\ Len(Sent(s)') <= Len(Sent(s))
          /\ Sent(s)' # << >> => Len(Sent(s)') >= HeaderLen
          /\ \A i \in 1..Len(Sent(s)') : Sent(s)'[i] = Sent(s)[i]
      BY <3>1, <3>2, <3>3, <3>5, <3>6
    <3>8. StreamInv
      BY DEF Inv
    <3> QED
      BY <3>4, <3>6, <3>7, <3>8, CutStream
  <2>4. \A t \in Stream : t # s => \E num \in Numbering : StreamOK(t, num)'
    BY <2>1, <1>u, PublisherKept
  <2> QED
    BY <2>3, <2>4 DEF StreamInv
<1> QED
  BY <1>1, <1>2, <1>3, <1>4, <1>5, <1>6, <1>7 DEF Inv

\* Nothing happens on the streams.
LEMMA StreamsKept ==
    ASSUME Inv, UNCHANGED outVars,
           UNCHANGED <<wire, inbound, in_streams, obj_hdr, received>>
    PROVE  OutTypes' /\ StreamInv'
<1>1. ASSUME NEW t \in Stream
      PROVE  Sent(t)' = Sent(t)
  <2>1. InStream(t)' = InStream(t)
    BY DEF InStream
  <2> QED
    BY <2>1, SameSent
<1> QED
  BY <1>1, PublisherKept DEF StreamInv

LEMMA CollectStep ==
    ASSUME Inv, CollectStreams
    PROVE  Inv'
<1>u. /\ wt_streams' = wt_streams \ wt_finished /\ wt_finished' = {}
      /\ UNCHANGED outVars
      /\ UNCHANGED <<wire, ending, control, ended, inbound, in_streams, in_track,
                     readable_streams, finned_streams, expected_streams, pending_stream,
                     obj_hdr, received, track_fin, panicked, opened, published,
                     current_stream_id, out_streams, written>>
  BY DEF CollectStreams, outVars, trackVars, appVars
<1>1. OutTypes' /\ StreamInv'
  BY <1>u, StreamsKept
<1>2. NetTypes'
  BY <1>u DEF Inv, NetTypes
<1>3. InTypes' /\ AppTypes' /\ ControlInv' /\ ReaderInv' /\ StreamsFiled'
  BY <1>u DEF Inv, InTypes, AppTypes, ControlInv, ReaderInv, StreamsFiled
<1>4. WriterInv'
  BY <1>u DEF Inv, WriterInv
<1>5. EndInv'
  BY <1>u DEF Inv, EndInv
<1>6. CountInv'
  BY <1>u DEF Inv, CountInv, Counted
<1> QED
  BY <1>1, <1>2, <1>3, <1>4, <1>5, <1>6 DEF Inv

(***************************************************************************)
(* The steps of the subscriber's session.                                  *)
(***************************************************************************)

\* A failed assertion changes nothing else.
LEMMA PanicStep ==
    ASSUME Inv, panicked' \in PanicReason, UNCHANGED outVars,
           UNCHANGED <<wire, ending, control, ended, wt_streams, inbound, wt_finished,
                       in_streams, in_track, readable_streams, finned_streams,
                       expected_streams, pending_stream, obj_hdr, received, track_fin>>
    PROVE  Inv'
<1>u. UNCHANGED <<opened, published, current_stream_id, out_streams, written>>
  BY DEF outVars
<1>1. OutTypes' /\ StreamInv'
  BY StreamsKept
<1>2. NetTypes' /\ InTypes' /\ AppTypes'
  BY <1>u DEF Inv, NetTypes, InTypes, AppTypes
<1>3. ControlInv' /\ ReaderInv' /\ StreamsFiled'
  BY <1>u DEF Inv, ControlInv, ReaderInv, StreamsFiled
<1>4. WriterInv' /\ EndInv'
  BY <1>u DEF Inv, WriterInv, EndInv
<1>5. CountInv'
  BY DEF Inv, CountInv, Counted
<1> QED
  BY <1>1, <1>2, <1>3, <1>4, <1>5 DEF Inv

LEMMA ControlTail ==
    ASSUME ControlInv, control # << >>, control' = Tail(control), published' = published
    PROVE  /\ ControlInv'
           /\ control' = << >> \/ Head(control') = "PublishDone"
           /\ Head(control) \in {"SubscribeOk", "PublishDone"}
<1> DEFINE M == {"SubscribeOk", "PublishDone"}
<1>1. control \in Seq(M) /\ Len(control) \in Nat /\ 1 \in 1..Len(control)
  BY DEF ControlInv
<1>2. /\ control' \in Seq(M) /\ Len(control') = Len(control) - 1
      /\ \A i \in 1..Len(control') : control'[i] = control[i + 1]
      /\ Head(control) \in M
  BY <1>1, HeadTailProperties
<1>3. \A i \in 1..Len(control') : i + 1 \in 1..Len(control) /\ i + 1 # 1
  BY <1>1, <1>2
<1>4. ASSUME NEW i \in 1..Len(control')
      PROVE  /\ control'[i] # "SubscribeOk" /\ control'[i] = "PublishDone"
             /\ i = Len(control') /\ published
  <2>1. control'[i] = control[i + 1] /\ control[i + 1] # "SubscribeOk"
    BY <1>2, <1>3 DEF ControlInv
  <2>2. control'[i] \in M
    BY <1>2
  <2>3. control[i + 1] = "PublishDone"
    BY <2>1, <2>2
  <2>4. i + 1 = Len(control) /\ published
    BY <2>3, <1>3 DEF ControlInv
  <2> QED
    BY <2>1, <2>3, <2>4, <1>1, <1>2, SMTT(30)
<1>5. ControlInv'
  <2>1. control' \in Seq(M)
    BY <1>2
  <2> QED
    BY <2>1, <1>4, SMTT(30) DEF ControlInv
<1>6. control' = << >> \/ Head(control') = "PublishDone"
  <2>1. SUFFICES ASSUME control' # << >> PROVE Head(control') = "PublishDone"
    OBVIOUS
  <2>2. 1 \in 1..Len(control') /\ Head(control') = control'[1]
    BY <2>1, <1>2
  <2> QED
    BY <2>2, <1>4
<1> QED
  BY <1>2, <1>5, <1>6

LEMMA RecvSubscribeOkStep ==
    ASSUME Inv, RecvSubscribeOk
    PROVE  Inv'
<1>u. /\ control # << >> /\ Head(control) = "SubscribeOk"
      /\ control' = Tail(control) /\ in_track' = TRUE
      /\ readable_streams' = TakenOver /\ pending_stream' = None
      /\ UNCHANGED outVars
      /\ UNCHANGED <<wire, ending, ended, wt_streams, inbound, wt_finished, in_streams,
                     finned_streams, expected_streams, obj_hdr, received, track_fin,
                     panicked, opened, published, current_stream_id, out_streams, written>>
  BY DEF RecvSubscribeOk, outVars, wtVars, appVars
<1>t. ~in_track /\ readable_streams = {}
  <2>1. in_track \in BOOLEAN
    BY DEF Inv, InTypes
  <2>2. ~in_track
    BY <1>u, <2>1 DEF Inv, StreamsFiled
  <2> QED
    BY <2>2 DEF Inv, StreamsFiled
<1>r. readable_streams' = {pending_stream} \ {None} /\ readable_streams' \subseteq Stream
  BY <1>u DEF TakenOver, Inv, InTypes
<1>o. obj_hdr = NoObject
  BY <1>t DEF Inv, ReaderInv
<1>1. OutTypes' /\ StreamInv'
  BY <1>u, StreamsKept
<1>2. NetTypes' /\ AppTypes'
  BY <1>u DEF Inv, NetTypes, AppTypes
<1>3. InTypes'
  BY <1>u, <1>r DEF Inv, InTypes
<1>4. ControlInv' /\ (control' = << >> \/ Head(control') = "PublishDone")
  BY <1>u, ControlTail DEF Inv
<1>5. WriterInv' /\ EndInv'
  BY <1>u DEF Inv, WriterInv, EndInv
<1>6. ReaderInv'
  BY <1>u, <1>o DEF Inv, ReaderInv
<1>7. StreamsFiled'
  BY <1>u, <1>t, <1>r, <1>4 DEF Inv, StreamsFiled
<1>8. CountInv'
  <2>1. Counted \subseteq Counted'
    BY <1>u, <1>r, Constants DEF Counted
  <2> QED
    BY <2>1, <1>u, CountGrows DEF Inv, InTypes
<1> QED
  BY <1>1, <1>2, <1>3, <1>4, <1>5, <1>6, <1>7, <1>8 DEF Inv

LEMMA RecvPublishDoneStep ==
    ASSUME Inv, RecvPublishDone
    PROVE  Inv'
<1>u. /\ control # << >> /\ Head(control) = "PublishDone"
      /\ control' = Tail(control) /\ expected_streams' = 0
      /\ UNCHANGED outVars
      /\ UNCHANGED <<wire, ending, ended, wt_streams, inbound, wt_finished, in_streams,
                     in_track, readable_streams, finned_streams, pending_stream, obj_hdr,
                     received, track_fin, panicked, opened, published, current_stream_id,
                     out_streams, written>>
  BY DEF RecvPublishDone, outVars, wtVars, appVars
<1>1. OutTypes' /\ StreamInv'
  BY <1>u, StreamsKept
<1>2. NetTypes' /\ InTypes' /\ AppTypes'
  BY <1>u DEF Inv, NetTypes, InTypes, AppTypes
<1>3. ControlInv' /\ (control' = << >> \/ Head(control') = "PublishDone")
  BY <1>u, ControlTail DEF Inv
<1>4. WriterInv' /\ EndInv'
  BY <1>u DEF Inv, WriterInv, EndInv
<1>5. ReaderInv'
  BY <1>u DEF Inv, ReaderInv
<1>6. StreamsFiled'
  BY <1>u, <1>3 DEF Inv, StreamsFiled
<1>7. CountInv'
  BY <1>u DEF Inv, CountInv, Counted
<1> QED
  BY <1>1, <1>2, <1>3, <1>4, <1>5, <1>6, <1>7 DEF Inv

LEMMA PollFaultStep ==
    ASSUME Inv, NEW s \in Stream, PollFault(s)
    PROVE  Inv'
<1>1. \E why \in PanicReason : Panic(why)
  BY DEF PollFault, PanicReason
<1>2. panicked' \in PanicReason
  BY <1>1 DEF Panic
<1>3. /\ UNCHANGED outVars
      /\ UNCHANGED <<wire, ending, control, ended, wt_streams, inbound, wt_finished,
                     in_streams, in_track, readable_streams, finned_streams,
                     expected_streams, pending_stream, obj_hdr, received, track_fin>>
  BY <1>1 DEF Panic, wtVars, trackVars, appVars
<1> QED
  BY <1>2, <1>3, PanicStep

\* A stream is filed when its subgroup is known.
LEMMA Filed ==
    ASSUME Inv, NEW s \in Stream
    PROVE  /\ InStream(s).subgroup_header \in BOOLEAN
           /\ InStream(s).subgroup_header <=> s \in readable_streams \/ s = pending_stream
           /\ s \in readable_streams => s \in DOMAIN in_streams
           /\ ~InStream(s).subgroup_header =>
                 /\ InStream(s).buf = << >> /\ InStream(s).remaining = 0
                 /\ Reading(s) = << >>
<1>1. s \in readable_streams \cup ({pending_stream} \ {None})
          <=> s \in DOMAIN in_streams /\ in_streams[s].subgroup_header
  BY DEF Inv, StreamsFiled
<1>2. s # None
  BY Constants
<1>3. InStream(s).subgroup_header \in BOOLEAN
  BY SentType DEF Inv, InStreamType
<1>4. InStream(s).subgroup_header <=> s \in readable_streams \/ s = pending_stream
  <2>1. CASE s \in DOMAIN in_streams
    BY <2>1, <1>1, <1>2 DEF InStream
  <2>2. CASE s \notin DOMAIN in_streams
    BY <2>2, <1>1, <1>2 DEF InStream, NewInStream
  <2> QED
    BY <2>1, <2>2
<1>5. ~InStream(s).subgroup_header => InStream(s).buf = << >> /\ InStream(s).remaining = 0
  BY DEF InStream, NewInStream, Inv, ReaderInv
<1>6. ~InStream(s).subgroup_header => Reading(s) = << >>
  <2>1. SUFFICES ASSUME ~InStream(s).subgroup_header PROVE obj_hdr.stream # s
    BY DEF Reading
  <2>2. s \notin readable_streams
    BY <2>1, <1>4
  <2> QED
    BY <2>2, <1>2 DEF Inv, ReaderInv, NoObject
<1> QED
  BY <1>1, <1>3, <1>4, <1>5, <1>6

\* A subgroup header that is parsed is kept as such, and so is what follows it.
LEMMA HeaderParsed ==
    ASSUME NEW s \in Stream, NEW data \in Seq(Unit), NEW rest \in Seq(Unit),
           Framed(s, data \o rest), Len(data) >= HeaderLen
    PROVE  /\ SubSeq(data, HeaderLen + 1, Len(data)) \in Seq(Unit)
           /\ Len(SubSeq(data, HeaderLen + 1, Len(data))) <= Len(data)
           /\ (SubgroupHeader \o SubSeq(data, HeaderLen + 1, Len(data))) \o rest = data \o rest
<1> DEFINE a == SubSeq(data, 1, HeaderLen)
           b == SubSeq(data, HeaderLen + 1, Len(data))
<1>t. Len(data) \in Nat /\ HeaderLen \in 0..Len(data)
  BY Constants
<1>1. /\ a \in Seq(Unit) /\ Len(a) = HeaderLen
      /\ b \in Seq(Unit) /\ Len(b) = Len(data) - HeaderLen
      /\ a \o b = data
      /\ \A i \in 1..HeaderLen : a[i] = data[i]
  BY <1>t, SplitUnits
<1>2. Len(b) <= Len(data)
  BY <1>1, <1>t, Constants
<1>3. \A i \in 1..HeaderLen : data[i] = [kind |-> "subgroup"]
  <2> TAKE i \in 1..HeaderLen
  <2>1. /\ Len(data \o rest) = Len(data) + Len(rest) /\ Len(rest) \in Nat
        /\ \A j \in 1..Len(data) + Len(rest) : (data \o rest)[j] =
               IF j <= Len(data) THEN data[j] ELSE rest[j - Len(data)]
    BY ConcatProperties
  <2>2. i \in 1..Len(data) /\ i \in 1..Len(data \o rest) /\ i <= HeaderLen
        /\ i \in 1..Len(data) + Len(rest) /\ i <= Len(data)
    BY <2>1, <1>t, Constants
  <2>3. (data \o rest)[i] = data[i] /\ (data \o rest)[i].kind = "subgroup"
    BY <2>1, <2>2 DEF Framed
  <2>4. data[i] \in Unit
    BY <2>2, ElementOfSeq
  <2> QED
    BY <2>3, <2>4, UnitKinds
<1>4. a = SubgroupHeader
  <2>1. \A i \in 1..Len(a) : a[i] = SubgroupHeader[i]
    BY <1>1, <1>3, HeaderUnits
  <2> HIDE DEF a
  <2> QED
    BY <2>1, <1>1, HeaderUnits, SeqEqual
<1> QED
  BY <1>1, <1>2, <1>4

Regrouped(a, r, x, y, w) == (a \o (r \o x)) \o (y \o w) = (a \o r) \o ((x \o y) \o w)

LEMMA Regroup ==
    ASSUME NEW a \in Seq(Unit), NEW r \in Seq(Unit), NEW x \in Seq(Unit),
           NEW y \in Seq(Unit), NEW w \in Seq(Unit)
    PROVE  Regrouped(a, r, x, y, w)
<1>1. a \o r \in Seq(Unit) /\ y \o w \in Seq(Unit)
  BY ConcatUnits, Zenon
<1>2. (a \o r) \o x = a \o (r \o x)
  BY AssocUnits, ZenonT(60)
<1>3. (x \o y) \o w = x \o (y \o w)
  BY AssocUnits, ZenonT(60)
<1>b. PICK b \in Seq(Unit) : b = a \o r
  BY <1>1, Zenon
<1>z. PICK z \in Seq(Unit) : z = y \o w
  BY <1>1, Zenon
<1>4. (b \o x) \o z = b \o (x \o z)
  BY AssocUnits, ZenonT(60)
<1>5. b \o x = a \o (r \o x)
  BY <1>b, <1>2, Zenon
<1>6. (x \o y) \o w = x \o z
  BY <1>z, <1>3, Zenon
<1>7. (a \o (r \o x)) \o z = b \o ((x \o y) \o w)
  BY <1>4, <1>5, <1>6, Zenon
<1> QED
  BY <1>7, <1>b, <1>z, Zenon DEF Regrouped

\* What moves from QUIC to the buffer stays where it was in the stream.
SameUnits(data, rest, buf, inb) == data \o rest = buf \o inb

SameStream(a, r, buf, inb, w, data, rest) ==
    (a \o (r \o data)) \o (rest \o w) = (a \o (r \o buf)) \o (inb \o w)

LEMMA Moved ==
    ASSUME NEW a \in Seq(Unit), NEW r \in Seq(Unit), NEW buf \in Seq(Unit),
           NEW inb \in Seq(Unit), NEW w \in Seq(Unit), NEW data \in Seq(Unit),
           NEW rest \in Seq(Unit), SameUnits(data, rest, buf, inb)
    PROVE  SameStream(a, r, buf, inb, w, data, rest)
<1>1. Regrouped(a, r, data, rest, w) /\ Regrouped(a, r, buf, inb, w)
  BY Regroup
<1> QED
  BY <1>1, Zenon DEF SameUnits, Regrouped, SameStream

\* What polling leaves in the stream's state.
PolledBuf(s) ==
    LET data == Filled(InStream(s), s) IN
    IF InStream(s).subgroup_header \/ data = << >> THEN data
    ELSE SubSeq(data, HeaderLen + 1, Len(data))

LEMMA PolledSent ==
    ASSUME Inv, NEW s \in Stream, ~SplitHeader(s)
    PROVE  LET st == InStream(s)
               rest == Unfilled(st, s) IN
           /\ PolledBuf(s) \in Seq(Unit) /\ Len(PolledBuf(s)) <= BufLen
           /\ rest \in Seq(Unit)
           /\ ~KnowsSubgroup(s) => PolledBuf(s) = << >> /\ rest = << >> /\ inbound[s] = << >>
           /\ Sent(s) =
                 (IF KnowsSubgroup(s) THEN SubgroupHeader \o (Reading(s) \o PolledBuf(s))
                  ELSE << >>) \o (rest \o wire[s])
<1> DEFINE st == InStream(s)
           data == Filled(st, s)
           rest == Unfilled(st, s)
           w == wire[s]
           inb == inbound[s]
           r == Reading(s)
<1>t. /\ st.buf \in Seq(Unit) /\ Len(st.buf) <= BufLen /\ st.subgroup_header \in BOOLEAN
      /\ inb \in Seq(Unit) /\ w \in Seq(Unit) /\ r \in Seq(Unit)
  BY SentType, Filed DEF Inv
<1>d. /\ data \in Seq(Unit) /\ rest \in Seq(Unit) /\ Len(data) <= BufLen
      /\ SameUnits(data, rest, st.buf, inb)
      /\ data = << >> => st.buf = << >> /\ inb = << >> /\ rest = << >>
  BY <1>t, Fills DEF SameUnits
<1>k. KnowsSubgroup(s) <=> st.subgroup_header \/ data # << >>
  BY DEF KnowsSubgroup
<1>p. PolledBuf(s) = IF st.subgroup_header \/ data = << >> THEN data
                     ELSE SubSeq(data, HeaderLen + 1, Len(data))
  BY DEF PolledBuf
<1>h. Held(s) = IF st.subgroup_header THEN SubgroupHeader \o (r \o st.buf) ELSE << >>
  BY DEF Held
<1>f. ~st.subgroup_header => st.buf = << >> /\ r = << >>
  BY Filed
<1>l. ~st.subgroup_header => ~(Len(data) \in 1..HeaderLen - 1)
  BY DEF SplitHeader
<1>s. Sent(s) = Held(s) \o (inb \o w) /\ Framed(s, Sent(s))
  BY DEF Sent, Inv, StreamInv, StreamOK
<1> HIDE DEF st, data, rest, w, inb, r
<1>1. CASE st.subgroup_header
  <2>1. (SubgroupHeader \o (r \o data)) \o (rest \o w)
            = (SubgroupHeader \o (r \o st.buf)) \o (inb \o w)
    <3>1. SameStream(SubgroupHeader, r, st.buf, inb, w, data, rest)
      BY <1>t, <1>d, HeaderUnits, Moved
    <3> QED
      BY <3>1, Zenon DEF SameStream
  <2>2. Sent(s) = (SubgroupHeader \o (r \o data)) \o (rest \o w)
    BY <1>1, <2>1, <1>h, <1>s, Zenon
  <2>3. PolledBuf(s) = data /\ KnowsSubgroup(s)
    BY <1>1, <1>p, <1>k
  <2> QED
    BY <2>2, <2>3, <1>d DEF rest, w, r, st
<1>2. CASE ~st.subgroup_header /\ data = << >>
  BY <1>2, <1>d, <1>k, <1>p, <1>h, <1>s DEF st, rest, w, inb
<1>3. CASE ~st.subgroup_header /\ data # << >>
  <2> DEFINE b == SubSeq(data, HeaderLen + 1, Len(data))
  <2>1. Len(data) >= HeaderLen
    <3>1. Len(data) \in Nat /\ Len(data) > 0
      BY <1>3, <1>d
    <3> QED
      BY <3>1, <1>3, <1>l, Constants
  <2>2. inb = data \o rest
    <3>1. st.buf \o inb = inb
      BY <1>3, <1>f, <1>t, ConcatUnits
    <3> QED
      BY <3>1, <1>d, Zenon DEF SameUnits
  <2>3. (data \o rest) \o w = data \o (rest \o w) /\ rest \o w \in Seq(Unit)
    <3>1. data \in Seq(Unit) /\ rest \in Seq(Unit) /\ w \in Seq(Unit)
      BY <1>d, <1>t, Zenon
    <3>2. rest \o w \in Seq(Unit)
      BY <3>1, ConcatUnits
    <3>3. (data \o rest) \o w = data \o (rest \o w)
      BY <3>1, AssocUnits, Zenon
    <3> QED
      BY <3>2, <3>3
  <2>4. Sent(s) = data \o (rest \o w)
    <3>1. data \o (rest \o w) \in Seq(Unit)
      BY <1>d, <2>3, ConcatUnits
    <3>2. Sent(s) = << >> \o (inb \o w)
      BY <1>3, <1>h, <1>s, Zenon
    <3>3. inb \o w = data \o (rest \o w)
      BY <2>2, <2>3, Zenon
    <3>4. << >> \o (data \o (rest \o w)) = data \o (rest \o w)
      BY <3>1, ConcatUnits, Zenon
    <3> QED
      BY <3>2, <3>3, <3>4, Zenon
  <2>5. /\ b \in Seq(Unit) /\ Len(b) <= Len(data)
        /\ (SubgroupHeader \o b) \o (rest \o w) = data \o (rest \o w)
    <3>1. Framed(s, data \o (rest \o w))
      BY <1>s, <2>4, Zenon
    <3> HIDE DEF b
    <3> QED
      BY <1>d, <2>1, <2>3, <3>1, HeaderParsed, ZenonT(60) DEF b
  <2>6. PolledBuf(s) = b /\ KnowsSubgroup(s)
    BY <1>3, <1>p, <1>k
  <2>7. r \o b = b
    BY <1>3, <1>f, <2>5, ConcatUnits
  <2>8. Len(b) <= BufLen
    BY <1>d, <2>5, Constants
  <2> HIDE DEF b
  <2> QED
    BY <1>d, <2>4, <2>5, <2>6, <2>7, <2>8 DEF rest, w, r, st
<1> QED
  BY <1>1, <1>2, <1>3

LEMMA PollStreamStep ==
    ASSUME Inv, NEW s \in Stream, PollStream(s)
    PROVE  Inv'
<1> DEFINE st == InStream(s)
           k == KnowsSubgroup(s)
           st2 == [st EXCEPT !.subgroup_header = k, !.buf = PolledBuf(s)]
<1>u. /\ s \in wt_streams /\ ~SplitHeader(s)
      /\ k => in_track \/ pending_stream = None
      /\ UNCHANGED outVars
      /\ UNCHANGED <<wire, ending, control, ended, wt_streams, in_track, finned_streams,
                     expected_streams, obj_hdr, received, track_fin, panicked, opened,
                     published, current_stream_id, out_streams, written>>
  BY DEF PollStream, outVars, appVars
<1>v. /\ in_streams' = Put(in_streams, s, st2)
      /\ inbound' = [inbound EXCEPT ![s] = Unfilled(st, s)]
      /\ wt_finished' = IF st.buf = << >> /\ Drained(s) THEN FinishedBy({s}) ELSE wt_finished
      /\ readable_streams' = IF k /\ in_track THEN readable_streams \cup {s}
                             ELSE readable_streams
      /\ pending_stream' = IF k /\ ~in_track THEN s ELSE pending_stream
  BY DEF PollStream, PolledBuf
<1>s. s \in 1..opened /\ s # None
  BY <1>u, Constants DEF Inv, NetTypes
<1>p. /\ PolledBuf(s) \in Seq(Unit) /\ Len(PolledBuf(s)) <= BufLen
      /\ Unfilled(st, s) \in Seq(Unit)
      /\ ~k => PolledBuf(s) = << >> /\ Unfilled(st, s) = << >> /\ inbound[s] = << >>
      /\ Sent(s) = (IF k THEN SubgroupHeader \o (Reading(s) \o PolledBuf(s)) ELSE << >>)
                   \o (Unfilled(st, s) \o wire[s])
  BY <1>u, PolledSent
<1>k. k \in BOOLEAN /\ (st.subgroup_header => k)
  <2>1. st.subgroup_header \in BOOLEAN
    BY Filed
  <2> QED
    BY <2>1 DEF KnowsSubgroup
<1>t. st \in InStreamType /\ inbound[s] \in Seq(Unit) /\ wire[s] \in Seq(Unit)
  BY SentType DEF Inv
<1>2t. /\ st2 \in InStreamType /\ st2.subgroup_header = k /\ st2.buf = PolledBuf(s)
       /\ st2.remaining = st.remaining
  <2>1. st = [subgroup_header |-> st.subgroup_header, remaining |-> st.remaining,
              buf |-> st.buf] /\ st.remaining \in Nat
    BY <1>t DEF InStreamType
  <2> HIDE DEF st, k
  <2> QED
    BY <2>1, <1>k, <1>p DEF InStreamType
<1> HIDE DEF st2
<1>d. /\ DOMAIN in_streams' = DOMAIN in_streams \cup {s}
      /\ in_streams'[s] = st2
      /\ \A t \in DOMAIN in_streams : t # s => in_streams'[t] = in_streams[t]
  BY <1>v DEF Put
<1>i. InStream(s)' = st2 /\ \A t \in Stream : t # s => InStream(t)' = InStream(t)
  BY <1>d DEF InStream
<1>n. /\ inbound' \in [Stream -> Seq(Unit)] /\ inbound'[s] = Unfilled(st, s)
      /\ \A t \in Stream : t # s => inbound'[t] = inbound[t]
  BY <1>v, <1>p DEF Inv, NetTypes
<1>f. /\ wt_finished' \subseteq wt_finished \cup {s}
      /\ s \in wt_finished' => s \in wt_finished \/ ended[s]
  BY <1>v DEF FinishedBy, Drained
<1>q. /\ st.subgroup_header <=> s \in readable_streams \/ s = pending_stream
      /\ s \in readable_streams => s \in DOMAIN in_streams
      /\ ~st.subgroup_header => st.buf = << >> /\ st.remaining = 0
  BY Filed
<1> HIDE DEF k
<1>r. /\ k /\ in_track => readable_streams' = readable_streams \cup {s}
                          /\ pending_stream' = pending_stream
      /\ k /\ ~in_track => readable_streams' = readable_streams
                           /\ pending_stream' = s /\ pending_stream = None
      /\ ~k => readable_streams' = readable_streams /\ pending_stream' = pending_stream
  BY <1>u, <1>v, <1>k
<1>1. OutTypes'
  BY <1>u, PublisherKept
<1>2. NetTypes'
  BY <1>u, <1>n, <1>f DEF Inv, NetTypes
<1>3. InTypes'
  <2>1. DOMAIN in_streams' \subseteq 1..opened
    BY <1>d, <1>s DEF Inv, InTypes
  <2>2. \A t \in DOMAIN in_streams' :
            in_streams'[t] \in InStreamType /\ Len(in_streams'[t].buf) <= BufLen
    BY <1>d, <1>2t, <1>p DEF Inv, InTypes
  <2>3. pending_stream' \in Stream \cup {None} /\ readable_streams' \subseteq Stream
    BY <1>r, <1>k DEF Inv, InTypes
  <2> QED
    BY <2>1, <2>2, <2>3, <1>u DEF Inv, InTypes
<1>4. AppTypes' /\ ControlInv'
  BY <1>u DEF Inv, AppTypes, ControlInv
<1>5. WriterInv'
  <2>1. \A t \in Stream : t > opened => t # s
    BY <1>s DEF Inv, OutTypes, Stream
  <2> QED
    BY <2>1, <1>n, <1>u DEF Inv, WriterInv
<1>6. EndInv'
  BY <1>d, <1>f, <1>u DEF Inv, EndInv
<1>7. ReaderInv'
  <2>1. ASSUME NEW t \in DOMAIN in_streams'
        PROVE  /\ ~in_streams'[t].subgroup_header =>
                      in_streams'[t].buf = << >> /\ in_streams'[t].remaining = 0
               /\ in_streams'[t].remaining # 0 => obj_hdr.stream = t
    <3>1. CASE t # s
      BY <2>1, <3>1, <1>d DEF Inv, ReaderInv
    <3>2. CASE t = s
      <4>1. ~k => PolledBuf(s) = << >> /\ st.remaining = 0
        BY <1>p, <1>q, <1>k
      <4>2. st.remaining # 0 => obj_hdr.stream = s
        BY DEF Inv, ReaderInv, InStream, NewInStream
      <4> HIDE DEF st
      <4> QED
        BY <3>2, <4>1, <4>2, <1>d, <1>2t
    <3> QED
      BY <3>1, <3>2
  <2>2. obj_hdr # NoObject =>
            /\ in_track
            /\ obj_hdr.stream \in readable_streams'
            /\ in_streams'[obj_hdr.stream].remaining = obj_hdr.size - Len(obj_hdr.payload)
            /\ Len(obj_hdr.payload) < obj_hdr.size
    <3>1. SUFFICES ASSUME obj_hdr # NoObject
                   PROVE  /\ in_track /\ obj_hdr.stream \in readable_streams'
                          /\ in_streams'[obj_hdr.stream].remaining
                                 = obj_hdr.size - Len(obj_hdr.payload)
                          /\ Len(obj_hdr.payload) < obj_hdr.size
      OBVIOUS
    <3>2. /\ in_track /\ obj_hdr.stream \in readable_streams
          /\ in_streams[obj_hdr.stream].remaining = obj_hdr.size - Len(obj_hdr.payload)
          /\ Len(obj_hdr.payload) < obj_hdr.size
      BY <3>1 DEF Inv, ReaderInv
    <3>3. obj_hdr.stream \in Stream
      BY <3>2 DEF Inv, InTypes
    <3>4. obj_hdr.stream \in DOMAIN in_streams
      BY <3>2, <3>3, Filed
    <3>5. in_streams'[obj_hdr.stream].remaining = in_streams[obj_hdr.stream].remaining
      BY <3>4, <1>d, <1>2t DEF InStream
    <3>6. obj_hdr.stream \in readable_streams'
      BY <3>2, <1>r, <1>k
    <3> QED
      BY <3>2, <3>5, <3>6
  <2> QED
    BY <2>1, <2>2, <1>u DEF ReaderInv
<1>8. StreamsFiled'
  <2>1. ASSUME NEW t
        PROVE  t \in readable_streams' \cup ({pending_stream'} \ {None})
                   <=> t \in DOMAIN in_streams' /\ in_streams'[t].subgroup_header
    <3>1. CASE t = s
      <4>1. s \in readable_streams' \/ s = pending_stream' <=> k
        BY <1>r, <1>q, <1>k
      <4>2. in_streams'[s].subgroup_header = k /\ s \in DOMAIN in_streams'
        BY <1>d, <1>2t
      <4> QED
        BY <3>1, <4>1, <4>2, <1>s
    <3>2. CASE t # s
      <4>1. t \in readable_streams' \cup ({pending_stream'} \ {None})
                <=> t \in readable_streams \cup ({pending_stream} \ {None})
        BY <3>2, <1>r, <1>k
      <4>2. t \in DOMAIN in_streams' /\ in_streams'[t].subgroup_header
                <=> t \in DOMAIN in_streams /\ in_streams[t].subgroup_header
        BY <3>2, <1>d
      <4> QED
        BY <4>1, <4>2 DEF Inv, StreamsFiled
    <3> QED
      BY <3>1, <3>2
  <2>2. /\ in_track => pending_stream' = None
        /\ ~in_track => readable_streams' = {}
    BY <1>r, <1>k DEF Inv, StreamsFiled
  <2>3. in_track <=> control = << >> \/ Head(control) = "PublishDone"
    BY DEF Inv, StreamsFiled
  <2> QED
    BY <2>1, <2>2, <2>3, <1>u DEF StreamsFiled
<1>9. CountInv'
  <2>1. ASSUME NEW t \in Counted PROVE t \in Counted'
    <3>1. t \in Stream /\ ended[t] /\ inbound[t] = << >> /\ t \notin readable_streams
          /\ t # pending_stream
      BY DEF Counted
    <3>2. CASE t # s
      <4>1. t \notin readable_streams' /\ t # pending_stream'
        BY <3>1, <3>2, <1>r, <1>k
      <4> QED
        BY <3>1, <3>2, <4>1, <1>n, <1>u DEF Counted
    <3>3. CASE t = s
      <4>1. st.buf = << >> /\ ~st.subgroup_header
        BY <3>1, <3>3, <1>q
      <4>2. Filled(st, s) = << >>
        <5> DEFINE a == Filled(st, s)
                   b == Unfilled(st, s)
        <5>1. Len(st.buf) <= BufLen
          BY <4>1, Constants
        <5>2. a \in Seq(Unit) /\ b \in Seq(Unit) /\ a \o b = << >> \o << >>
          BY <4>1, <5>1, <1>t, <3>1, <3>3, Fills
        <5> HIDE DEF a, b
        <5>3. Len(a \o b) = Len(a) + Len(b) /\ Len(a) \in Nat /\ Len(b) \in Nat
          BY <5>2, ConcatUnits
        <5>4. << >> \o << >> = << >> /\ Len(<< >>) = 0
          OBVIOUS
        <5>5. Len(a) = 0
          BY <5>2, <5>3, <5>4
        <5> QED
          BY <5>2, <5>5, EmptySeq DEF a
      <4>3. ~k
        BY <4>1, <4>2 DEF k, KnowsSubgroup
      <4>4. s \notin readable_streams' /\ s # pending_stream' /\ inbound'[s] = << >>
        BY <4>3, <3>1, <3>3, <1>r, <1>p, <1>n
      <4> QED
        BY <3>1, <3>3, <4>4, <1>u DEF Counted
    <3> QED
      BY <3>2, <3>3
  <2> QED
    BY <2>1, <1>u, CountGrows DEF Inv, InTypes
<1>10. StreamInv'
  <2>1. ASSUME NEW t \in Stream
        PROVE  Sent(t)' = Sent(t)
    <3>1. CASE t # s
      BY <3>1, <1>i, <1>n, <1>u, SameSent
    <3>2. CASE t = s
      <4>1. Reading(s)' = Reading(s)
        BY <1>u DEF Reading
      <4>2. Held(s)' = IF k THEN SubgroupHeader \o (Reading(s) \o PolledBuf(s)) ELSE << >>
        BY <4>1, <1>i, <1>2t DEF Held
      <4>3. Sent(s)' = Held(s)' \o (Unfilled(st, s) \o wire[s])
        BY <1>n, <1>u DEF Sent
      <4> QED
        BY <3>2, <4>2, <4>3, <1>p, Zenon DEF k
    <3> QED
      BY <3>1, <3>2
  <2> QED
    BY <2>1, <1>u, PublisherKept DEF StreamInv
<1> QED
  BY <1>1, <1>2, <1>3, <1>4, <1>5, <1>6, <1>7, <1>8, <1>9, <1>10 DEF Inv

(***************************************************************************)
(* The application's steps.                                                *)
(***************************************************************************)

\* Streams are dropped when they are read to their end: each counts once more.
LEMMA DroppedCount ==
    ASSUME Inv, NEW D \in SUBSET readable_streams, DropStreams(D),
           \A d \in D : ended[d] /\ inbound[d] = << >>,
           ended' = ended, pending_stream' = pending_stream,
           \A t \in Stream : inbound[t] = << >> => inbound'[t] = << >>
    PROVE  finned_streams' \in Nat /\ CountInv'
<1> DEFINE A == Counted
           B == Counted'
<1>1. /\ readable_streams' = readable_streams \ D
      /\ finned_streams' = finned_streams + Cardinality(D)
      /\ finned_streams \in Nat /\ readable_streams \subseteq Stream
      /\ finned_streams <= Cardinality(A)
  BY DEF DropStreams, Inv, InTypes, CountInv
<1>2. D \subseteq Stream /\ A \subseteq Stream /\ B \subseteq Stream
  BY <1>1 DEF Counted
<1>3. \A d \in D : d # pending_stream
  BY <1>2, Constants DEF Inv, StreamsFiled
<1>4. D \subseteq B
  BY <1>1, <1>2, <1>3 DEF Counted
<1>5. A \subseteq B /\ A \cap D = {}
  BY <1>1 DEF Counted
<1>6. IsFiniteSet(Stream)
  BY BoundsAssumption, FS_Interval DEF Stream
<1> HIDE DEF A, B
<1>7. IsFiniteSet(A) /\ IsFiniteSet(B) /\ IsFiniteSet(D)
  BY <1>2, <1>6, FS_Subset
<1>8. Cardinality(A) \in Nat /\ Cardinality(B) \in Nat /\ Cardinality(D) \in Nat
  BY <1>7, FS_CardinalityType
<1>9. Cardinality(A \cup D) = Cardinality(A) + Cardinality(D)
  <2>1. Cardinality(A \cup D) = Cardinality(A) + Cardinality(D) - Cardinality(A \cap D)
    BY <1>7, FS_Union
  <2>2. Cardinality(A \cap D) = 0
    BY <1>5, FS_EmptySet
  <2> QED
    BY <2>1, <2>2, <1>8
<1>10. Cardinality(A \cup D) <= Cardinality(B)
  <2>1. A \cup D \subseteq B
    BY <1>4, <1>5
  <2> QED
    BY <2>1, <1>7, FS_Subset
<1>11. finned_streams' \in Nat /\ finned_streams' <= Cardinality(B)
  BY <1>1, <1>8, <1>9, <1>10
<1> QED
  BY <1>11 DEF CountInv, B

LEMMA DroppedStream ==
    ASSUME Inv, NEW d \in Stream, ended[d], inbound[d] = << >>, UNCHANGED outVars,
           d \notin DOMAIN in_streams', inbound'[d] = << >>, wire' = wire,
           received'[d] = received[d]
    PROVE  \E num \in Numbering : StreamOK(d, num)'
<1>u. current_stream_id' = current_stream_id /\ written' = written
  BY DEF outVars
<1>1. wire[d] = << >> /\ ending[d] # "open"
  BY DEF Inv, EndInv
<1>2. d # current_stream_id'
  BY <1>1, <1>u, Constants DEF Inv, WriterInv
<1>3. Sent(d)' = << >>
  <2>1. Held(d)' = << >>
    BY DEF Held, InStream, NewInStream
  <2>2. << >> \o (<< >> \o << >>) = << >>
    OBVIOUS
  <2> QED
    BY <2>1, <2>2, <1>1 DEF Sent
<1>4. Sent(d) \in Seq(Unit) /\ Len(Sent(d)) \in Nat
  <2>1. PICK num \in Numbering : StreamOK(d, num)
    BY DEF Inv, StreamInv
  <2>2. Framed(d, Sent(d))
    BY <2>1 DEF StreamOK
  <2> QED
    BY <2>2, FrameTypes
<1>5. /\ Sent(d)' \in Seq(Unit) /\ Len(Sent(d)') <= Len(Sent(d))
      /\ Sent(d)' # << >> => Len(Sent(d)') >= HeaderLen
      /\ \A i \in 1..Len(Sent(d)') : Sent(d)'[i] = Sent(d)[i]
  BY <1>3, <1>4
<1>6. StreamInv
  BY DEF Inv
<1> QED
  BY <1>2, <1>5, <1>6, <1>u, CutStream

LEMMA DropStep ==
    ASSUME Inv, NEW D \in SUBSET readable_streams, DropStreams(D),
           \A d \in D : ended[d] /\ inbound[d] = << >> /\ d \in wt_streams,
           in_track, in_streams' = Without(in_streams, D),
           obj_hdr' = NoObject, obj_hdr # NoObject => obj_hdr.stream \in D,
           track_fin' \in BOOLEAN, UNCHANGED outVars,
           UNCHANGED <<wire, ending, control, ended, wt_streams, inbound, in_track,
                       expected_streams, pending_stream, received, panicked>>
    PROVE  Inv'
<1>u. UNCHANGED <<opened, published, current_stream_id, out_streams, written>>
  BY DEF outVars
<1>v. /\ readable_streams' = readable_streams \ D
      /\ wt_finished' \subseteq wt_finished \cup D
  BY DEF DropStreams, FinishedBy
<1>d. /\ DOMAIN in_streams' = DOMAIN in_streams \ D
      /\ \A t \in DOMAIN in_streams' : in_streams'[t] = in_streams[t]
  BY DEF Without
<1>s. DOMAIN in_streams \subseteq Stream /\ readable_streams \subseteq Stream
  BY BoundsAssumption DEF Inv, InTypes, OutTypes, Stream
<1>i. \A t \in Stream : t \notin D => InStream(t)' = InStream(t)
  BY <1>d DEF InStream
<1>n. /\ NoObject.stream = None
      /\ \A t \in Stream : t \notin D => obj_hdr.stream # t
  BY Constants DEF NoObject
<1>1. OutTypes'
  BY <1>u, PublisherKept
<1>2. NetTypes'
  BY <1>u, <1>v DEF Inv, NetTypes
<1>3. finned_streams' \in Nat /\ CountInv'
  BY DroppedCount
<1>4. InTypes'
  BY <1>3, <1>u, <1>v, <1>d DEF Inv, InTypes
<1>5. AppTypes' /\ ControlInv' /\ WriterInv'
  BY <1>u DEF Inv, AppTypes, ControlInv, WriterInv
<1>6. EndInv'
  BY <1>v, <1>d DEF Inv, EndInv
<1>7. ReaderInv'
  <2>1. \A t \in DOMAIN in_streams' : in_streams'[t].remaining = 0
    BY <1>d, <1>s, <1>n DEF Inv, ReaderInv
  <2> QED
    BY <2>1, <1>d DEF Inv, ReaderInv
<1>8. StreamsFiled'
  BY <1>v, <1>d, <1>s, Constants DEF Inv, StreamsFiled
<1>9. StreamInv'
  <2>1. ASSUME NEW t \in Stream, t \notin D
        PROVE  \E num \in Numbering : StreamOK(t, num)'
    <3>1. Reading(t)' = Reading(t)
      BY <2>1, <1>n, Constants DEF Reading
    <3>2. Sent(t)' = Sent(t)
      BY <2>1, <3>1, <1>i DEF Sent, Held
    <3> QED
      BY <3>2, PublisherKept
  <2>2. ASSUME NEW t \in D
        PROVE  \E num \in Numbering : StreamOK(t, num)'
    BY <1>s, <1>d, DroppedStream
  <2> QED
    BY <2>1, <2>2 DEF StreamInv
<1> QED
  BY <1>1, <1>2, <1>3, <1>4, <1>5, <1>6, <1>7, <1>8, <1>9 DEF Inv

LEMMA ReadUpOver ==
    ASSUME Inv
    PROVE  /\ ReadUp \subseteq readable_streams
           /\ \A d \in ReadUp : /\ ended[d] /\ inbound[d] = << >> /\ d \in wt_streams
                                /\ in_streams[d].remaining = 0
<1>1. \A d \in readable_streams : d <= d
  BY DEF Inv, InTypes, Stream
<1>2. \A d \in ReadUp : d \in readable_streams /\ Over(d)
  BY <1>1 DEF ReadUp
<1> QED
  BY <1>2 DEF Over, Drained

\* What a call of read_obj_hdr() leaves alone.
LEMMA ReadObjHdrKeeps ==
    ASSUME ReadObjHdr
    PROVE  /\ UNCHANGED outVars
           /\ UNCHANGED <<wire, ending, control, ended, wt_streams, in_track,
                          expected_streams, pending_stream, received>>
           /\ in_track /\ obj_hdr = NoObject
BY DEF ReadObjHdr

LEMMA NothingReadStep ==
    ASSUME Inv, ReadObjHdr, NoStreamLeft \/ NoHeaderYet
    PROVE  Inv'
<1>1. /\ DropStreams(ReadUp) /\ in_streams' = Without(in_streams, ReadUp)
      /\ UNCHANGED <<inbound, obj_hdr, panicked>>
  BY DEF NoStreamLeft, NoHeaderYet, DropReadUp
<1>2. track_fin' \in BOOLEAN
  BY DEF NoStreamLeft, NoHeaderYet, FullyDone, Inv, AppTypes
<1>3. /\ UNCHANGED outVars
      /\ UNCHANGED <<wire, ending, control, ended, wt_streams, in_track,
                     expected_streams, pending_stream, received>>
      /\ in_track /\ obj_hdr = NoObject
  BY ReadObjHdrKeeps
<1> DEFINE D == ReadUp
<1>4. /\ D \in SUBSET readable_streams
      /\ \A d \in D : ended[d] /\ inbound[d] = << >> /\ d \in wt_streams
  BY ReadUpOver
<1>5. DropStreams(D) /\ in_streams' = Without(in_streams, D)
  BY <1>1
<1> HIDE DEF D
<1> QED
  BY <1>1, <1>2, <1>3, <1>4, <1>5, DropStep

LEMMA HeaderFaultStep ==
    ASSUME Inv, ReadObjHdr, ReadHeaderFault
    PROVE  Inv'
<1>1. /\ UNCHANGED <<inbound, wt_finished, in_streams, readable_streams, finned_streams,
                     obj_hdr, track_fin>>
      /\ panicked' \in PanicReason
  BY DEF ReadHeaderFault, wtVars, PanicReason
<1> QED
  BY <1>1, ReadObjHdrKeeps, PanicStep

\* The stream being read is the one the object came from.
LEMMA PayloadFromObject ==
    ASSUME Inv, obj_hdr # NoObject, in_streams[PayloadStream].remaining # 0
    PROVE  /\ PayloadStream = obj_hdr.stream
           /\ obj_hdr.stream \in Stream /\ obj_hdr.stream \in readable_streams
           /\ obj_hdr.stream \in DOMAIN in_streams
           /\ in_streams[obj_hdr.stream].subgroup_header
<1>1. obj_hdr.stream \in readable_streams /\ readable_streams \in SUBSET Stream
  BY DEF Inv, ReaderInv, InTypes
<1>2. PayloadStream \in readable_streams
  <2> DEFINE S == readable_streams
  <2>1. S \in SUBSET Stream /\ S # {}
    BY <1>1
  <2> HIDE DEF S
  <2>2. CurrentStream(S) \in S
    BY <2>1, FirstStream, Zenon
  <2> QED
    BY <2>2 DEF PayloadStream, S
<1>3. PayloadStream \in DOMAIN in_streams /\ obj_hdr.stream \in DOMAIN in_streams
  BY <1>1, <1>2 DEF Inv, StreamsFiled
<1>4. PayloadStream = obj_hdr.stream
  BY <1>3 DEF Inv, ReaderInv
<1>5. in_streams[obj_hdr.stream].subgroup_header
  BY <1>1 DEF Inv, StreamsFiled
<1> QED
  BY <1>1, <1>3, <1>4, <1>5

LEMMA ReadObjPldKeeps ==
    ASSUME ReadObjPld
    PROVE  /\ UNCHANGED outVars
           /\ UNCHANGED <<wire, ending, control, ended, wt_streams, in_track,
                          expected_streams, pending_stream, track_fin>>
           /\ obj_hdr # NoObject
BY DEF ReadObjPld

LEMMA CutOffStep ==
    ASSUME Inv, ReadObjPld, StreamCutOff
    PROVE  Inv'
<1>1. /\ UNCHANGED outVars
      /\ UNCHANGED <<wire, ending, control, ended, wt_streams, in_track,
                     expected_streams, pending_stream, track_fin>>
      /\ obj_hdr # NoObject
  BY ReadObjPldKeeps
<1> DEFINE s == PayloadStream
           D == {s}
<1>2. /\ in_streams[s].remaining # 0
      /\ s \in wt_streams /\ inbound[s] = << >> /\ ended[s]
      /\ DropStreams(D) /\ in_streams' = Without(in_streams, D) /\ obj_hdr' = NoObject
      /\ UNCHANGED <<inbound, received, panicked>>
  BY DEF StreamCutOff, Drained
<1>3. s = obj_hdr.stream /\ obj_hdr.stream \in readable_streams
  BY <1>1, <1>2, PayloadFromObject
<1>4. D \in SUBSET readable_streams /\ obj_hdr.stream \in D
      /\ \A d \in D : ended[d] /\ inbound[d] = << >> /\ d \in wt_streams
  BY <1>2, <1>3
<1>5. in_track /\ track_fin' \in BOOLEAN
  BY <1>1 DEF Inv, ReaderInv, AppTypes
<1> HIDE DEF D, s
<1> QED
  BY <1>1, <1>2, <1>4, <1>5, DropStep

LEMMA PayloadFaultStep ==
    ASSUME Inv, ReadObjPld, ReadPayloadFault
    PROVE  Inv'
<1>1. /\ UNCHANGED <<inbound, wt_finished, in_streams, readable_streams, finned_streams,
                     obj_hdr, received>>
      /\ panicked' \in PanicReason
  BY DEF ReadPayloadFault, wtVars, PanicReason
<1> QED
  BY <1>1, ReadObjPldKeeps, PanicStep

\* What follows the objects that are complete is the header of the next one.
LEMMA HeaderFirst ==
    ASSUME NEW s \in Stream, NEW data \in Seq(Unit), NEW z \in Seq(Unit), data # << >>,
           Framed(s, (SubgroupHeader \o data) \o z)
    PROVE  /\ Head(data).id \in Id /\ Head(data).size \in Size
           /\ Head(data) = ObjectHeader(Head(data).id, Head(data).size)
           /\ Tail(data) \in Seq(Unit) /\ Len(Tail(data)) <= Len(data)
           /\ << Head(data) >> \in Seq(Unit) /\ << Head(data) >> \o Tail(data) = data
<1> DEFINE a == SubgroupHeader \o data
           V == a \o z
<1>1. /\ Head(data) \in Unit /\ Head(data) = data[1] /\ 1 \in 1..Len(data)
      /\ Tail(data) \in Seq(Unit) /\ Len(Tail(data)) = Len(data) - 1
      /\ << Head(data) >> \in Seq(Unit) /\ << Head(data) >> \o Tail(data) = data
  BY FirstUnit
<1>2. /\ a \in Seq(Unit) /\ Len(a) = HeaderLen + Len(data) /\ a[HeaderLen + 1] = data[1]
  <2> DEFINE h == SubgroupHeader
  <2>1. h \in Seq(Unit) /\ Len(h) = HeaderLen
    BY HeaderUnits
  <2> HIDE DEF h
  <2>2. /\ h \o data \in Seq(Unit) /\ Len(h \o data) = Len(h) + Len(data)
        /\ \A i \in 1..Len(h) + Len(data) : (h \o data)[i] =
               IF i <= Len(h) THEN h[i] ELSE data[i - Len(h)]
    BY <2>1, ConcatProperties
  <2>3. /\ HeaderLen + 1 \in 1..HeaderLen + Len(data) /\ ~(HeaderLen + 1 <= HeaderLen)
        /\ (HeaderLen + 1) - HeaderLen = 1
    BY <1>1, Constants
  <2>4. (h \o data)[HeaderLen + 1] = data[1]
    BY <2>1, <2>2, <2>3
  <2> QED
    BY <2>1, <2>2, <2>4 DEF h
<1> HIDE DEF a
<1>3. /\ Len(V) > HeaderLen /\ V[HeaderLen + 1] = a[HeaderLen + 1]
  <2> DEFINE c == z
  <2>a. a \in Seq(Unit) /\ c \in Seq(Unit)
    BY <1>2
  <2>c. Len(z) \in Nat
    OBVIOUS
  <2> HIDE DEF c
  <2>b. /\ Len(a \o c) = Len(a) + Len(c)
        /\ \A i \in 1..Len(a) + Len(c) : (a \o c)[i] =
               IF i <= Len(a) THEN a[i] ELSE c[i - Len(a)]
    BY <2>a, ConcatProperties
  <2>1. /\ Len(a \o z) = Len(a) + Len(z) /\ Len(z) \in Nat
        /\ \A i \in 1..Len(a) + Len(z) : (a \o z)[i] =
               IF i <= Len(a) THEN a[i] ELSE z[i - Len(a)]
    BY <2>b, <2>c DEF c
  <2>2. /\ HeaderLen + 1 \in 1..Len(a) + Len(z) /\ HeaderLen + 1 <= Len(a)
        /\ Len(a) + Len(z) > HeaderLen
    BY <1>1, <1>2, <2>1, Constants
  <2> QED
    BY <2>1, <2>2
<1>4. IsHeader(V, HeaderLen + 1)
  <2>1. Framed(s, V)
    BY DEF V, a
  <2> HIDE DEF V
  <2> QED
    BY <2>1, <1>3 DEF Framed
<1>5. Head(data).kind = "object"
  BY <1>1, <1>2, <1>3, <1>4 DEF IsHeader
<1>6. /\ Head(data).id \in Id /\ Head(data).size \in Size
      /\ Head(data) = ObjectHeader(Head(data).id, Head(data).size)
  BY <1>1, <1>5, UnitKinds
<1> QED
  BY <1>1, <1>6

\* Filling the buffer and taking the header from it keeps what was sent.
LEMMA HeaderTaken ==
    ASSUME Inv, NEW s \in Stream, InStream(s).subgroup_header, Reading(s) = << >>,
           Filled(InStream(s), s) # << >>
    PROVE  LET data == Filled(InStream(s), s)
               rest == Unfilled(InStream(s), s) IN
           /\ data \in Seq(Unit) /\ Len(data) <= BufLen /\ rest \in Seq(Unit)
           /\ Sent(s) = (SubgroupHeader \o data) \o (rest \o wire[s])
           /\ Framed(s, Sent(s))
           /\ inbound[s] = << >> => rest = << >>
<1> DEFINE st == InStream(s)
           data == Filled(st, s)
           rest == Unfilled(st, s)
           w == wire[s]
           inb == inbound[s]
           e == << >>
<1>t. /\ st.buf \in Seq(Unit) /\ Len(st.buf) <= BufLen
      /\ inb \in Seq(Unit) /\ w \in Seq(Unit) /\ e \in Seq(Unit)
  BY SentType DEF Inv
<1>d. /\ data \in Seq(Unit) /\ rest \in Seq(Unit) /\ Len(data) <= BufLen
      /\ data \o rest = st.buf \o inb
      /\ data # << >>
  BY <1>t, Fills
<1>r. inb = << >> => rest = << >>
  <2>1. st.buf # << >> => rest = inb
    BY DEF Unfilled
  <2>2. st.buf = << >> /\ inb = << >> => FALSE
    <3>1. SUFFICES ASSUME st.buf = << >>, inb = << >> PROVE FALSE
      OBVIOUS
    <3> HIDE DEF data, rest, st, inb
    <3>2. data \o rest = << >> \o << >> /\ << >> \o << >> = << >> /\ Len(<< >>) = 0
      BY <3>1, <1>d
    <3>3. Len(data \o rest) = Len(data) + Len(rest) /\ Len(data) \in Nat /\ Len(rest) \in Nat
      BY <1>d, ConcatUnits
    <3>4. Len(data) = 0
      BY <3>2, <3>3
    <3> QED
      BY <3>4, <1>d, EmptySeq
  <2> QED
    BY <2>1, <2>2
<1>h. Held(s) = SubgroupHeader \o (e \o st.buf)
  BY DEF Held
<1>s. Sent(s) = Held(s) \o (inb \o w) /\ Framed(s, Sent(s))
  BY DEF Sent, Inv, StreamInv, StreamOK
<1> HIDE DEF st, data, rest, w, inb, e
<1>1. SameUnits(data, rest, st.buf, inb)
  BY <1>d DEF SameUnits
<1>2. SameStream(SubgroupHeader, e, st.buf, inb, w, data, rest)
  BY <1>t, <1>d, <1>1, HeaderUnits, Moved
<1>3. Sent(s) = (SubgroupHeader \o (e \o data)) \o (rest \o w)
  BY <1>2, <1>h, <1>s, Zenon DEF SameStream
<1>4. e \o data = data
  BY <1>d, ConcatUnits DEF e
<1>5. Sent(s) = (SubgroupHeader \o data) \o (rest \o w)
  BY <1>3, <1>4, Zenon
<1> QED
  BY <1>5, <1>d, <1>r, <1>s DEF data, rest, w, inb, st

LEMMA ReadHeaderStep ==
    ASSUME Inv, ReadObjHdr, ReadHeader
    PROVE  Inv'
<1>q. NextStream \in Stream /\ NextStream \in readable_streams /\ NextStream \notin ReadUp
  <2> DEFINE S == LeftToRead
  <2>1. S \in SUBSET Stream /\ S # {} /\ S = readable_streams \ ReadUp
    BY DEF ReadHeader, LeftToRead, Inv, InTypes
  <2> HIDE DEF S
  <2>2. CurrentStream(S) \in S
    BY <2>1, FirstStream, Zenon
  <2>3. NextStream \in S
    BY <2>2 DEF NextStream, S
  <2> QED
    BY <2>1, <2>3
<1>g. PICK s \in Stream : s = NextStream
  BY <1>q
<1> DEFINE D == ReadUp
           st == in_streams[s]
           data == Filled(st, s)
           rest == Unfilled(st, s)
           header == Head(data)
           st2 == [st EXCEPT !.remaining = header.size, !.buf = Tail(data)]
           o2 == [stream |-> s, id |-> header.id, size |-> header.size, payload |-> << >>]
<1>u. /\ UNCHANGED outVars
      /\ UNCHANGED <<wire, ending, control, ended, wt_streams, in_track,
                     expected_streams, pending_stream, received>>
      /\ in_track /\ obj_hdr = NoObject
  BY ReadObjHdrKeeps
<1>w. UNCHANGED <<opened, published, current_stream_id, out_streams, written>>
  BY <1>u DEF outVars
<1>v. /\ LeftToRead # {} /\ st.remaining = 0 /\ data # << >>
      /\ DropStreams(D)
      /\ in_streams' = Put(Without(in_streams, D), s, st2)
      /\ inbound' = [inbound EXCEPT ![s] = rest]
      /\ obj_hdr' = o2
      /\ UNCHANGED <<track_fin, panicked>>
  BY <1>g, Zenon DEF ReadHeader
<1>o. /\ D \in SUBSET readable_streams /\ readable_streams \subseteq Stream
      /\ \A d \in D : ended[d] /\ inbound[d] = << >> /\ d \in wt_streams
  BY ReadUpOver DEF Inv, InTypes
<1>s. s \in Stream /\ s \in readable_streams /\ s \notin D
  BY <1>q, <1>g
<1>i. /\ s \in DOMAIN in_streams /\ st.subgroup_header /\ InStream(s) = st
      /\ st \in InStreamType
  BY <1>s DEF Inv, StreamsFiled, InStream, InTypes
<1>b. obj_hdr.stream = None /\ \A t \in Stream : obj_hdr.stream # t
  BY <1>u, Constants DEF NoObject
<1>r. \A t \in Stream : Reading(t) = << >>
  BY <1>b DEF Reading
<1>t. /\ data \in Seq(Unit) /\ Len(data) <= BufLen /\ rest \in Seq(Unit)
      /\ Sent(s) = (SubgroupHeader \o data) \o (rest \o wire[s])
      /\ Framed(s, Sent(s))
      /\ inbound[s] = << >> => rest = << >>
  BY <1>s, <1>i, <1>r, <1>v, HeaderTaken
<1>h. /\ header.id \in Id /\ header.size \in Size
      /\ header = ObjectHeader(header.id, header.size)
      /\ Tail(data) \in Seq(Unit) /\ Len(Tail(data)) <= Len(data)
      /\ << header >> \in Seq(Unit) /\ << header >> \o Tail(data) = data
  <2> DEFINE z == rest \o wire[s]
  <2>1. z \in Seq(Unit)
    BY <1>s, <1>t, ConcatUnits DEF Inv, NetTypes
  <2>2. Framed(s, (SubgroupHeader \o data) \o z)
    BY <1>t
  <2>3. data \in Seq(Unit) /\ data # << >>
    BY <1>t, <1>v
  <2> HIDE DEF z, data
  <2> QED
    BY <2>1, <2>2, <2>3, <1>s, HeaderFirst
<1>z. header.size \in Nat /\ header.size > 0 /\ Len(Tail(data)) <= BufLen
  <2> DEFINE a == Len(data)
             b == Len(Tail(data))
             m == header.size
  <2>1. a \in Nat /\ b \in Nat /\ a <= BufLen /\ b <= a /\ m \in Size
    BY <1>h, <1>t
  <2> HIDE DEF a, b, m
  <2>2. m \in Nat /\ m > 0 /\ b <= BufLen
    BY <2>1, Constants
  <2> QED
    BY <2>2 DEF a, b, m
<1>2t. /\ st2 \in InStreamType /\ st2.subgroup_header /\ st2.buf = Tail(data)
       /\ st2.remaining = header.size
  <2> DEFINE q == Tail(data)
             m == header.size
  <2>1. st = [subgroup_header |-> st.subgroup_header, remaining |-> st.remaining,
              buf |-> st.buf] /\ st.subgroup_header = TRUE
    BY <1>i DEF InStreamType
  <2>2. q \in Seq(Unit) /\ m \in Nat
    BY <1>h, <1>z
  <2>3. st2 = [st EXCEPT !.remaining = m, !.buf = q]
    OBVIOUS
  <2> HIDE DEF st, q, m, st2
  <2>4. /\ st2 \in InStreamType /\ st2.subgroup_header /\ st2.buf = q /\ st2.remaining = m
    BY <2>1, <2>2, <2>3 DEF InStreamType
  <2> QED
    BY <2>4 DEF q, m
<1>2o. /\ o2 \in [stream : Stream, id : Id, size : Size, payload : Seq(Unit)]
       /\ o2.stream = s /\ o2.id = header.id /\ o2.size = header.size /\ o2.payload = << >>
  <2>1. << >> \in Seq(Unit)
    OBVIOUS
  <2> HIDE DEF header
  <2> QED
    BY <2>1, <1>h, <1>s
<1> HIDE DEF o2, st2
<1>d. /\ DOMAIN in_streams' = DOMAIN in_streams \ D
      /\ in_streams'[s] = st2
      /\ \A t \in DOMAIN in_streams' : t # s => in_streams'[t] = in_streams[t]
  BY <1>v, <1>s, <1>i DEF Put, Without
<1>e. \A t \in Stream : t \notin D /\ t # s => InStream(t)' = InStream(t)
  BY <1>d DEF InStream
<1>n. /\ inbound' \in [Stream -> Seq(Unit)] /\ inbound'[s] = rest
      /\ \A t \in Stream : t # s => inbound'[t] = inbound[t]
  BY <1>v, <1>t, <1>s DEF Inv, NetTypes
<1>f. /\ readable_streams' = readable_streams \ D
      /\ wt_finished' \subseteq wt_finished \cup D
  BY <1>v DEF DropStreams, FinishedBy
<1>y. DOMAIN in_streams \subseteq Stream
  BY BoundsAssumption DEF Inv, InTypes, OutTypes, Stream
<1> HIDE DEF D, st, data, rest, header
<1>1. OutTypes'
  BY <1>u, PublisherKept
<1>2. NetTypes'
  BY <1>u, <1>w, <1>n, <1>f, <1>o DEF Inv, NetTypes
<1>3. finned_streams' \in Nat /\ CountInv'
  <2>1. \A t \in Stream : inbound[t] = << >> => inbound'[t] = << >>
    BY <1>n, <1>t
  <2> QED
    BY <2>1, <1>o, <1>v, <1>u, DroppedCount
<1>4. InTypes'
  <2>1. \A t \in DOMAIN in_streams' :
            in_streams'[t] \in InStreamType /\ Len(in_streams'[t].buf) <= BufLen
    BY <1>d, <1>2t, <1>z DEF Inv, InTypes
  <2> QED
    BY <2>1, <1>3, <1>u, <1>w, <1>f, <1>d DEF Inv, InTypes
<1>5. AppTypes'
  BY <1>u, <1>v, <1>2o DEF Inv, AppTypes
<1>6. ControlInv'
  BY <1>u, <1>w DEF Inv, ControlInv
<1>7. WriterInv'
  <2>1. \A t \in Stream : t > opened /\ t = s => rest = << >>
    BY <1>t DEF Inv, WriterInv
  <2>2. \A t \in Stream : t > opened => inbound'[t] = << >>
    BY <2>1, <1>n DEF Inv, WriterInv
  <2> QED
    BY <2>2, <1>u, <1>w DEF Inv, WriterInv
<1>8. EndInv'
  BY <1>u, <1>f, <1>d, <1>o DEF Inv, EndInv
<1>9. ReaderInv'
  <2>1. \A t \in DOMAIN in_streams' : t # s => in_streams'[t].remaining = 0
    BY <1>d, <1>y, <1>b DEF Inv, ReaderInv
  <2>2. ASSUME NEW t \in DOMAIN in_streams'
        PROVE  /\ ~in_streams'[t].subgroup_header =>
                      in_streams'[t].buf = << >> /\ in_streams'[t].remaining = 0
               /\ in_streams'[t].remaining # 0 => obj_hdr'.stream = t
    <3>1. CASE t = s
      BY <3>1, <1>d, <1>2t, <1>2o, <1>v
    <3>2. CASE t # s
      BY <3>2, <2>1, <2>2, <1>d DEF Inv, ReaderInv
    <3> QED
      BY <3>1, <3>2
  <2>3. /\ in_track' /\ obj_hdr'.stream \in readable_streams'
        /\ in_streams'[obj_hdr'.stream].remaining = obj_hdr'.size - Len(obj_hdr'.payload)
        /\ Len(obj_hdr'.payload) < obj_hdr'.size
    <3>1. /\ in_streams'[s].remaining = header.size /\ s \in readable_streams' /\ in_track'
      BY <1>d, <1>2t, <1>f, <1>s, <1>u
    <3>2. /\ obj_hdr'.stream = s /\ obj_hdr'.size = header.size /\ obj_hdr'.payload = << >>
      BY <1>v, <1>2o
    <3>3. Len(<< >>) = 0 /\ header.size - 0 = header.size /\ 0 < header.size
      BY <1>z
    <3> QED
      BY <3>1, <3>2, <3>3
  <2> QED
    BY <2>2, <2>3 DEF ReaderInv
<1>10. StreamsFiled'
  <2>1. ASSUME NEW t
        PROVE  t \in readable_streams' \cup ({pending_stream'} \ {None})
                   <=> t \in DOMAIN in_streams' /\ in_streams'[t].subgroup_header
    <3>1. CASE t = s
      BY <3>1, <1>f, <1>s, <1>d, <1>2t, <1>i
    <3>2. CASE t # s
      <4>1. t \in readable_streams \cup ({pending_stream} \ {None})
                <=> t \in DOMAIN in_streams /\ in_streams[t].subgroup_header
        BY DEF Inv, StreamsFiled
      <4>2. t \in D => t # pending_stream
        BY <1>o, <1>u, Constants DEF Inv, StreamsFiled
      <4> QED
        BY <3>2, <4>1, <4>2, <1>f, <1>d, <1>u
    <3> QED
      BY <3>1, <3>2
  <2> QED
    BY <2>1, <1>f, <1>u DEF Inv, StreamsFiled
<1>11. StreamInv'
  <2>1. ASSUME NEW t \in Stream, t \notin D, t # s
        PROVE  \E num \in Numbering : StreamOK(t, num)'
    <3>1. Reading(t)' = << >>
      BY <2>1, <1>v, <1>2o DEF Reading
    <3>2. Sent(t)' = Sent(t)
      BY <2>1, <3>1, <1>r, <1>e, <1>n, <1>u DEF Sent, Held
    <3> QED
      BY <3>2, <1>u, PublisherKept
  <2>2. ASSUME NEW t \in D
        PROVE  \E num \in Numbering : StreamOK(t, num)'
    <3>1. /\ t \in Stream /\ ended[t] /\ inbound[t] = << >> /\ inbound'[t] = << >>
          /\ t \notin DOMAIN in_streams'
      BY <1>o, <1>d, <1>n, <1>s
    <3> QED
      BY <3>1, <1>u, DroppedStream
  <2>3. \E num \in Numbering : StreamOK(s, num)'
    <3> DEFINE h == << header >>
               q == Tail(data)
               w == wire[s]
    <3>1. h \in Seq(Unit) /\ q \in Seq(Unit) /\ h \o q = data
      BY <1>h
    <3>2. Reading(s)' = h \o << >>
      <4>1. obj_hdr'.stream = s /\ obj_hdr'.payload = << >>
            /\ ObjectHeader(obj_hdr'.id, obj_hdr'.size) = header
        BY <1>v, <1>2o, <1>h
      <4> QED
        BY <4>1 DEF Reading
    <3>3. InStream(s)' = st2
      BY <1>d, <1>s, <1>i DEF InStream
    <3> HIDE DEF h, q
    <3>4. Reading(s)' = h
      BY <3>1, <3>2, ConcatUnits
    <3>5. Held(s)' = SubgroupHeader \o (h \o q)
      BY <3>3, <3>4, <1>2t DEF Held, q
    <3>6. Held(s)' = SubgroupHeader \o data
      BY <3>1, <3>5, Zenon
    <3>7. Sent(s)' = (SubgroupHeader \o data) \o (rest \o wire[s])
      BY <3>6, <1>n, <1>u DEF Sent
    <3>8. Sent(s)' = Sent(s)
      BY <3>7, <1>t, Zenon
    <3> QED
      BY <3>8, <1>s, <1>u, PublisherKept
  <2> QED
    BY <2>1, <2>2, <2>3 DEF StreamInv
<1> QED
  BY <1>1, <1>2, <1>3, <1>4, <1>5, <1>6, <1>7, <1>8, <1>9, <1>10, <1>11 DEF Inv

\* What a read of the payload leaves in the buffer and in QUIC.
BufAfter(st, s) == IF st.buf = << >> THEN << >> ELSE AfterChunk(st.buf, Len(Chunk(st, s)))
InboundAfter(st, s) ==
    IF st.buf = << >> THEN AfterChunk(inbound[s], Len(Chunk(st, s))) ELSE inbound[s]

LEMMA ChunkTaken ==
    ASSUME NEW s, NEW st, st.buf \in Seq(Unit), inbound[s] \in Seq(Unit),
           st.remaining \in Nat
    PROVE  /\ Chunk(st, s) \in Seq(Unit) /\ Len(Chunk(st, s)) \in Nat
           /\ Len(Chunk(st, s)) <= st.remaining
           /\ BufAfter(st, s) \in Seq(Unit) /\ Len(BufAfter(st, s)) <= Len(st.buf)
           /\ InboundAfter(st, s) \in Seq(Unit)
           /\ Chunk(st, s) \o (BufAfter(st, s) \o InboundAfter(st, s)) = st.buf \o inbound[s]
<1> DEFINE from == IF st.buf # << >> THEN st.buf ELSE inbound[s]
           m == Min({st.remaining, Len(from)})
           c == SubSeq(from, 1, m)
           d == SubSeq(from, m + 1, Len(from))
<1>1. from \in Seq(Unit) /\ Len(from) \in Nat
  OBVIOUS
<1>2. m = IF st.remaining <= Len(from) THEN st.remaining ELSE Len(from)
  <2> HIDE DEF from
  <2> QED
    BY <1>1, MinOfTwo
<1>3. m \in 0..Len(from) /\ m <= st.remaining
  <2> HIDE DEF from, m
  <2> QED
    BY <1>1, <1>2
<1>4. /\ c \in Seq(Unit) /\ Len(c) = m
      /\ d \in Seq(Unit) /\ Len(d) = Len(from) - m /\ c \o d = from
  <2> HIDE DEF from, m
  <2> QED
    BY <1>1, <1>3, SplitUnits
<1>5. Chunk(st, s) = c
  BY DEF Chunk
<1> HIDE DEF m, c
<1>6. AfterChunk(from, Len(Chunk(st, s))) = d
  BY <1>4, <1>5 DEF AfterChunk
<1>7. Len(c) \in Nat /\ Len(c) <= st.remaining /\ Len(d) <= Len(from)
  BY <1>1, <1>3, <1>4
<1> HIDE DEF d
<1>8. CASE st.buf # << >>
  <2>1. from = st.buf /\ BufAfter(st, s) = d /\ InboundAfter(st, s) = inbound[s]
    BY <1>6, <1>8 DEF BufAfter, InboundAfter
  <2>a. c \in Seq(Unit) /\ d \in Seq(Unit)
    BY <1>4
  <2>2. (c \o d) \o inbound[s] = c \o (d \o inbound[s])
    BY <2>a, AssocUnits, Zenon
  <2>b. c \o d = st.buf
    BY <2>1, <1>4
  <2>3. c \o (d \o inbound[s]) = st.buf \o inbound[s]
    BY <2>2, <2>b, Zenon
  <2>4. Chunk(st, s) \o (BufAfter(st, s) \o InboundAfter(st, s)) = st.buf \o inbound[s]
    BY <2>1, <2>3, <1>5, Zenon
  <2> QED
    BY <2>1, <2>4, <1>4, <1>5, <1>7
<1>9. CASE st.buf = << >>
  <2>1. from = inbound[s] /\ BufAfter(st, s) = << >> /\ InboundAfter(st, s) = d
    BY <1>6, <1>9 DEF BufAfter, InboundAfter
  <2>2. << >> \o d = d /\ << >> \o inbound[s] = inbound[s]
    BY <1>4, ConcatUnits
  <2>3. c \o d = inbound[s]
    BY <2>1, <1>4
  <2>4. Chunk(st, s) \o (BufAfter(st, s) \o InboundAfter(st, s)) = st.buf \o inbound[s]
    BY <2>1, <2>2, <2>3, <1>5, <1>9, Zenon
  <2>5. << >> \in Seq(Unit) /\ Len(<< >>) <= Len(st.buf)
    BY <1>9
  <2> QED
    BY <2>1, <2>4, <2>5, <1>4, <1>5, <1>7
<1> QED
  BY <1>8, <1>9

\* The units read move from what follows to the object being read.
AsRead(a, q, b, inb, w, c, b2, inb2) ==
    /\ (a \o (q \o b)) \o (inb \o w) = (a \o ((q \o c) \o b2)) \o (inb2 \o w)
    /\ (a \o (q \o b)) \o (inb \o w) = (a \o (q \o c)) \o ((b2 \o inb2) \o w)
    /\ (a \o (<< >> \o b2)) \o (inb2 \o w) = a \o ((b2 \o inb2) \o w)

LEMMA ReadMoves ==
    ASSUME NEW a \in Seq(Unit), NEW q \in Seq(Unit), NEW b \in Seq(Unit),
           NEW inb \in Seq(Unit), NEW w \in Seq(Unit), NEW c \in Seq(Unit),
           NEW b2 \in Seq(Unit), NEW inb2 \in Seq(Unit),
           SameUnits(c, b2 \o inb2, b, inb)
    PROVE  AsRead(a, q, b, inb, w, c, b2, inb2)
<1> DEFINE z == b2 \o inb2
           qc == q \o c
           e == << >>
<1>t. z \in Seq(Unit) /\ qc \in Seq(Unit) /\ e \in Seq(Unit)
  BY ConcatUnits
<1>s. c \o z = b \o inb
  BY DEF SameUnits
<1> HIDE DEF z, qc, e
<1>1. /\ Regrouped(a, q, b, inb, w) /\ Regrouped(a, q, c, z, w)
      /\ Regrouped(a, qc, b2, inb2, w) /\ Regrouped(a, e, b2, inb2, w)
  BY <1>t, Regroup
<1>2. (a \o (q \o b)) \o (inb \o w) = (a \o q) \o ((c \o z) \o w)
  BY <1>1, <1>s, Zenon DEF Regrouped
<1>3. (a \o (q \o b)) \o (inb \o w) = (a \o (q \o c)) \o (z \o w)
  BY <1>1, <1>2, Zenon DEF Regrouped
<1>4. (a \o (qc \o b2)) \o (inb2 \o w) = (a \o qc) \o (z \o w)
  BY <1>1, Zenon DEF Regrouped, z
<1>5. (a \o (e \o b2)) \o (inb2 \o w) = (a \o e) \o (z \o w)
  BY <1>1, Zenon DEF Regrouped, z
<1>6. a \o e = a
  BY ConcatUnits DEF e
<1> QED
  BY <1>3, <1>4, <1>5, <1>6, Zenon DEF AsRead, z, qc, e

\* An object that is read to its end, in what was sent and when it is gone.
ObjectGone(id, size, pay, x) ==
    LET V == (SubgroupHeader \o (<< ObjectHeader(id, size) >> \o pay)) \o x IN
    /\ WithoutFirst(V, SubgroupHeader \o x)
    /\ V[HeaderLen + 1].id = id /\ V[HeaderLen + 1].size = size

LEMMA FirstGone ==
    ASSUME NEW id \in Id, NEW size \in Size, NEW pay \in Seq(Unit), Len(pay) = size,
           NEW x \in Seq(Unit)
    PROVE  ObjectGone(id, size, pay, x)
<1> DEFINE u == ObjectHeader(id, size)
           oh == << u >>
           h == SubgroupHeader
           o == oh \o pay
           a == h \o o
           V == a \o x
           V2 == h \o x
<1>s. size \in Nat /\ size > 0
  BY Constants
<1>u. u \in Unit /\ u.kind = "object" /\ u.id = id /\ u.size = size
  BY Units
<1>l. Len(x) \in Nat
  OBVIOUS
<1>h. h \in Seq(Unit) /\ Len(h) = HeaderLen
  BY HeaderUnits
<1> HIDE DEF u, h
<1>oh. oh \in Seq(Unit) /\ Len(oh) = 1 /\ oh[1] = u
  BY <1>u
<1> HIDE DEF oh
<1>o. /\ o \in Seq(Unit) /\ Len(o) = Len(oh) + Len(pay)
      /\ \A i \in 1..Len(oh) + Len(pay) : o[i] =
             IF i <= Len(oh) THEN oh[i] ELSE pay[i - Len(oh)]
  BY <1>oh, ConcatProperties
<1>o1. Len(o) = size + 1 /\ o[1] = u
  <2>1. 1 \in 1..Len(oh) + Len(pay) /\ 1 <= Len(oh)
    BY <1>oh, <1>s
  <2>2. o[1] = oh[1]
    BY <2>1, <1>o
  <2> HIDE DEF o
  <2> QED
    BY <2>2, <1>o, <1>oh, <1>s
<1>ot. o \in Seq(Unit)
  BY <1>o
<1> HIDE DEF o
<1>a. /\ a \in Seq(Unit) /\ Len(a) = Len(h) + Len(o)
      /\ \A i \in 1..Len(h) + Len(o) : a[i] = IF i <= Len(h) THEN h[i] ELSE o[i - Len(h)]
  BY <1>h, <1>ot, ConcatProperties
<1>at. a \in Seq(Unit)
  BY <1>a
<1> HIDE DEF a
<1>v. /\ V \in Seq(Unit) /\ Len(V) = Len(a) + Len(x)
      /\ \A i \in 1..Len(a) + Len(x) : V[i] = IF i <= Len(a) THEN a[i] ELSE x[i - Len(a)]
  BY <1>at, ConcatProperties
<1>2. /\ V2 \in Seq(Unit) /\ Len(V2) = Len(h) + Len(x)
      /\ \A i \in 1..Len(h) + Len(x) : V2[i] = IF i <= Len(h) THEN h[i] ELSE x[i - Len(h)]
  BY <1>h, ConcatProperties
<1> HIDE DEF V, V2
<1>n. /\ Len(a) = HeaderLen + size + 1 /\ Len(V) = HeaderLen + size + 1 + Len(x)
      /\ Len(V2) = HeaderLen + Len(x) /\ HeaderLen \in Nat /\ HeaderLen > 0
  BY <1>h, <1>o1, <1>a, <1>v, <1>2, <1>s, <1>l, Constants
<1>3. V[HeaderLen + 1] = u
  <2>1. /\ HeaderLen + 1 \in 1..Len(h) + Len(o) /\ ~(HeaderLen + 1 <= Len(h))
        /\ (HeaderLen + 1) - Len(h) = 1
    BY <1>h, <1>n, <1>o1, <1>s
  <2>2. a[HeaderLen + 1] = u
    BY <2>1, <1>a, <1>o1
  <2>3. HeaderLen + 1 \in 1..Len(a) + Len(x) /\ HeaderLen + 1 <= Len(a)
    BY <1>n, <1>s, <1>l
  <2> QED
    BY <2>2, <2>3, <1>v
<1>4. ASSUME NEW i \in 1..Len(V2), i <= HeaderLen
      PROVE  V2[i] = V[i]
  <2>1. /\ i \in 1..Len(h) + Len(x) /\ i <= Len(h) /\ i \in 1..Len(h) + Len(o)
        /\ i \in 1..Len(a) + Len(x) /\ i <= Len(a)
    BY <1>4, <1>h, <1>n, <1>o1, <1>s, <1>l
  <2>2. V2[i] = h[i] /\ a[i] = h[i] /\ V[i] = a[i]
    BY <2>1, <1>a, <1>v, <1>2
  <2> QED
    BY <2>2
<1>5. ASSUME NEW i \in 1..Len(V2), i > HeaderLen
      PROVE  V2[i] = V[i + (size + 1)]
  <2> DEFINE k == i + (size + 1)
  <2>1. /\ i \in 1..Len(h) + Len(x) /\ ~(i <= Len(h))
        /\ k \in 1..Len(a) + Len(x) /\ ~(k <= Len(a)) /\ k - Len(a) = i - Len(h)
    BY <1>5, <1>h, <1>n, <1>s, <1>l
  <2> HIDE DEF k
  <2>2. V2[i] = x[i - Len(h)] /\ V[k] = x[k - Len(a)]
    BY <2>1, <1>v, <1>2
  <2>3. V2[i] = V[k]
    BY <2>1, <2>2
  <2> QED
    BY <2>3 DEF k
<1>6. EndOf(V, HeaderLen + 1) <= Len(V) /\ Len(V) > HeaderLen
  <2>1. EndOf(V, HeaderLen + 1) = HeaderLen + 1 + size
    BY <1>3, <1>u DEF EndOf
  <2> QED
    BY <2>1, <1>n, <1>s, <1>l
<1>7. Len(V2) = Len(V) - (size + 1)
  BY <1>n, <1>s, <1>l
<1>8. V[HeaderLen + 1].size = size /\ V[HeaderLen + 1].id = id
  BY <1>3, <1>u
<1>9. WithoutFirst(V, V2)
  BY <1>2, <1>4, <1>5, <1>6, <1>7, <1>8 DEF WithoutFirst
<1>10. WithoutFirst(V, V2) /\ V[HeaderLen + 1].id = id /\ V[HeaderLen + 1].size = size
  BY <1>8, <1>9
<1> QED
  BY <1>10, Zenon DEF V, V2, a, o, oh, h, u, ObjectGone

\* The payload that is held is the beginning of the object's.
LEMMA HeldPayload ==
    ASSUME NEW s \in Stream, NEW id \in Id, NEW size \in Size, NEW pay \in Seq(Unit),
           Len(pay) <= size, NEW x \in Seq(Unit),
           Framed(s, (SubgroupHeader \o (<< ObjectHeader(id, size) >> \o pay)) \o x)
    PROVE  \A j \in 1..Len(pay) : pay[j] = Payload(s, id, j)
<1> DEFINE u == ObjectHeader(id, size)
           oh == << u >>
           h == SubgroupHeader
           o == oh \o pay
           a == h \o o
           V == a \o x
<1>f. Framed(s, V)
  OBVIOUS
<1>s. size \in Nat /\ size > 0
  BY Constants
<1>u. u \in Unit /\ u.kind = "object" /\ u.id = id /\ u.size = size
  BY Units
<1>l. Len(x) \in Nat /\ Len(pay) \in Nat
  OBVIOUS
<1>h. h \in Seq(Unit) /\ Len(h) = HeaderLen
  BY HeaderUnits
<1> HIDE DEF u, h
<1>oh. oh \in Seq(Unit) /\ Len(oh) = 1 /\ oh[1] = u
  BY <1>u
<1> HIDE DEF oh
<1>o. /\ o \in Seq(Unit) /\ Len(o) = Len(oh) + Len(pay)
      /\ \A i \in 1..Len(oh) + Len(pay) : o[i] =
             IF i <= Len(oh) THEN oh[i] ELSE pay[i - Len(oh)]
  BY <1>oh, ConcatProperties
<1>ot. o \in Seq(Unit)
  BY <1>o
<1> HIDE DEF o
<1>a. /\ a \in Seq(Unit) /\ Len(a) = Len(h) + Len(o)
      /\ \A i \in 1..Len(h) + Len(o) : a[i] = IF i <= Len(h) THEN h[i] ELSE o[i - Len(h)]
  BY <1>h, <1>ot, ConcatProperties
<1>at. a \in Seq(Unit)
  BY <1>a
<1> HIDE DEF a
<1>v. /\ V \in Seq(Unit) /\ Len(V) = Len(a) + Len(x)
      /\ \A i \in 1..Len(a) + Len(x) : V[i] = IF i <= Len(a) THEN a[i] ELSE x[i - Len(a)]
  BY <1>at, ConcatProperties
<1> HIDE DEF V
<1>n. /\ Len(o) = Len(pay) + 1 /\ Len(a) = HeaderLen + Len(pay) + 1
      /\ Len(V) = HeaderLen + Len(pay) + 1 + Len(x)
      /\ HeaderLen \in Nat /\ HeaderLen > 0
  BY <1>h, <1>oh, <1>o, <1>a, <1>v, <1>s, <1>l, Constants
<1>1. ASSUME NEW k \in 1..Len(o) PROVE V[HeaderLen + k] = o[k]
  <2>1. /\ HeaderLen + k \in 1..Len(h) + Len(o) /\ ~(HeaderLen + k <= Len(h))
        /\ (HeaderLen + k) - Len(h) = k
        /\ HeaderLen + k \in 1..Len(a) + Len(x) /\ HeaderLen + k <= Len(a)
    BY <1>h, <1>n, <1>l
  <2> DEFINE m == HeaderLen + k
  <2>2. m \in 1..Len(h) + Len(o) /\ ~(m <= Len(h)) /\ m - Len(h) = k
        /\ m \in 1..Len(a) + Len(x) /\ m <= Len(a)
    BY <2>1
  <2> HIDE DEF m
  <2>3. a[m] = o[k] /\ V[m] = a[m]
    BY <2>2, <1>a, <1>v
  <2> QED
    BY <2>3 DEF m
<1>2. V[HeaderLen + 1] = u
  <2>1. 1 \in 1..Len(oh) + Len(pay) /\ 1 <= Len(oh) /\ 1 \in 1..Len(o)
    BY <1>oh, <1>n, <1>l
  <2>2. o[1] = u
    BY <2>1, <1>o, <1>oh
  <2> QED
    BY <2>1, <2>2, <1>1
<1>3. HeaderLen + 1 \in 1..Len(V) /\ IsHeader(V, HeaderLen + 1)
  <2>1. HeaderLen + 1 \in 1..Len(V)
    BY <1>n, <1>l
  <2> QED
    BY <2>1, <1>2, <1>u DEF IsHeader
<1>4. \A j \in 1..size : HeaderLen + 1 + j <= Len(V) =>
          V[HeaderLen + 1 + j] = Payload(s, id, j)
  BY <1>f, <1>2, <1>3, <1>u DEF Framed
<1>5. ASSUME NEW j \in 1..Len(pay) PROVE pay[j] = Payload(s, id, j)
  <2>1. /\ j \in 1..size /\ HeaderLen + 1 + j <= Len(V) /\ j + 1 \in 1..Len(o)
        /\ HeaderLen + (j + 1) = HeaderLen + 1 + j
        /\ j + 1 \in 1..Len(oh) + Len(pay) /\ ~(j + 1 <= Len(oh))
        /\ (j + 1) - Len(oh) = j
    BY <1>n, <1>l, <1>s, <1>oh
  <2>2. V[HeaderLen + 1 + j] = Payload(s, id, j)
    BY <2>1, <1>4
  <2>3. V[HeaderLen + (j + 1)] = o[j + 1]
    BY <2>1, <1>1
  <2>4. o[j + 1] = pay[j]
    BY <2>1, <1>o
  <2> QED
    BY <2>1, <2>2, <2>3, <2>4
<1> QED
  BY <1>5

\* What a read of the payload takes, and how what was sent divides then.
LEMMA PayloadRead ==
    ASSUME Inv, obj_hdr # NoObject, NEW s \in Stream, s = obj_hdr.stream
    PROVE  LET st == in_streams[s]
               c == Chunk(st, s)
               pay == obj_hdr.payload \o c
               oh == << ObjectHeader(obj_hdr.id, obj_hdr.size) >>
               b2 == BufAfter(st, s)
               inb2 == InboundAfter(st, s)
               x == (b2 \o inb2) \o wire[s] IN
           /\ st \in InStreamType /\ st.subgroup_header
           /\ obj_hdr.id \in Id /\ obj_hdr.size \in Size
           /\ c \in Seq(Unit) /\ Len(c) \in Nat /\ Len(c) <= st.remaining
           /\ b2 \in Seq(Unit) /\ Len(b2) <= BufLen /\ inb2 \in Seq(Unit)
           /\ st.remaining = obj_hdr.size - Len(obj_hdr.payload)
           /\ pay \in Seq(Unit) /\ Len(pay) = Len(obj_hdr.payload) + Len(c)
           /\ Len(pay) <= obj_hdr.size
           /\ x \in Seq(Unit)
           /\ Sent(s) = (SubgroupHeader \o (oh \o pay)) \o x
           /\ Sent(s) = (SubgroupHeader \o ((oh \o pay) \o b2)) \o (inb2 \o wire[s])
           /\ (SubgroupHeader \o (<< >> \o b2)) \o (inb2 \o wire[s]) = SubgroupHeader \o x
           /\ Framed(s, Sent(s))
           /\ \A j \in 1..Len(pay) : pay[j] = Payload(s, obj_hdr.id, j)
<1> DEFINE st == in_streams[s]
           c == Chunk(st, s)
           p == obj_hdr.payload
           id == obj_hdr.id
           size == obj_hdr.size
           pay == p \o c
           oh == << ObjectHeader(id, size) >>
           q == oh \o p
           b == st.buf
           inb == inbound[s]
           w == wire[s]
           b2 == BufAfter(st, s)
           inb2 == InboundAfter(st, s)
           z == b2 \o inb2
           x == z \o w
<1>h. id \in Id /\ size \in Size /\ p \in Seq(Unit)
  BY DEF Inv, AppTypes
<1>i. s \in DOMAIN in_streams /\ st.subgroup_header /\ InStream(s) = st
  BY DEF Inv, ReaderInv, StreamsFiled, InStream
<1>t. /\ st \in InStreamType /\ Len(b) <= BufLen /\ b \in Seq(Unit) /\ st.remaining \in Nat
      /\ inb \in Seq(Unit) /\ w \in Seq(Unit)
  <2> HIDE DEF st, inb, w
  <2>1. InStream(s) \in InStreamType /\ Len(InStream(s).buf) <= BufLen
        /\ InStream(s).buf \in Seq(Unit) /\ InStream(s).remaining \in Nat
        /\ inbound[s] \in Seq(Unit) /\ wire[s] \in Seq(Unit)
    BY SentType DEF Inv
  <2> QED
    BY <2>1, <1>i DEF inb, w
<1>r. st.remaining = size - Len(p) /\ Len(p) < size
  BY DEF Inv, ReaderInv
<1>v. Sent(s) = (SubgroupHeader \o (q \o b)) \o (inb \o w) /\ Framed(s, Sent(s))
  <2>1. Reading(s) = q
    BY DEF Reading
  <2>2. Held(s) = SubgroupHeader \o (q \o b)
    BY <2>1, <1>i DEF Held
  <2> QED
    BY <2>2 DEF Sent, Inv, StreamInv, StreamOK
<1>c. /\ c \in Seq(Unit) /\ Len(c) \in Nat /\ Len(c) <= st.remaining
      /\ b2 \in Seq(Unit) /\ Len(b2) <= Len(b)
      /\ inb2 \in Seq(Unit)
      /\ c \o z = b \o inb
  <2> HIDE DEF st
  <2> QED
    BY <1>t, ChunkTaken
<1>oh. oh \in Seq(Unit)
  BY <1>h, Units
<1> HIDE DEF st, c, p, id, size, oh, b, inb, w, b2, inb2
<1>q. q \in Seq(Unit) /\ z \in Seq(Unit) /\ pay \in Seq(Unit) /\ Len(pay) = Len(p) + Len(c)
  BY <1>h, <1>oh, <1>c, ConcatUnits
<1>x. x \in Seq(Unit)
  <2> HIDE DEF z
  <2> QED
    BY <1>q, <1>t, ConcatUnits
<1>l. Len(pay) <= size
  <2> DEFINE a == Len(p)
             d == Len(c)
             e == Len(pay)
             m == st.remaining
  <2>1. a \in Nat /\ d \in Nat /\ e = a + d /\ m = size - a /\ d <= m /\ size \in Nat
    BY <1>h, <1>r, <1>c, <1>q, Constants
  <2> HIDE DEF a, d, e, m
  <2>2. e <= size
    BY <2>1
  <2> QED
    BY <2>2 DEF e
<1>b. Len(b2) <= BufLen
  <2>1. Len(b2) \in Nat /\ Len(b) \in Nat /\ BufLen \in Nat
    BY <1>c, <1>t, Constants
  <2> QED
    BY <2>1, <1>c, <1>t
<1>a. q \o c = oh \o pay
  <2>1. (oh \o p) \o c = oh \o (p \o c)
    BY <1>oh, <1>h, <1>c, AssocUnits
  <2> QED
    BY <2>1, Zenon
<1>m. AsRead(SubgroupHeader, q, b, inb, w, c, b2, inb2)
  <2>1. SameUnits(c, b2 \o inb2, b, inb)
    BY <1>c, Zenon DEF SameUnits
  <2>2. SubgroupHeader \in Seq(Unit)
    BY HeaderUnits
  <2>3. q \in Seq(Unit)
    BY <1>q
  <2> HIDE DEF q
  <2> QED
    BY <2>1, <2>2, <2>3, <1>t, <1>c, ReadMoves
<1>1. Sent(s) = (SubgroupHeader \o (oh \o pay)) \o x
  BY <1>v, <1>m, <1>a, Zenon DEF AsRead
<1>2. Sent(s) = (SubgroupHeader \o ((oh \o pay) \o b2)) \o (inb2 \o w)
  BY <1>v, <1>m, <1>a, Zenon DEF AsRead
<1>3. (SubgroupHeader \o (<< >> \o b2)) \o (inb2 \o w) = SubgroupHeader \o x
  BY <1>m, Zenon DEF AsRead
<1>4. \A j \in 1..Len(pay) : pay[j] = Payload(s, id, j)
  <2>1. Framed(s, (SubgroupHeader \o (<< ObjectHeader(id, size) >> \o pay)) \o x)
    BY <1>v, <1>1, Zenon DEF oh
  <2>2. pay \in Seq(Unit)
    BY <1>q
  <2> HIDE DEF pay, x
  <2> QED
    BY <2>1, <2>2, <1>h, <1>l, <1>x, HeldPayload
<1>5. st \in InStreamType /\ st.subgroup_header
  BY <1>i, <1>t
<1> HIDE DEF q, z, x, pay
<1>6. /\ st \in InStreamType /\ st.subgroup_header /\ id \in Id /\ size \in Size
      /\ c \in Seq(Unit) /\ Len(c) \in Nat /\ Len(c) <= st.remaining
      /\ b2 \in Seq(Unit) /\ Len(b2) <= BufLen /\ inb2 \in Seq(Unit)
      /\ st.remaining = size - Len(p)
      /\ pay \in Seq(Unit) /\ Len(pay) = Len(p) + Len(c) /\ Len(pay) <= size
      /\ x \in Seq(Unit)
  BY <1>5, <1>h, <1>c, <1>b, <1>r, <1>q, <1>l, <1>x, Zenon
<1> QED
  BY <1>1, <1>2, <1>3, <1>4, <1>6, <1>v, Zenon
     DEF pay, x, z, oh, q, b2, inb2, st, c, p, id, size, w

\* A payload that is complete is that of the next object written, and what
\* follows it is as it should be.
LEMMA ObjectRead ==
    ASSUME Inv, obj_hdr # NoObject, NEW s \in Stream, s = obj_hdr.stream,
           Len(obj_hdr.payload \o Chunk(in_streams[s], s)) >= obj_hdr.size
    PROVE  LET st == in_streams[s]
               pay == obj_hdr.payload \o Chunk(st, s)
               V2 == SubgroupHeader \o
                         ((BufAfter(st, s) \o InboundAfter(st, s)) \o wire[s])
               W == written[s]
               n == Len(received[s]) IN
           /\ n \in Nat /\ n + 1 \in 1..Len(W)
           /\ W \in Seq(Object) /\ W[n + 1] \in Object
           /\ [id |-> obj_hdr.id, payload |-> pay] = W[n + 1]
           /\ Len(Chunk(st, s)) = st.remaining
           /\ \E num \in Numbering :
                 /\ Framed(s, V2) /\ Numbered(s, V2, W, n + 1, num)
                 /\ s = current_stream_id => WrittenTo(V2, W, n + 1, num, out_streams[s])
<1> DEFINE st == in_streams[s]
           c == Chunk(st, s)
           p == obj_hdr.payload
           id == obj_hdr.id
           size == obj_hdr.size
           pay == p \o c
           oh == << ObjectHeader(id, size) >>
           x == (BufAfter(st, s) \o InboundAfter(st, s)) \o wire[s]
           V == (SubgroupHeader \o (oh \o pay)) \o x
           V2 == SubgroupHeader \o x
           W == written[s]
           n == Len(received[s])
<1>1. /\ id \in Id /\ size \in Size /\ Len(c) \in Nat /\ Len(c) <= st.remaining
      /\ st.remaining = size - Len(p)
      /\ pay \in Seq(Unit) /\ Len(pay) = Len(p) + Len(c) /\ Len(pay) <= size
      /\ x \in Seq(Unit)
      /\ Sent(s) = V
      /\ Framed(s, Sent(s))
      /\ \A j \in 1..Len(pay) : pay[j] = Payload(s, id, j)
  BY PayloadRead
<1>t. W \in Seq(Object) /\ n \in Nat /\ Len(W) \in Nat
  BY DEF Inv, OutTypes, AppTypes
<1>s. size \in Nat /\ Len(p) \in Nat /\ Len(pay) >= size
  <2>1. p \in Seq(Unit)
    BY DEF Inv, AppTypes
  <2>2. size \in Size
    BY <1>1
  <2>3. Len(p) \in Nat
    BY <2>1
  <2>4. size \in Nat
    BY <2>2, Constants
  <2>5. Len(pay) >= size
    OBVIOUS
  <2> QED
    BY <2>3, <2>4, <2>5
<1> HIDE DEF st, c, p, id, size, x, W, n
<1>2. Len(pay) = size /\ Len(c) = st.remaining
  <2> DEFINE a == Len(p)
             d == Len(c)
             e == Len(pay)
             m == st.remaining
  <2>1. a \in Nat /\ d \in Nat /\ e = a + d /\ m = size - a /\ d <= m /\ size \in Nat
        /\ e <= size /\ e >= size
    BY <1>1, <1>s
  <2> HIDE DEF a, d, e, m
  <2>2. e = size /\ d = m
    BY <2>1
  <2> QED
    BY <2>2 DEF d, e, m
<1> HIDE DEF pay
<1>3. WithoutFirst(V, V2) /\ V[HeaderLen + 1].id = id /\ V[HeaderLen + 1].size = size
  <2>1. id \in Id /\ size \in Size /\ pay \in Seq(Unit) /\ Len(pay) = size /\ x \in Seq(Unit)
    BY <1>1, <1>2
  <2> HIDE DEF x
  <2>2. ObjectGone(id, size, pay, x)
    BY <2>1, FirstGone
  <2> QED
    BY <2>2, Zenon DEF oh, V, V2, ObjectGone
<1> HIDE DEF V, V2, oh
<1>4. PICK num \in Numbering : StreamOK(s, num)
  BY DEF Inv, StreamInv
<1>5. /\ Framed(s, V) /\ Numbered(s, V, W, n, num)
      /\ s = current_stream_id => WrittenTo(V, W, n, num, out_streams[s])
  BY <1>1, <1>4 DEF StreamOK, W, n
<1>6. LET d == V[HeaderLen + 1].size + 1 IN
      /\ n + 1 \in 1..Len(W)
      /\ W[n + 1] = WholeObject(s, V[HeaderLen + 1].id, V[HeaderLen + 1].size)
      /\ Framed(s, V2)
      /\ Shifted(num, d) \in Numbering
      /\ Numbered(s, V2, W, n + 1, Shifted(num, d))
      /\ \A ot : ot.remaining \in Nat /\ WrittenTo(V, W, n, num, ot) =>
                    WrittenTo(V2, W, n + 1, Shifted(num, d), ot)
  BY <1>3, <1>5, <1>t, TakeFirst
<1>7. s = current_stream_id => out_streams[s].remaining \in Nat
  <2>1. SUFFICES ASSUME s = current_stream_id PROVE out_streams[s].remaining \in Nat
    OBVIOUS
  <2>2. out_streams[s] \in OutStreamType
    BY <2>1, Constants, CurrentOpen
  <2> QED
    BY <2>2 DEF OutStreamType
<1>8. \E k \in Numbering :
          /\ Framed(s, V2) /\ Numbered(s, V2, W, n + 1, k)
          /\ s = current_stream_id => WrittenTo(V2, W, n + 1, k, out_streams[s])
  <2> DEFINE k == Shifted(num, V[HeaderLen + 1].size + 1)
  <2>1. k \in Numbering /\ Framed(s, V2) /\ Numbered(s, V2, W, n + 1, k)
    BY <1>6
  <2>2. s = current_stream_id => WrittenTo(V2, W, n + 1, k, out_streams[s])
    BY <1>5, <1>6, <1>7
  <2> HIDE DEF k
  <2> QED
    BY <2>1, <2>2
<1>9. W[n + 1] = WholeObject(s, id, size)
  BY <1>3, <1>6
<1>10. pay = [j \in 1..size |-> Payload(s, id, j)]
  <2> DEFINE f == [j \in 1..size |-> Payload(s, id, j)]
  <2>1. \A j \in 1..size : Payload(s, id, j) \in Unit
    BY <1>1, Units
  <2>2. f \in Seq(Unit) /\ Len(f) = size
    BY <2>1, <1>s
  <2>3. \A j \in 1..Len(pay) : pay[j] = f[j]
    BY <1>1, <1>2
  <2> HIDE DEF f
  <2>4. pay = f
    BY <2>2, <2>3, <1>1, <1>2, SeqEqual
  <2> QED
    BY <2>4 DEF f
<1>11. [id |-> id, payload |-> pay] = W[n + 1]
  BY <1>9, <1>10 DEF WholeObject
<1>12. W[n + 1] \in Object
  BY <1>6, <1>t, ElementOfSeq
<1> QED
  BY <1>2, <1>6, <1>8, <1>11, <1>12, <1>t, Zenon DEF V2, x, pay, st, c, p, id, size, W, n

\* What ReadPayload does, for the stream it reads.
LEMMA ReadPayloadDoes ==
    ASSUME Inv, ReadObjPld, ReadPayload
    PROVE  \E s \in Stream :
              LET st == in_streams[s]
                  c == Chunk(st, s)
                  pay == obj_hdr.payload \o c IN
              /\ s = obj_hdr.stream /\ obj_hdr # NoObject
              /\ s \in readable_streams /\ s \in DOMAIN in_streams
              /\ in_streams' = Put(in_streams, s,
                     [st EXCEPT !.remaining = st.remaining - Len(c), !.buf = BufAfter(st, s)])
              /\ inbound' = IF st.buf = << >>
                            THEN [inbound EXCEPT ![s] = InboundAfter(st, s)] ELSE inbound
              /\ IF Len(pay) >= obj_hdr.size
                 THEN /\ obj_hdr' = NoObject
                      /\ received' = [received EXCEPT ![s] =
                             Append(received[s], [id |-> obj_hdr.id, payload |-> pay])]
                 ELSE obj_hdr' = [obj_hdr EXCEPT !.payload = pay] /\ received' = received
              /\ UNCHANGED <<wt_finished, readable_streams, finned_streams, panicked>>
<1>1. obj_hdr # NoObject /\ in_streams[PayloadStream].remaining # 0
  BY DEF ReadObjPld, ReadPayload
<1>2. /\ PayloadStream = obj_hdr.stream /\ obj_hdr.stream \in Stream
      /\ obj_hdr.stream \in readable_streams /\ obj_hdr.stream \in DOMAIN in_streams
  BY <1>1, PayloadFromObject
<1>3. PICK s \in Stream : s = PayloadStream /\ s = obj_hdr.stream
  BY <1>2
<1> DEFINE st == in_streams[s]
           c == Chunk(st, s)
           pay == obj_hdr.payload \o c
<1>4. /\ in_streams' = Put(in_streams, s,
             [st EXCEPT !.remaining = st.remaining - Len(c), !.buf = BufAfter(st, s)])
      /\ inbound' = IF st.buf = << >>
                    THEN [inbound EXCEPT ![s] = InboundAfter(st, s)] ELSE inbound
      /\ UNCHANGED <<wt_finished, readable_streams, finned_streams, panicked>>
  BY <1>3, Zenon DEF ReadPayload, BufAfter, InboundAfter, Left
<1>5. IF Len(pay) >= obj_hdr.size
      THEN /\ obj_hdr' = NoObject
           /\ received' = [received EXCEPT ![s] =
                  Append(received[s], [id |-> obj_hdr.id, payload |-> pay])]
      ELSE obj_hdr' = [obj_hdr EXCEPT !.payload = pay] /\ received' = received
  BY <1>3, Zenon DEF ReadPayload, PayloadSoFar, Complete
<1> HIDE DEF st, c, pay
<1>6. s \in readable_streams /\ s \in DOMAIN in_streams
  BY <1>2, <1>3
<1> QED
  BY <1>1, <1>3, <1>4, <1>5, <1>6, Zenon DEF st, c, pay

LEMMA ReadPayloadStep ==
    ASSUME Inv, ReadObjPld, ReadPayload
    PROVE  Inv'
<1>u. /\ UNCHANGED outVars
      /\ UNCHANGED <<wire, ending, control, ended, wt_streams, in_track,
                     expected_streams, pending_stream, track_fin>>
  BY ReadObjPldKeeps
<1>w. UNCHANGED <<opened, published, current_stream_id, out_streams, written>>
  BY <1>u DEF outVars
<1>g. PICK s \in Stream :
          LET st == in_streams[s]
              c == Chunk(st, s)
              pay == obj_hdr.payload \o c IN
          /\ s = obj_hdr.stream /\ obj_hdr # NoObject
          /\ s \in readable_streams /\ s \in DOMAIN in_streams
          /\ in_streams' = Put(in_streams, s,
                 [st EXCEPT !.remaining = st.remaining - Len(c), !.buf = BufAfter(st, s)])
          /\ inbound' = IF st.buf = << >>
                        THEN [inbound EXCEPT ![s] = InboundAfter(st, s)] ELSE inbound
          /\ IF Len(pay) >= obj_hdr.size
             THEN /\ obj_hdr' = NoObject
                  /\ received' = [received EXCEPT ![s] =
                         Append(received[s], [id |-> obj_hdr.id, payload |-> pay])]
             ELSE obj_hdr' = [obj_hdr EXCEPT !.payload = pay] /\ received' = received
          /\ UNCHANGED <<wt_finished, readable_streams, finned_streams, panicked>>
  BY ReadPayloadDoes, Zenon
<1> DEFINE st == in_streams[s]
           c == Chunk(st, s)
           p == obj_hdr.payload
           id == obj_hdr.id
           size == obj_hdr.size
           pay == p \o c
           b2 == BufAfter(st, s)
           inb2 == InboundAfter(st, s)
           rem == st.remaining - Len(c)
           st2 == [st EXCEPT !.remaining = rem, !.buf = b2]
           oh == << ObjectHeader(id, size) >>
           x == (b2 \o inb2) \o wire[s]
           Done == Len(pay) >= size
<1>s. /\ s \in Stream /\ s = obj_hdr.stream /\ obj_hdr # NoObject
      /\ s \in readable_streams /\ s \in DOMAIN in_streams
      /\ UNCHANGED <<wt_finished, readable_streams, finned_streams, panicked>>
  BY <1>g, Zenon
<1>v. /\ in_streams' = Put(in_streams, s, st2)
      /\ inbound' = IF st.buf = << >> THEN [inbound EXCEPT ![s] = inb2] ELSE inbound
  BY <1>g, Zenon
<1>vd. Done => /\ obj_hdr' = NoObject
               /\ received' = [received EXCEPT ![s] =
                      Append(received[s], [id |-> id, payload |-> pay])]
  BY <1>g, Zenon
<1>vn. ~Done => obj_hdr' = [obj_hdr EXCEPT !.payload = pay] /\ received' = received
  BY <1>g, Zenon
<1>p. /\ st \in InStreamType /\ st.subgroup_header
      /\ id \in Id /\ size \in Size
      /\ c \in Seq(Unit) /\ Len(c) \in Nat /\ Len(c) <= st.remaining
      /\ b2 \in Seq(Unit) /\ Len(b2) <= BufLen /\ inb2 \in Seq(Unit)
      /\ st.remaining = size - Len(p)
      /\ pay \in Seq(Unit) /\ Len(pay) = Len(p) + Len(c)
      /\ Len(pay) <= size
  BY <1>s, PayloadRead
<1>sent. /\ Sent(s) = (SubgroupHeader \o ((oh \o pay) \o b2)) \o (inb2 \o wire[s])
         /\ (SubgroupHeader \o (<< >> \o b2)) \o (inb2 \o wire[s]) = SubgroupHeader \o x
  BY <1>s, PayloadRead, Zenon
<1>done. Done =>
      LET W == written[s]
          n == Len(received[s]) IN
      /\ n \in Nat
      /\ W[n + 1] \in Object
      /\ [id |-> id, payload |-> pay] = W[n + 1]
      /\ Len(c) = st.remaining
      /\ \E num \in Numbering :
            /\ Framed(s, SubgroupHeader \o x) /\ Numbered(s, SubgroupHeader \o x, W, n + 1, num)
            /\ s = current_stream_id =>
                  WrittenTo(SubgroupHeader \o x, W, n + 1, num, out_streams[s])
  BY <1>s, ObjectRead
<1>ib. st.buf # << >> => inb2 = inbound[s]
  BY DEF InboundAfter
<1>y. p \in Seq(Unit) /\ Len(p) \in Nat /\ received \in [Stream -> Seq(Object)]
  BY <1>s DEF Inv, AppTypes
<1> HIDE DEF b2, inb2, c, id, size, p
<1>rem. rem \in Nat /\ rem = size - Len(pay) /\ (Done <=> rem = 0)
  <2> DEFINE a == Len(p)
             d == Len(c)
             e == Len(pay)
             m == st.remaining
  <2>1. a \in Nat /\ d \in Nat /\ e = a + d /\ m = size - a /\ d <= m /\ size \in Nat
        /\ e <= size
    BY <1>p, <1>y, Constants
  <2>2. (Done <=> e >= size) /\ rem = m - d
    OBVIOUS
  <2> HIDE DEF a, d, e, m, rem, Done
  <2>3. rem \in Nat /\ rem = size - e /\ (Done <=> rem = 0)
    BY <2>1, <2>2
  <2> QED
    BY <2>3 DEF e
<1> HIDE DEF rem, Done, pay, x, oh
<1>2t. /\ st2 \in InStreamType /\ st2.subgroup_header /\ st2.buf = b2 /\ st2.remaining = rem
  <2>1. st = [subgroup_header |-> st.subgroup_header, remaining |-> st.remaining,
              buf |-> st.buf] /\ st.subgroup_header = TRUE
    BY <1>p DEF InStreamType
  <2>2. b2 \in Seq(Unit) /\ rem \in Nat
    BY <1>p, <1>rem
  <2> HIDE DEF st
  <2> QED
    BY <2>1, <2>2 DEF InStreamType
<1> HIDE DEF st2
<1>d. /\ DOMAIN in_streams' = DOMAIN in_streams
      /\ in_streams'[s] = st2
      /\ \A t \in DOMAIN in_streams : t # s => in_streams'[t] = in_streams[t]
  BY <1>v, <1>s DEF Put
<1>e. InStream(s)' = st2 /\ \A t \in Stream : t # s => InStream(t)' = InStream(t)
  BY <1>d, <1>s DEF InStream
<1>n. /\ inbound' \in [Stream -> Seq(Unit)] /\ inbound'[s] = inb2
      /\ \A t \in Stream : t # s => inbound'[t] = inbound[t]
  BY <1>v, <1>p, <1>ib DEF Inv, NetTypes
<1>f. /\ received' \in [Stream -> Seq(Object)]
      /\ \A t \in Stream : t # s => received'[t] = received[t]
      /\ Done => Len(received'[s]) = Len(received[s]) + 1
      /\ ~Done => received'[s] = received[s]
  <2>1. CASE Done
    <3> DEFINE o == [id |-> id, payload |-> pay]
    <3>1. o \in Object
      BY <2>1, <1>done
    <3>2. received' = [received EXCEPT ![s] = Append(received[s], o)]
      BY <2>1, <1>vd
    <3> HIDE DEF o
    <3>3. /\ Append(received[s], o) \in Seq(Object)
          /\ Len(Append(received[s], o)) = Len(received[s]) + 1
      <4>1. received[s] \in Seq(Object)
        BY <1>y
      <4> QED
        BY <4>1, <3>1, AppendProperties
    <3> QED
      BY <2>1, <3>2, <3>3, <1>y
  <2>2. CASE ~Done
    BY <2>2, <1>vn, <1>y
  <2> QED
    BY <2>1, <2>2
<1>o. ~Done => /\ obj_hdr' \in [stream : Stream, id : Id, size : Size, payload : Seq(Unit)]
               /\ obj_hdr'.stream = s /\ obj_hdr'.id = id /\ obj_hdr'.size = size
               /\ obj_hdr'.payload = pay
  <2>1. SUFFICES ASSUME ~Done
                 PROVE  /\ obj_hdr' \in [stream : Stream, id : Id, size : Size,
                                         payload : Seq(Unit)]
                        /\ obj_hdr'.stream = s /\ obj_hdr'.id = id /\ obj_hdr'.size = size
                        /\ obj_hdr'.payload = pay
    OBVIOUS
  <2>2. obj_hdr \in [stream : Stream, id : Id, size : Size, payload : Seq(Unit)]
    BY <1>s DEF Inv, AppTypes
  <2>3. obj_hdr' = [obj_hdr EXCEPT !.payload = pay] /\ pay \in Seq(Unit)
    BY <2>1, <1>vn, <1>p
  <2> QED
    BY <2>2, <2>3, <1>s DEF id, size
<1> HIDE DEF st
<1>b. NoObject.stream = None /\ None # s
  BY <1>s, Constants DEF NoObject
<1>1. OutTypes'
  BY <1>u, PublisherKept
<1>2. NetTypes'
  BY <1>u, <1>w, <1>n, <1>s DEF Inv, NetTypes
<1>3. InTypes'
  <2>1. \A t \in DOMAIN in_streams' :
            in_streams'[t] \in InStreamType /\ Len(in_streams'[t].buf) <= BufLen
    BY <1>d, <1>2t, <1>p DEF Inv, InTypes
  <2> QED
    BY <2>1, <1>u, <1>w, <1>s, <1>d DEF Inv, InTypes
<1>4. AppTypes'
  <2>1. obj_hdr' # NoObject =>
            obj_hdr' \in [stream : Stream, id : Id, size : Size, payload : Seq(Unit)]
    BY <1>vd, <1>o
  <2> QED
    BY <2>1, <1>f, <1>u, <1>s DEF Inv, AppTypes
<1>5. ControlInv'
  BY <1>u, <1>w DEF Inv, ControlInv
<1>6. WriterInv'
  <2>1. \A t \in Stream : t > opened => t # s
    <3>1. s \in 1..opened /\ opened \in Nat
      BY <1>s DEF Inv, InTypes, OutTypes
    <3> QED
      BY <3>1 DEF Stream
  <2> QED
    BY <2>1, <1>n, <1>f, <1>u, <1>w DEF Inv, WriterInv
<1>7. EndInv'
  BY <1>u, <1>s, <1>d DEF Inv, EndInv
<1>8. ReaderInv'
  <2>1. ASSUME NEW t \in DOMAIN in_streams'
        PROVE  /\ ~in_streams'[t].subgroup_header =>
                      in_streams'[t].buf = << >> /\ in_streams'[t].remaining = 0
               /\ in_streams'[t].remaining # 0 => obj_hdr'.stream = t
    <3>1. CASE t = s
      BY <3>1, <1>d, <1>2t, <1>rem, <1>o
    <3>2. CASE t # s
      <4>1. in_streams'[t] = in_streams[t] /\ t \in DOMAIN in_streams
        BY <2>1, <3>2, <1>d
      <4>2. in_streams[t].remaining = 0
        BY <4>1, <3>2, <1>s DEF Inv, ReaderInv
      <4> QED
        BY <4>1, <4>2 DEF Inv, ReaderInv
    <3> QED
      BY <3>1, <3>2
  <2>2. ASSUME ~Done
        PROVE  /\ in_track' /\ obj_hdr'.stream \in readable_streams'
               /\ in_streams'[obj_hdr'.stream].remaining = obj_hdr'.size - Len(obj_hdr'.payload)
               /\ Len(obj_hdr'.payload) < obj_hdr'.size
    <3>1. in_track' /\ s \in readable_streams' /\ in_streams'[s].remaining = size - Len(pay)
      BY <1>s, <1>u, <1>d, <1>2t, <1>rem DEF Inv, ReaderInv
    <3>2. Len(pay) < size
      <4> DEFINE e == Len(pay)
      <4>1. e \in Nat /\ size \in Nat /\ e <= size /\ rem = size - e /\ rem # 0
        BY <2>2, <1>p, <1>rem, Constants
      <4> HIDE DEF e
      <4>2. e < size
        BY <4>1
      <4> QED
        BY <4>2 DEF e
    <3> QED
      BY <2>2, <3>1, <3>2, <1>o
  <2>3. Done => obj_hdr' = NoObject
    BY <1>vd
  <2> QED
    BY <2>1, <2>2, <2>3 DEF ReaderInv
<1>9. StreamsFiled'
  <2>1. \A t \in DOMAIN in_streams : in_streams'[t].subgroup_header
                                         <=> in_streams[t].subgroup_header
    BY <1>d, <1>2t, <1>p DEF st
  <2> QED
    BY <2>1, <1>d, <1>s, <1>u DEF Inv, StreamsFiled
<1>10. CountInv'
  <2>1. Counted \subseteq Counted'
    BY <1>s, <1>n, <1>u DEF Counted
  <2> QED
    BY <2>1, <1>s, CountGrows DEF Inv, InTypes
<1>11. StreamInv'
  <2>1. ASSUME NEW t \in Stream, t # s
        PROVE  \E num \in Numbering : StreamOK(t, num)'
    <3>1. obj_hdr'.stream # t
      BY <2>1, <1>vd, <1>o, Constants DEF NoObject
    <3>2. Reading(t)' = Reading(t)
      BY <2>1, <3>1, <1>s DEF Reading
    <3>3. Sent(t)' = Sent(t)
      BY <2>1, <3>2, <1>e, <1>n, <1>u DEF Sent, Held
    <3> QED
      BY <2>1, <3>3, <1>f, <1>u, PublisherKept
  <2>2. CASE ~Done
    <3>1. Reading(s)' = oh \o pay
      BY <2>2, <1>o DEF Reading, oh
    <3>2. Held(s)' = SubgroupHeader \o ((oh \o pay) \o b2)
      BY <3>1, <1>e, <1>2t DEF Held
    <3>3. inbound'[s] = inb2 /\ wire' = wire
      BY <1>n, <1>u
    <3>4. Sent(s)' = Sent(s)
      BY <3>2, <3>3, <1>sent, Zenon DEF Sent
    <3>5. \E num \in Numbering : StreamOK(s, num)'
      BY <2>2, <3>4, <1>f, <1>u, PublisherKept
    <3> QED
      BY <2>1, <3>5 DEF StreamInv
  <2>3. CASE Done
    <3>1. Reading(s)' = << >>
      BY <2>3, <1>vd, <1>b DEF Reading
    <3>2. Held(s)' = SubgroupHeader \o (<< >> \o b2)
      BY <3>1, <1>e, <1>2t DEF Held
    <3>3. inbound'[s] = inb2 /\ wire' = wire
      BY <1>n, <1>u
    <3>4. Sent(s)' = SubgroupHeader \o x
      BY <3>2, <3>3, <1>sent, Zenon DEF Sent
    <3> DEFINE V2 == SubgroupHeader \o x
    <3>5. PICK num \in Numbering :
              /\ Framed(s, V2) /\ Numbered(s, V2, written[s], Len(received[s]) + 1, num)
              /\ s = current_stream_id =>
                    WrittenTo(V2, written[s], Len(received[s]) + 1, num, out_streams[s])
      BY <2>3, <1>done, Zenon
    <3>6. Sent(s)' = V2 /\ Len(received'[s]) = Len(received[s]) + 1
      BY <2>3, <3>4, <1>f
    <3> HIDE DEF V2
    <3>7. StreamOK(s, num)'
      BY <3>5, <3>6, <1>w DEF StreamOK
    <3> QED
      BY <2>1, <3>7 DEF StreamInv
  <2> QED
    BY <2>2, <2>3
<1> QED
  BY <1>1, <1>2, <1>3, <1>4, <1>5, <1>6, <1>7, <1>8, <1>9, <1>10, <1>11 DEF Inv

(***************************************************************************)
(* The inductive invariant, and what follows from it.                      *)
(***************************************************************************)

LEMMA InitInv ==
    ASSUME Init
    PROVE  Inv
<1>d. \A x : x \notin DOMAIN << >>
  OBVIOUS
<1>1. OutTypes
  <2>1. opened = 0 /\ opened \in 0..MaxStream
    BY BoundsAssumption DEF Init
  <2>2. DOMAIN out_streams \subseteq 1..opened /\ \A s \in DOMAIN out_streams : FALSE
    BY <1>d DEF Init
  <2>3. written \in [Stream -> Seq(Object)]
    BY DEF Init
  <2> QED
    BY <2>1, <2>2, <2>3 DEF Init, OutTypes
<1>2. NetTypes
  BY DEF Init, NetTypes
<1>3. InTypes /\ AppTypes
  <2>1. DOMAIN in_streams \subseteq 1..opened /\ \A s \in DOMAIN in_streams : FALSE
    BY <1>d DEF Init
  <2>2. /\ in_track \in BOOLEAN /\ pending_stream \in Stream \cup {None}
        /\ readable_streams \subseteq Stream /\ finned_streams \in Nat
        /\ expected_streams \in {None, 0}
    BY DEF Init
  <2>3. InTypes
    BY <2>1, <2>2, Zenon DEF InTypes
  <2>4. received \in [Stream -> Seq(Object)]
    <3>1. received = [s \in Stream |-> << >>] /\ << >> \in Seq(Object)
      BY DEF Init
    <3> QED
      BY <3>1
  <2>5. panicked \in PanicReason
    BY DEF Init, PanicReason
  <2>6. obj_hdr = NoObject /\ track_fin \in BOOLEAN
    BY Zenon DEF Init
  <2>7. AppTypes
    BY <2>4, <2>5, <2>6, Zenon DEF AppTypes
  <2> QED
    BY <2>3, <2>7
<1>4. ControlInv
  BY DEF Init, ControlInv
<1>5. WriterInv /\ EndInv /\ ReaderInv
  BY DEF Init, WriterInv, EndInv, ReaderInv
<1>6. StreamsFiled
  BY DEF Init, StreamsFiled
<1>7. CountInv
  <2> DEFINE A == Counted
  <2>1. IsFiniteSet(Stream) /\ A \subseteq Stream
    BY BoundsAssumption, FS_Interval DEF Stream, Counted
  <2> HIDE DEF A
  <2>2. Cardinality(A) \in Nat
    BY <2>1, FS_Subset, FS_CardinalityType
  <2>3. 0 <= Cardinality(A)
    BY <2>2
  <2> QED
    BY <2>3 DEF CountInv, Init, A
<1>8. StreamInv
  <2> DEFINE num == [i \in Nat |-> 0]
  <2>1. num \in Numbering
    BY DEF Numbering
  <2> HIDE DEF num
  <2>2. ASSUME NEW t \in Stream PROVE StreamOK(t, num)
    <3>1. Sent(t) = << >>
      <4>1. << >> \o (<< >> \o << >>) = << >>
        OBVIOUS
      <4>2. Held(t) = << >> /\ inbound[t] = << >> /\ wire[t] = << >>
        BY DEF Init, Held, InStream, NewInStream
      <4> QED
        BY <4>1, <4>2 DEF Sent
    <3>2. t # current_stream_id
      BY Constants DEF Init
    <3> QED
      BY <3>1, <3>2, NothingSent DEF StreamOK
  <2> QED
    BY <2>1, <2>2 DEF StreamInv
<1> QED
  BY <1>1, <1>2, <1>3, <1>4, <1>5, <1>6, <1>7, <1>8 DEF Inv

LEMMA PublishStep ==
    ASSUME Inv, Publish
    PROVE  Inv'
<1>1. ASSUME NEW group \in Group \cup {None}, NEW id \in 0..MaxObjectId, NEW size \in Size,
             NEW capacity \in Capacity, SendOnCurrent(group, id, size, capacity)
      PROVE  Inv'
  BY <1>1, SendOnCurrentStep DEF Id
<1>2. ASSUME NEW group \in Group \cup {None}, NEW id \in 0..MaxObjectId, NEW size \in Size,
             NEW capacity \in Capacity, SendOnNew(group, id, size, capacity)
      PROVE  Inv'
  BY <1>2, SendOnNewStep DEF Id
<1>3. ASSUME NEW group \in Group \cup {None}, OpenBlocked(group)
      PROVE  Inv'
  BY <1>3, BlockedStep
<1>4. ASSUME NEW size \in Size, NEW n \in 1..size, SendObjPld(n)
      PROVE  Inv'
  <2>1. n \in Nat \ {0}
    BY Constants
  <2> QED
    BY <2>1, <1>4, SendObjPldStep
<1> QED
  BY <1>1, <1>2, <1>3, <1>4, ResetStep, PublishDoneStep DEF Publish

LEMMA ReadStep ==
    ASSUME Inv, Read
    PROVE  Inv'
<1>1. CASE ReadObjHdr
  <2>1. NoStreamLeft \/ NoHeaderYet \/ ReadHeader \/ ReadHeaderFault
    BY <1>1 DEF ReadObjHdr
  <2> QED
    BY <1>1, <2>1, NothingReadStep, ReadHeaderStep, HeaderFaultStep
<1>2. CASE ReadObjPld
  <2>1. ReadPayload \/ StreamCutOff \/ ReadPayloadFault
    BY <1>2 DEF ReadObjPld
  <2> QED
    BY <1>2, <2>1, ReadPayloadStep, CutOffStep, PayloadFaultStep
<1> QED
  BY <1>1, <1>2 DEF Read

LEMMA StutterStep ==
    ASSUME Inv, UNCHANGED vars
    PROVE  Inv'
<1>1. /\ UNCHANGED outVars
      /\ UNCHANGED <<wire, ending, control, ended, wt_streams, inbound, wt_finished,
                     in_streams, in_track, readable_streams, finned_streams,
                     expected_streams, pending_stream, obj_hdr, received, track_fin>>
      /\ panicked' = panicked
  BY DEF vars, wtVars, trackVars, appVars
<1>2. panicked' \in PanicReason
  BY <1>1 DEF Inv, AppTypes
<1> QED
  BY <1>1, <1>2, PanicStep

LEMMA NextInv ==
    ASSUME Inv, [Next]_vars
    PROVE  Inv'
<1>1. ASSUME NEW s \in Stream, Arrive(s) \/ ArriveFin(s) \/ ArriveReset(s)
      PROVE  Inv'
  BY <1>1, ArriveStep, ArriveFinStep, ArriveResetStep
<1>2. ASSUME NEW s \in Stream, PollStream(s) \/ PollFault(s)
      PROVE  Inv'
  BY <1>2, PollStreamStep, PollFaultStep
<1>3. CASE PollControl
  BY <1>3, RecvSubscribeOkStep, RecvPublishDoneStep DEF PollControl
<1> QED
  BY <1>1, <1>2, <1>3, PublishStep, CollectStep, ReadStep, StutterStep DEF Next

\* Everything that is reached satisfies the inductive invariant.
THEOREM Invariance == Spec => []Inv
<1>1. Init => Inv
  BY InitInv
<1>2. Inv /\ [Next]_vars => Inv'
  BY NextInv
<1> QED
  BY <1>1, <1>2, PTL DEF Spec

\* The streams whose subgroup is known are filed once, so no read call unwraps
\* what is not there.
THEOREM Filing == Spec => []StreamsFiled
<1>1. Inv => StreamsFiled
  BY DEF Inv
<1> QED
  BY <1>1, Invariance, PTL

\* The types of all variables; the streams counted as finished are at most those
\* opened.
THEOREM Types == Spec => []TypeOK
<1>1. Inv => TypeOK
  <2> SUFFICES ASSUME Inv PROVE TypeOK
    OBVIOUS
  <2>1. finned_streams \in 0..opened
    <3> DEFINE A == Counted
               E == 1..opened
    <3>1. opened \in Nat /\ finned_streams \in Nat /\ finned_streams <= Cardinality(A)
      BY DEF Inv, OutTypes, InTypes, CountInv
    <3>2. A \subseteq E
      BY DEF Counted, Inv, WriterInv, OutTypes, Stream
    <3>3. IsFiniteSet(E) /\ Cardinality(E) = opened
      BY <3>1, FS_Interval
    <3> HIDE DEF A, E
    <3>4. Cardinality(A) <= Cardinality(E) /\ Cardinality(A) \in Nat
      BY <3>2, <3>3, FS_Subset, FS_CardinalityType
    <3> QED
      BY <3>1, <3>3, <3>4
  <2>2. control \in Seq({"SubscribeOk", "PublishDone"})
    BY DEF Inv, ControlInv
  <2>3. \A s \in DOMAIN in_streams :
          /\ in_streams[s].subgroup_header \in BOOLEAN
          /\ in_streams[s].remaining \in Nat
          /\ in_streams[s].buf \in Seq(Unit) /\ Len(in_streams[s].buf) <= BufLen
    BY DEF Inv, InTypes, InStreamType
  <2>4. \A s \in DOMAIN out_streams :
          out_streams[s] \in
              [state : {"SubgroupHeader", "ObjectHeader", "ObjectPayload"}, group_id : Group,
               next_object_id : 0..MaxObjectId + 1, size : Size \cup {0}, remaining : Nat]
    BY DEF Inv, OutTypes, OutStreamType
  <2> QED
    BY <2>1, <2>2, <2>3, <2>4 DEF TypeOK, Inv, OutTypes, NetTypes, InTypes, AppTypes
<1> QED
  BY <1>1, Invariance, PTL

\* Every stream counts once as finished, and only when it has ended.
THEOREM Finishing == Spec => []FinnedOnce
<1>1. Inv => FinnedOnce
  <2> SUFFICES ASSUME Inv PROVE FinnedOnce
    OBVIOUS
  <2> DEFINE A == Counted
             R == readable_streams
             E == {s \in Stream : ended[s]}
             K == wt_streams \cup E
  <2>1. /\ finned_streams \in Nat /\ finned_streams <= Cardinality(A)
        /\ A \subseteq Stream /\ A \subseteq E /\ A \cap R = {} /\ R \subseteq Stream
    BY DEF Inv, InTypes, CountInv, Counted
  <2>2. R \subseteq K
    BY DEF Inv, StreamsFiled, EndInv, InTypes
  <2>3. wt_streams \subseteq Stream
    BY BoundsAssumption DEF Inv, NetTypes, OutTypes, Stream
  <2>4. K \subseteq Stream /\ E \subseteq Stream
    BY <2>3
  <2>5. E \subseteq K
    OBVIOUS
  <2>6. IsFiniteSet(Stream)
    BY BoundsAssumption, FS_Interval DEF Stream
  <2> HIDE DEF A, R, E, K
  <2>7. IsFiniteSet(A) /\ IsFiniteSet(R) /\ IsFiniteSet(E) /\ IsFiniteSet(K)
    BY <2>1, <2>4, <2>6, FS_Subset
  <2>8. /\ Cardinality(A) \in Nat /\ Cardinality(R) \in Nat
        /\ Cardinality(E) \in Nat /\ Cardinality(K) \in Nat
    BY <2>7, FS_CardinalityType
  <2>9. Cardinality(A) <= Cardinality(E)
    BY <2>1, <2>7, FS_Subset
  <2>10. Cardinality(A \cup R) = Cardinality(A) + Cardinality(R)
    <3>1. Cardinality(A \cup R) = Cardinality(A) + Cardinality(R) - Cardinality(A \cap R)
      BY <2>7, FS_Union
    <3>2. Cardinality(A \cap R) = 0
      BY <2>1, FS_EmptySet
    <3> QED
      BY <3>1, <3>2, <2>8
  <2>11. Cardinality(A \cup R) <= Cardinality(K)
    <3>1. A \cup R \subseteq K
      BY <2>1, <2>2, <2>5
    <3> QED
      BY <3>1, <2>7, FS_Subset
  <2>12. /\ finned_streams + Cardinality(R) <= Cardinality(K)
         /\ finned_streams <= Cardinality(E)
    BY <2>1, <2>8, <2>9, <2>10, <2>11
  <2> QED
    BY <2>12 DEF FinnedOnce, R, K, E
<1> QED
  BY <1>1, Invariance, PTL

\* The payload that the application holds is the beginning of that of the object
\* whose header it has read.
THEOREM Continuation == Spec => []PayloadContinues
<1>1. Inv => PayloadContinues
  <2> SUFFICES ASSUME Inv, obj_hdr # NoObject
               PROVE  /\ obj_hdr.stream \in readable_streams
                      /\ in_streams[obj_hdr.stream].remaining
                             = obj_hdr.size - Len(obj_hdr.payload)
                      /\ \A i \in DOMAIN obj_hdr.payload :
                             obj_hdr.payload[i] = Payload(obj_hdr.stream, obj_hdr.id, i)
    BY DEF PayloadContinues
  <2>1. /\ obj_hdr.stream \in readable_streams /\ obj_hdr.stream \in Stream
        /\ in_streams[obj_hdr.stream].remaining = obj_hdr.size - Len(obj_hdr.payload)
        /\ obj_hdr.payload \in Seq(Unit)
    BY DEF Inv, ReaderInv, AppTypes
  <2> DEFINE p == obj_hdr.payload
             s == obj_hdr.stream
             c == Chunk(in_streams[s], s)
             pay == p \o c
  <2>2. /\ c \in Seq(Unit) /\ Len(pay) = Len(p) + Len(c) /\ Len(c) \in Nat
        /\ \A j \in 1..Len(pay) : pay[j] = Payload(s, obj_hdr.id, j)
    BY <2>1, PayloadRead
  <2>3. p \in Seq(Unit) /\ c \in Seq(Unit)
    BY <2>1, <2>2
  <2>4. DOMAIN p = 1..Len(p) /\ Len(p) \in Nat
    BY <2>3
  <2> HIDE DEF p, c
  <2>5. \A i \in 1..Len(p) + Len(c) : pay[i] = IF i <= Len(p) THEN p[i] ELSE c[i - Len(p)]
    BY <2>3, ConcatProperties
  <2> HIDE DEF pay
  <2>6. ASSUME NEW i \in DOMAIN p PROVE p[i] = Payload(s, obj_hdr.id, i)
    <3>1. i \in 1..Len(p) + Len(c) /\ i <= Len(p) /\ i \in 1..Len(pay)
      BY <2>2, <2>4
    <3> QED
      BY <3>1, <2>2, <2>5
  <2> QED
    BY <2>1, <2>6 DEF p
<1> QED
  BY <1>1, Invariance, PTL

(***************************************************************************)
(* MoqTrack implements SubgroupDelivery.                                   *)
(***************************************************************************)

\* An object is written when its last unit is.
LEMMA WriteImplements ==
    ASSUME Inv, NEW n, SendObjPld(n)
    PROVE  Delivery!Next \/ UNCHANGED <<written, received>>
<1>1. /\ current_stream_id # None
      /\ out_streams[current_stream_id].state = "ObjectPayload"
  BY DEF SendObjPld
<1>2. PICK s \in Stream : s = current_stream_id
  BY <1>1, CurrentOpen
<1> DEFINE st == out_streams[s]
           id == st.next_object_id - 1
           o == WholeObject(s, id, st.size)
<1>3. PICK num \in Numbering : StreamOK(s, num)
  BY DEF Inv, StreamInv
<1>4. id \in Id /\ st.size \in Size
  BY <1>1, <1>2, <1>3, InObject
<1>5. o \in Object
  BY <1>4 DEF Object
<1>6. received' = received
  BY DEF SendObjPld, publisherOnly, appVars
<1>7. written' = [written EXCEPT ![s] = Append(written[s], o)] \/ written' = written
  BY <1>2, Zenon DEF SendObjPld
<1> HIDE DEF o
<1>8. CASE written' = [written EXCEPT ![s] = Append(written[s], o)]
  <2>1. Delivery!Write(s, o)
    BY <1>6, <1>8, Zenon DEF Delivery!Write
  <2> QED
    BY <2>1, <1>5, Zenon DEF Delivery!Next
<1> QED
  BY <1>6, <1>7, <1>8

\* An object is read when its payload is complete.
LEMMA ReadImplements ==
    ASSUME Inv, ReadObjPld, ReadPayload
    PROVE  Delivery!Next \/ UNCHANGED <<written, received>>
<1>1. written' = written
  BY ReadObjPldKeeps DEF outVars
<1>g. PICK s \in Stream :
          LET pay == obj_hdr.payload \o Chunk(in_streams[s], s) IN
          /\ s = obj_hdr.stream /\ obj_hdr # NoObject
          /\ IF Len(pay) >= obj_hdr.size
             THEN received' = [received EXCEPT ![s] =
                      Append(received[s], [id |-> obj_hdr.id, payload |-> pay])]
             ELSE received' = received
  BY ReadPayloadDoes, Zenon
<1> DEFINE pay == obj_hdr.payload \o Chunk(in_streams[s], s)
           o == [id |-> obj_hdr.id, payload |-> pay]
           n == Len(received[s])
<1>2. CASE Len(pay) >= obj_hdr.size
  <2>1. received' = [received EXCEPT ![s] = Append(received[s], o)]
    BY <1>g, <1>2, Zenon
  <2>2. n \in Nat /\ n + 1 \in 1..Len(written[s]) /\ o = written[s][n + 1]
    BY <1>g, <1>2, ObjectRead
  <2>3. n < Len(written[s])
    <3>1. Len(written[s]) \in Nat
      BY DEF Inv, OutTypes
    <3> HIDE DEF n
    <3> QED
      BY <2>2, <3>1
  <2> HIDE DEF o
  <2>4. Delivery!Read(s)
    BY <2>1, <2>2, <2>3, <1>1, Zenon DEF Delivery!Read
  <2> QED
    BY <2>4, Zenon DEF Delivery!Next
<1>3. CASE ~(Len(pay) >= obj_hdr.size)
  BY <1>1, <1>3, <1>g
<1> QED
  BY <1>2, <1>3

\* On each stream the objects are read whole, in the order in which they were
\* written, none twice and none left out.
THEOREM Implementation == Spec => DeliversInOrder
<1>1. Init => Delivery!Init
  BY DEF Init, Delivery!Init
<1>2. Inv /\ [Next]_vars => [Delivery!Next]_<<written, received>>
  <2> SUFFICES ASSUME Inv, [Next]_vars
               PROVE  Delivery!Next \/ UNCHANGED <<written, received>>
    BY DEF Delivery!Next
  <2>1. CASE Publish
    <3>1. ASSUME NEW group, NEW id, NEW size, NEW capacity,
                 SendOnCurrent(group, id, size, capacity)
                     \/ SendOnNew(group, id, size, capacity)
          PROVE  UNCHANGED <<written, received>>
      BY <3>1, Zenon DEF SendOnCurrent, SendOnNew, publisherOnly, appVars
    <3>2. ASSUME NEW group, OpenBlocked(group) PROVE UNCHANGED <<written, received>>
      BY <3>2, Zenon DEF OpenBlocked, publisherOnly, appVars
    <3>3. CASE ResetCurrentTrackStream \/ PublishDoneCall
      BY <3>3 DEF ResetCurrentTrackStream, PublishDoneCall, publisherOnly, appVars
    <3> QED
      BY <2>1, <3>1, <3>2, <3>3, WriteImplements, Zenon DEF Publish
  <2>2. ASSUME NEW s \in Stream, Arrive(s) \/ ArriveFin(s) \/ ArriveReset(s)
        PROVE  UNCHANGED <<written, received>>
    BY <2>2 DEF Arrive, ArriveFin, ArriveReset, outVars, appVars
  <2>3. ASSUME NEW s \in Stream, PollStream(s) \/ PollFault(s)
        PROVE  UNCHANGED <<written, received>>
    BY <2>3 DEF PollStream, PollFault, Panic, outVars, appVars
  <2>4. CASE CollectStreams \/ PollControl
    BY <2>4 DEF CollectStreams, PollControl, RecvSubscribeOk, RecvPublishDone, outVars, appVars
  <2>5. CASE Read
    <3>1. CASE ReadObjHdr
      BY <3>1, ReadObjHdrKeeps DEF outVars
    <3>2. CASE ReadObjPld
      <4>1. ReadPayload \/ StreamCutOff \/ ReadPayloadFault
        BY <3>2 DEF ReadObjPld
      <4>2. StreamCutOff \/ ReadPayloadFault => UNCHANGED <<written, received>>
        BY <3>2, ReadObjPldKeeps DEF StreamCutOff, ReadPayloadFault, outVars
      <4> QED
        BY <3>2, <4>1, <4>2, ReadImplements, Zenon
    <3> QED
      BY <2>5, <3>1, <3>2 DEF Read
  <2>6. CASE UNCHANGED vars
    BY <2>6 DEF vars, outVars, appVars
  <2> QED
    BY <2>1, <2>2, <2>3, <2>4, <2>5, <2>6, Zenon DEF Next
<1> QED
  BY <1>1, <1>2, Invariance, PTL DEF Spec, DeliversInOrder, Delivery!Spec

=============================================================================
