------------------------ MODULE RelayForward_proofs ------------------------
(***************************************************************************)
(* Proofs about RelayForward: its types, the count the relay keeps of what *)
(* a subscriber is still to be sent, and, while the locations it reads     *)
(* increase, the framing and the content of what it sends.                 *)
(***************************************************************************)
EXTENDS RelayForward, SequenceTheorems, TLAPS

(***************************************************************************)
(* The inductive invariant.                                                *)
(***************************************************************************)

\* What a subscriber's OutStream has to do with the relay's count.
Counted(s) ==
    /\ s.remaining = s.out.remaining
    /\ s.out.group = -1 => s.out.remaining = 0

\* What the relay reads from its publisher fits the buffer it has made for it.
Fits ==
    /\ upstream # 0 => upstream + Len(obj_buf) = obj_payload_len
    /\ subgroup_canceled => upstream = 0
    /\ location = NoLocation => obj_payload_len = 0

\* Every subscriber has had its turn before the relay reads.
TurnsOver ==
    step # "loop" => served = {} /\ ~subgroup_canceled

\* A subscriber is not ahead of the relay, its stream has the header of the object
\* it was given last, and has had as much of it as the relay believes.
Follows(s) ==
    /\ ~Before(location, s.location)
    /\ s.out.group <= location.group
    /\ s.out.header # NoLocation => /\ s.out.header = s.location
                                    /\ s.out.group = s.location.group
    /\ s.remaining # 0 => s.out.header = s.location
    /\ s.location = location /\ s.remaining # 0
           => Len(s.out.payload) + s.remaining = obj_payload_len
    /\ \A i \in DOMAIN s.out.payload : s.out.payload[i] = Unit(s.out.header, i)

InOrder ==
    /\ \A i \in DOMAIN obj_buf : obj_buf[i] = Unit(location, i)
    /\ location # NoLocation => location \in given
    /\ \A c \in DOMAIN subscribers : Follows(subscribers[c])
    /\ subgroup_canceled => \A c \in served : subscribers[c].remaining = 0

Inv ==
    /\ TypeOK
    /\ \A c \in DOMAIN subscribers : Counted(subscribers[c])
    /\ Fits
    /\ TurnsOver
    /\ Ordered => InOrder
    /\ SendsLegal

(***************************************************************************)
(* Locations and payload.                                                  *)
(***************************************************************************)

\* Locations are integers by pairs; those of objects have a group of 0 or more.
LEMMA LocationType ==
    ASSUME NEW l \in AnyLocation
    PROVE  /\ l.group \in Int /\ l.object \in Int /\ l.object >= -1
           /\ l.group \in -1..MaxGroup
           /\ l # NoLocation => l \in Location /\ l.group >= 0 /\ l.object >= 0
           /\ l = NoLocation => l.group = -1 /\ l.object = -1
BY BoundsAssumption DEF AnyLocation, Location, NoLocation

\* The order of locations is total.
LEMMA LocationOrder ==
    ASSUME NEW a \in AnyLocation, NEW b \in AnyLocation, NEW c \in AnyLocation
    PROVE  /\ ~Before(a, a)
           /\ Before(a, b) /\ Before(b, c) => Before(a, c)
           /\ Before(a, b) \/ Before(b, a) \/ a = b
           /\ ~Before(b, a) /\ Before(b, c) => Before(a, c)
           /\ Before(a, b) => a.group <= b.group
           /\ ~Before(b, a) => a.group <= b.group
           /\ Before(a, b) => ~Before(b, a) /\ a # b
<1>1. /\ a.group \in Int /\ a.object \in Int /\ b.group \in Int /\ b.object \in Int
      /\ c.group \in Int /\ c.object \in Int
  BY LocationType
<1>2. a.group = b.group /\ a.object = b.object => a = b
  BY BoundsAssumption DEF AnyLocation, Location, NoLocation
<1> QED
  BY <1>1, <1>2 DEF Before

\* The buffer as step 1 leaves it is a buffer.
LEMMA BufferType ==
    ASSUME TypeOK
    PROVE  /\ Length \in 0..MaxSize
           /\ Buffered \in Seq(AnyUnit)
           /\ Len(Buffered) \in Nat /\ Len(Buffered) <= Length
BY BoundsAssumption DEF TypeOK, Length, Buffered

\* What a stream has after some more of the buffer.
LEMMA Appended ==
    ASSUME NEW U, NEW p \in Seq(U), NEW b \in Seq(U), NEW k \in Nat, NEW n \in Nat,
           k + n <= Len(b)
    PROVE  LET q == p \o SubSeq(b, k + 1, k + n) IN
           /\ Len(SubSeq(b, k + 1, k + n)) = n
           /\ q \in Seq(U)
           /\ Len(q) = Len(p) + n
           /\ \A i \in 1..Len(p) : q[i] = p[i]
           /\ \A i \in 1..n : q[Len(p) + i] = b[k + i]
<1> DEFINE t == SubSeq(b, k + 1, k + n)
<1>1. /\ t \in Seq(U) /\ Len(t) = n
      /\ \A i \in 1..n : t[i] = b[k + i]
  BY SubSeqProperties
<1>2. p \o t \in Seq(U) /\ Len(p \o t) = Len(p) + n
  BY <1>1, ConcatProperties
<1>3. \A i \in 1..Len(p) : (p \o t)[i] = p[i]
  BY <1>1, ConcatProperties
<1>4. \A i \in 1..n : (p \o t)[Len(p) + i] = t[i]
  BY <1>1, ConcatProperties
<1> QED
  BY <1>1, <1>2, <1>3, <1>4

(***************************************************************************)
(* What becomes of a subscriber: its type, and the count.                  *)
(***************************************************************************)

\* A new OutStream, and none, are OutStreams with nothing to send.
LEMMA NewStreams ==
    ASSUME NEW g \in -1..MaxGroup
    PROVE  /\ NoOutStream \in OutStream
           /\ NewOutStream(g) \in OutStream
           /\ NewOutStream(g) = [group |-> g, header |-> NoLocation, payload |-> << >>,
                                 remaining |-> 0]
           /\ NoOutStream = [group |-> -1, header |-> NoLocation, payload |-> << >>,
                             remaining |-> 0]
<1>1. NoLocation \in AnyLocation
  BY DEF AnyLocation
<1>2. << >> \in Seq(AnyUnit)
  OBVIOUS
<1>3. -1 \in -1..MaxGroup /\ 0 \in 0..MaxSize
  BY BoundsAssumption
<1>4. NewOutStream(g) = [group |-> g, header |-> NoLocation, payload |-> << >>,
                         remaining |-> 0]
  BY DEF NoOutStream, NewOutStream
<1>5. /\ [group |-> -1, header |-> NoLocation, payload |-> << >>, remaining |-> 0]
              \in OutStream
      /\ [group |-> g, header |-> NoLocation, payload |-> << >>, remaining |-> 0]
              \in OutStream
  BY <1>1, <1>2, <1>3 DEF OutStream
<1> QED
  BY <1>4, <1>5 DEF NoOutStream

\* A reset subscriber has no stream, and nothing to send on it.
LEMMA ResetTyped ==
    ASSUME NEW s \in SubscriberInfo
    PROVE  /\ Reset(s) \in SubscriberInfo
           /\ Counted(Reset(s))
           /\ Reset(s).location = s.location
           /\ Reset(s).remaining = 0
           /\ Reset(s).out = NoOutStream
<1>1. NoOutStream \in OutStream /\ NoOutStream.remaining = 0 /\ 0 \in 0..MaxSize
  <2>1. -1 \in -1..MaxGroup /\ 0 \in 0..MaxSize
    BY BoundsAssumption
  <2> QED
    BY <2>1, NewStreams
<1>2. /\ Reset(s).location = s.location
      /\ Reset(s).remaining = 0
      /\ Reset(s).out = NoOutStream
  BY DEF Reset, SubscriberInfo
<1>3. Reset(s) \in SubscriberInfo
  BY <1>1 DEF Reset, SubscriberInfo
<1> QED
  BY <1>1, <1>2, <1>3 DEF Counted

\* A subscriber as step 2 takes it up has its type and its location, and if it is
\* to get a header it has nothing left to send.
LEMMA ServedTyped ==
    ASSUME TypeOK, NEW c \in DOMAIN subscribers, Counted(subscribers[c])
    PROVE  /\ subscribers[c] \in SubscriberInfo
           /\ Served(c) \in SubscriberInfo
           /\ Counted(Served(c))
           /\ Served(c).location = subscribers[c].location
           /\ Served(c) = subscribers[c] \/ Served(c) = Reset(subscribers[c])
           /\ location # NoLocation /\ NeedHeader(Served(c)) => Served(c).remaining = 0
           /\ subgroup_canceled /\ subscribers[c].location = location
                  => Served(c).remaining = 0
<1> DEFINE s == subscribers[c]
<1>1. s \in SubscriberInfo
  BY DEF TypeOK
<1>2. /\ Reset(s) \in SubscriberInfo /\ Counted(Reset(s))
      /\ Reset(s).location = s.location /\ Reset(s).remaining = 0
  BY <1>1, ResetTyped
<1>3. Reset(Reset(s)) = Reset(s)
  BY <1>1, <1>2 DEF Reset, SubscriberInfo
<1>4. Canceled(s) = s \/ Canceled(s) = Reset(s)
  BY DEF Canceled
<1>5. Served(c) = s \/ Served(c) = Reset(s)
  BY <1>3, <1>4 DEF Served, Skipped
<1>6. location # NoLocation /\ NeedHeader(Served(c)) => Served(c).remaining = 0
  BY <1>2, <1>3, <1>4 DEF Served, Skipped, NeedHeader
<1>7. subgroup_canceled /\ s.location = location => Served(c).remaining = 0
  BY <1>2, <1>3, <1>4 DEF Served, Skipped, Canceled
<1> QED
  BY <1>1, <1>2, <1>5, <1>6, <1>7

\* A subscriber whose header is blocked keeps its stream, or has a new one or none.
LEMMA HeaderBlockedCases ==
    ASSUME NEW s \in SubscriberInfo, NEW u \in HeaderBlocked(s)
    PROVE  \/ u = s /\ s.out.group = location.group
           \/ u = [s EXCEPT !.out = NoOutStream]
           \/ u = [s EXCEPT !.out = NewOutStream(location.group)]
<1>1. [s EXCEPT !.out = s.out] = s
  BY DEF SubscriberInfo
<1>2. CASE s.out.group = location.group
  BY <1>1, <1>2 DEF HeaderBlocked
<1>3. CASE s.out.group # location.group
  BY <1>3 DEF HeaderBlocked
<1> QED
  BY <1>2, <1>3

\* A header that is sent sets both counts, and one that is blocked leaves both at 0.
LEMMA HeaderTyped ==
    ASSUME TypeOK, location # NoLocation,
           NEW s \in SubscriberInfo, Counted(s), s.remaining = 0
    PROVE  /\ HeaderSent(s) \in SubscriberInfo
           /\ Counted(HeaderSent(s))
           /\ \A u \in HeaderBlocked(s) : u \in SubscriberInfo /\ Counted(u)
<1>1. /\ location \in Location /\ location \in AnyLocation
      /\ location.group \in -1..MaxGroup /\ location.group >= 0
  BY LocationType DEF TypeOK
<1>2. /\ NoOutStream \in OutStream
      /\ NewOutStream(location.group) \in OutStream
      /\ NewOutStream(location.group).group = location.group
      /\ NewOutStream(location.group).remaining = 0
      /\ NoOutStream.remaining = 0
  BY <1>1, NewStreams
<1>3. Length \in 0..MaxSize
  BY BufferType
<1>4. << >> \in Seq(AnyUnit)
  OBVIOUS
<1>5. HeaderSent(s) \in SubscriberInfo
  BY <1>1, <1>3, <1>4 DEF HeaderSent, SubscriberInfo, OutStream
<1>6. Counted(HeaderSent(s))
  BY <1>1 DEF HeaderSent, Counted
<1>7. ASSUME NEW u \in HeaderBlocked(s)
      PROVE  u \in SubscriberInfo /\ Counted(u)
  <2>1. u = s \/ u = [s EXCEPT !.out = NoOutStream]
        \/ u = [s EXCEPT !.out = NewOutStream(location.group)]
    BY <1>7, HeaderBlockedCases
  <2> QED
    BY <2>1, <1>1, <1>2 DEF SubscriberInfo, Counted
<1> QED
  BY <1>5, <1>6, <1>7

\* Payload that is sent is taken from both counts.
LEMMA GivenTyped ==
    ASSUME TypeOK, NEW s \in SubscriberInfo, Counted(s),
           NEW n \in Nat, Unsent(s), n <= Len(Buffered) - ReadPos(s),
           PayloadFault(s) = "no"
    PROVE  /\ Given(s, n) \in SubscriberInfo
           /\ Counted(Given(s, n))
           /\ Given(s, n).location = s.location
           /\ Given(s, n).remaining = s.remaining - n
           /\ Given(s, n).out.group = s.out.group
           /\ Given(s, n).out.header = s.out.header
           /\ Given(s, n).out.payload =
                  s.out.payload \o SubSeq(Buffered, ReadPos(s) + 1, ReadPos(s) + n)
<1> DEFINE units == SubSeq(Buffered, ReadPos(s) + 1, ReadPos(s) + n)
<1>1. /\ ReadPos(s) \in Nat
      /\ s.out.remaining \in 0..MaxSize /\ s.remaining \in 0..MaxSize
      /\ s.out.payload \in Seq(AnyUnit)
      /\ Length \in 0..MaxSize /\ Buffered \in Seq(AnyUnit) /\ Len(Buffered) \in Nat
  BY BufferType, BoundsAssumption DEF Unsent, SubscriberInfo, OutStream
<1>2. Len(Buffered) - ReadPos(s) <= s.out.remaining /\ s.out.group # -1
  <2>1. ~(ReadPos(s) < 0)
    BY <1>1
  <2>2. s.out.group # -1
    BY <2>1 DEF PayloadFault
  <2>3. ~(Len(Buffered) - ReadPos(s) > s.out.remaining)
    BY <1>1, <2>1, <2>2 DEF PayloadFault
  <2> QED
    BY <1>1, <2>2, <2>3
<1>3. /\ s.out.remaining - n \in 0..MaxSize
      /\ s.remaining - n \in 0..MaxSize
      /\ s.remaining - n = s.out.remaining - n
      /\ ReadPos(s) + n <= Len(Buffered)
  BY <1>1, <1>2, BoundsAssumption DEF Counted
<1>4. s.out.payload \o units \in Seq(AnyUnit) /\ Len(units) = n
  <2>1. \A p \in Seq(AnyUnit), b \in Seq(AnyUnit), k \in Nat, m \in Nat :
            k + m <= Len(b) => /\ Len(SubSeq(b, k + 1, k + m)) = m
                               /\ p \o SubSeq(b, k + 1, k + m) \in Seq(AnyUnit)
    BY Appended
  <2> QED
    <3>1. \A k \in Nat, m \in Nat :
             k + m <= Len(Buffered) =>
                 /\ Len(SubSeq(Buffered, k + 1, k + m)) = m
                 /\ s.out.payload \o SubSeq(Buffered, k + 1, k + m) \in Seq(AnyUnit)
      BY <1>1, <2>1, Zenon
    <3> QED
      BY <1>1, <1>3, <3>1, Zenon
<1> HIDE DEF units
<1>5. Extended(s.out, units) \in OutStream
  BY <1>3, <1>4 DEF Extended, OutStream, SubscriberInfo
<1>6. /\ Given(s, n).location = s.location
      /\ Given(s, n).remaining = s.remaining - n
      /\ Given(s, n).out = Extended(s.out, units)
  BY DEF Given, SubscriberInfo, units
<1>7. Given(s, n) \in SubscriberInfo
  BY <1>3, <1>5 DEF Given, SubscriberInfo, units
<1>8. /\ Extended(s.out, units).group = s.out.group
      /\ Extended(s.out, units).header = s.out.header
      /\ Extended(s.out, units).payload = s.out.payload \o units
      /\ Extended(s.out, units).remaining = s.out.remaining - n
  BY <1>4 DEF Extended
<1> QED
  BY <1>2, <1>3, <1>6, <1>7, <1>8 DEF Counted, units

\* Either nothing is sent, or some units of the buffer.
LEMMA PayloadCases ==
    ASSUME NEW s, NEW u \in PayloadOutcomes(s)
    PROVE  \/ u = s
           \/ /\ Unsent(s)
              /\ PayloadFault(s) = "no"
              /\ \E n \in 0..Len(Buffered) - ReadPos(s) : u = Given(s, n)
BY DEF PayloadOutcomes, PayloadSent

\* What becomes of a subscriber in its turn.
LEMMA OutcomeCases ==
    ASSUME NEW c, NEW u \in Outcomes(c)
    PROVE  \/ u = Served(c) /\ location = NoLocation
           \/ /\ location # NoLocation
              /\ ~NeedHeader(Served(c))
              /\ u \in PayloadOutcomes(Served(c))
           \/ /\ location # NoLocation
              /\ NeedHeader(Served(c))
              /\ u \in HeaderBlocked(Served(c))
           \/ /\ location # NoLocation
              /\ NeedHeader(Served(c))
              /\ HeaderFault(Served(c)) = "no"
              /\ u \in PayloadOutcomes(HeaderSent(Served(c)))
BY DEF Outcomes

LEMMA PayloadTyped ==
    ASSUME TypeOK, NEW s \in SubscriberInfo, Counted(s), NEW u \in PayloadOutcomes(s)
    PROVE  u \in SubscriberInfo /\ Counted(u)
<1>1. CASE u = s
  BY <1>1
<1>2. ASSUME Unsent(s), PayloadFault(s) = "no",
             NEW n \in 0..Len(Buffered) - ReadPos(s), u = Given(s, n)
      PROVE  u \in SubscriberInfo /\ Counted(u)
  <2>1. n \in Nat /\ n <= Len(Buffered) - ReadPos(s)
    <3>1. ReadPos(s) \in Int /\ Len(Buffered) \in Nat
      BY BufferType, BoundsAssumption DEF ReadPos, SubscriberInfo
    <3> QED
      BY <3>1
  <2> QED
    BY <1>2, <2>1, GivenTyped
<1> QED
  BY <1>1, <1>2, PayloadCases

\* The turn of a subscriber leaves it with its type, and the counts equal.
LEMMA OutcomeTyped ==
    ASSUME TypeOK, NEW c \in DOMAIN subscribers, Counted(subscribers[c]),
           NEW u \in Outcomes(c)
    PROVE  u \in SubscriberInfo /\ Counted(u)
<1> DEFINE s == Served(c)
<1>1. /\ s \in SubscriberInfo /\ Counted(s)
      /\ location # NoLocation /\ NeedHeader(s) => s.remaining = 0
  BY ServedTyped
<1> HIDE DEF s
<1>2. CASE location # NoLocation /\ u \in PayloadOutcomes(s)
  BY <1>1, <1>2, PayloadTyped
<1>3. CASE location # NoLocation /\ NeedHeader(s) /\ u \in HeaderBlocked(s)
  BY <1>1, <1>3, HeaderTyped
<1>4. CASE location # NoLocation /\ NeedHeader(s) /\ u \in PayloadOutcomes(HeaderSent(s))
  <2>1. HeaderSent(s) \in SubscriberInfo /\ Counted(HeaderSent(s))
    BY <1>1, <1>4, HeaderTyped
  <2> QED
    BY <1>4, <2>1, PayloadTyped
<1> QED
  BY <1>1, <1>2, <1>3, <1>4, OutcomeCases DEF s

(***************************************************************************)
(* While the locations increase: a subscriber follows the relay.           *)
(***************************************************************************)

\* A subscriber without a stream, or with one that has no header, and with nothing
\* to send, follows when its location is not ahead.
LEMMA EmptyFollows ==
    ASSUME TypeOK, NEW s \in SubscriberInfo,
           ~Before(location, s.location),
           s.remaining = 0,
           s.out.header = NoLocation,
           s.out.payload = << >>,
           s.out.group <= location.group
    PROVE  Follows(s)
BY DEF Follows

LEMMA ServedFollows ==
    ASSUME Inv, InOrder, NEW c \in DOMAIN subscribers
    PROVE  /\ Follows(Served(c))
           /\ subgroup_canceled => Served(c).remaining = 0
<1> DEFINE s == subscribers[c]
<1>1. /\ TypeOK /\ Follows(s) /\ Counted(s)
      /\ location \in AnyLocation
  BY DEF Inv, InOrder, TypeOK
<1>2. /\ s \in SubscriberInfo
      /\ Served(c) \in SubscriberInfo
      /\ Served(c).location = s.location
      /\ Served(c) = s \/ Served(c) = Reset(s)
      /\ location # NoLocation /\ NeedHeader(Served(c)) => Served(c).remaining = 0
      /\ subgroup_canceled /\ s.location = location => Served(c).remaining = 0
  BY <1>1, ServedTyped
<1>3. Follows(Reset(s))
  <2>1. /\ Reset(s) \in SubscriberInfo /\ Reset(s).location = s.location
        /\ Reset(s).remaining = 0 /\ Reset(s).out = NoOutStream
    BY <1>2, ResetTyped
  <2>2. /\ NoOutStream.header = NoLocation /\ NoOutStream.payload = << >>
        /\ NoOutStream.group = -1
    BY DEF NoOutStream
  <2>3. -1 <= location.group
    BY <1>1, LocationType, BoundsAssumption
  <2> QED
    BY <1>1, <2>1, <2>2, <2>3, EmptyFollows DEF Follows
<1>4. subgroup_canceled => Served(c).remaining = 0
  <2>1. s.location \in AnyLocation /\ ~Before(location, s.location)
    BY <1>1, <1>2 DEF SubscriberInfo, Follows
  <2>2. Before(s.location, location) \/ s.location = location
    BY <1>1, <2>1, LocationOrder
  <2>3. Before(s.location, location) => location # NoLocation
    BY <1>1, <2>1, LocationType DEF Before
  <2> QED
    BY <1>2, <2>2, <2>3 DEF NeedHeader
<1> QED
  BY <1>1, <1>2, <1>3, <1>4

LEMMA HeaderFollows ==
    ASSUME TypeOK, location # NoLocation,
           NEW s \in SubscriberInfo, Follows(s), Counted(s), s.remaining = 0
    PROVE  \A u \in HeaderBlocked(s) : Follows(u) /\ u.remaining = 0
<1>1. /\ location \in AnyLocation /\ location.group \in -1..MaxGroup
      /\ location.group >= 0
      /\ s.location \in AnyLocation /\ ~Before(location, s.location)
  BY LocationType DEF TypeOK, SubscriberInfo, Follows
<1>2. TAKE u \in HeaderBlocked(s)
<1>3. u \in SubscriberInfo
  BY HeaderTyped
<1>4. CASE u = s
  BY <1>4
<1>5. CASE u = [s EXCEPT !.out = NoOutStream]
  <2>1. /\ u.location = s.location /\ u.remaining = 0 /\ u.out = NoOutStream
    BY <1>5 DEF SubscriberInfo
  <2>2. /\ u.out.header = NoLocation /\ u.out.payload = << >> /\ u.out.group = -1
    BY <2>1 DEF NoOutStream
  <2>3. -1 <= location.group
    BY <1>1
  <2> QED
    BY <1>1, <1>3, <2>1, <2>2, <2>3, EmptyFollows
<1>6. CASE u = [s EXCEPT !.out = NewOutStream(location.group)]
  <2>1. /\ u.location = s.location /\ u.remaining = 0
        /\ u.out = NewOutStream(location.group)
    BY <1>6 DEF SubscriberInfo
  <2>2. /\ u.out.header = NoLocation /\ u.out.payload = << >>
        /\ u.out.group = location.group
    BY <1>1, <2>1, NewStreams
  <2>3. location.group <= location.group
    BY <1>1
  <2> QED
    BY <1>1, <1>3, <2>1, <2>2, <2>3, EmptyFollows
<1> QED
  BY <1>4, <1>5, <1>6, HeaderBlockedCases

\* A header that is sent starts the object that is buffered, with none of its payload.
LEMMA SentFollows ==
    ASSUME TypeOK, location # NoLocation, ~subgroup_canceled,
           NEW s \in SubscriberInfo
    PROVE  Follows(HeaderSent(s))
<1> DEFINE u == HeaderSent(s)
<1>1. /\ u.location = location /\ u.remaining = Length
      /\ u.out.group = location.group /\ u.out.header = location
      /\ u.out.payload = << >>
  BY DEF HeaderSent
<1>2. location \in AnyLocation /\ location.group \in Int
  BY LocationType DEF TypeOK
<1>3. Length = obj_payload_len /\ obj_payload_len \in Nat
  BY BoundsAssumption DEF Length, TypeOK
<1>4. ~Before(location, location)
  BY <1>2, LocationOrder
<1> HIDE DEF u
<1>5. Len(u.out.payload) + u.remaining = obj_payload_len
  BY <1>1, <1>3
<1>6. \A i \in DOMAIN u.out.payload : FALSE
  BY <1>1
<1> QED
  BY <1>1, <1>2, <1>4, <1>5, <1>6 DEF Follows, u

\* At a subscriber that follows and needs no header, what can be sent is the next of
\* the payload of the object whose header was sent last, and fits what it has left.
LEMMA UnsentFollows ==
    ASSUME TypeOK, InOrder, location # NoLocation,
           NEW s \in SubscriberInfo, Follows(s), Counted(s), ~NeedHeader(s),
           Unsent(s)
    PROVE  /\ ~subgroup_canceled
           /\ s.out.header = location
           /\ s.out.group # -1
           /\ Len(s.out.payload) = ReadPos(s)
           /\ Len(Buffered) - ReadPos(s) <= s.out.remaining
<1>1. /\ Length \in 0..MaxSize /\ Len(Buffered) \in Nat /\ Len(Buffered) <= Length
      /\ s.remaining \in 0..MaxSize /\ s.out.remaining = s.remaining
      /\ s.out.payload \in Seq(AnyUnit) /\ Len(s.out.payload) \in Nat
  BY BufferType DEF SubscriberInfo, OutStream, Counted
<1>2. ReadPos(s) = Length - s.remaining /\ ReadPos(s) >= 0 /\ ReadPos(s) < Len(Buffered)
  BY <1>1, BoundsAssumption DEF ReadPos, Unsent
<1>3. ~subgroup_canceled
  <2>1. subgroup_canceled => Len(Buffered) = 0
    BY DEF Buffered
  <2> QED
    BY <1>1, <1>2, <2>1
<1>4. s.remaining # 0 /\ Len(Buffered) - ReadPos(s) <= s.out.remaining
  BY <1>1, <1>2, BoundsAssumption
<1>5. s.location = location
  <2>1. s.location \in AnyLocation /\ location \in AnyLocation
    BY DEF TypeOK, SubscriberInfo
  <2> QED
    BY <2>1, LocationOrder DEF Follows, NeedHeader
<1>6. /\ s.out.header = location
      /\ Len(s.out.payload) + s.remaining = obj_payload_len
  BY <1>4, <1>5 DEF Follows
<1>7. s.out.group # -1
  <2>1. s.out.remaining # 0
    BY <1>1, <1>4
  <2> QED
    BY <2>1 DEF Counted
<1>8. Length = obj_payload_len
  BY <1>3 DEF Length
<1> QED
  BY <1>1, <1>2, <1>3, <1>4, <1>6, <1>7, <1>8, BoundsAssumption

LEMMA PayloadFollows ==
    ASSUME TypeOK, InOrder, location # NoLocation,
           NEW s \in SubscriberInfo, Follows(s), Counted(s), ~NeedHeader(s),
           NEW n \in Nat, Unsent(s), n <= Len(Buffered) - ReadPos(s),
           PayloadFault(s) = "no"
    PROVE  Follows(Given(s, n))
<1> DEFINE u == Given(s, n)
           p == s.out.payload
           q == p \o SubSeq(Buffered, ReadPos(s) + 1, ReadPos(s) + n)
<1>1. /\ ~subgroup_canceled /\ s.out.header = location
      /\ Len(p) = ReadPos(s)
  BY UnsentFollows
<1>2. /\ u.location = s.location /\ u.remaining = s.remaining - n
      /\ u.out.group = s.out.group /\ u.out.header = s.out.header
      /\ u.out.payload = q
  BY GivenTyped
<1>3. /\ p \in Seq(AnyUnit) /\ Buffered \in Seq(AnyUnit) /\ Buffered = obj_buf
      /\ ReadPos(s) \in Nat /\ Len(Buffered) \in Nat
      /\ s.remaining \in 0..MaxSize
  BY <1>1, BufferType, BoundsAssumption DEF SubscriberInfo, OutStream, Buffered, Unsent
<1>4. ReadPos(s) + n <= Len(Buffered)
  BY <1>3
<1>5. /\ Len(q) = Len(p) + n
      /\ q \in Seq(AnyUnit)
      /\ \A i \in 1..Len(p) : q[i] = p[i]
      /\ \A i \in 1..n : q[Len(p) + i] = Buffered[ReadPos(s) + i]
  <2>1. \A a \in Seq(AnyUnit), b \in Seq(AnyUnit), k \in Nat, m \in Nat :
            k + m <= Len(b) =>
                LET r == a \o SubSeq(b, k + 1, k + m) IN
                /\ Len(r) = Len(a) + m
                /\ r \in Seq(AnyUnit)
                /\ \A i \in 1..Len(a) : r[i] = a[i]
                /\ \A i \in 1..m : r[Len(a) + i] = b[k + i]
    BY Appended
  <2>2. \A k \in Nat, m \in Nat :
            k + m <= Len(Buffered) =>
                LET r == p \o SubSeq(Buffered, k + 1, k + m) IN
                /\ Len(r) = Len(p) + m
                /\ r \in Seq(AnyUnit)
                /\ \A i \in 1..Len(p) : r[i] = p[i]
                /\ \A i \in 1..m : r[Len(p) + i] = Buffered[k + i]
    BY <1>3, <2>1, Zenon
  <2> QED
    BY <1>3, <1>4, <2>2, Zenon
<1>6. s.location \in AnyLocation /\ location \in AnyLocation
  BY DEF TypeOK, SubscriberInfo
<1>7. s.location = location
  BY <1>6, LocationOrder DEF Follows, NeedHeader
<1>8. ASSUME NEW i \in DOMAIN q
      PROVE  q[i] = Unit(location, i)
  <2> HIDE DEF q, p
  <2>1. i \in 1..Len(p) + n /\ Len(p) \in Nat
    BY <1>3, <1>5
  <2>2. CASE i \in 1..Len(p)
    <3>1. p[i] = Unit(location, i)
      BY <1>1, <1>3, <2>2 DEF Follows, p
    <3> QED
      BY <1>5, <2>2, <3>1
  <2>3. CASE i \notin 1..Len(p)
    <3> DEFINE j == i - Len(p)
    <3>1. j \in 1..n /\ i = Len(p) + j /\ ReadPos(s) + j = i
      BY <1>1, <2>1, <2>3
    <3>2. q[i] = Buffered[i]
      <4> HIDE DEF j
      <4>1. q[Len(p) + j] = Buffered[ReadPos(s) + j]
        BY <1>5, <3>1
      <4> QED
        BY <3>1, <4>1
    <3>3. i \in DOMAIN obj_buf
      BY <1>1, <1>3, <1>4, <2>1
    <3> QED
      BY <1>3, <3>2, <3>3 DEF InOrder
  <2> QED
    BY <2>2, <2>3
<1>9. s.remaining - n # 0 => Len(q) + (s.remaining - n) = obj_payload_len
  <2>1. Length = obj_payload_len /\ obj_payload_len \in Nat
    BY <1>1, BoundsAssumption DEF Length, TypeOK
  <2> HIDE DEF q, p
  <2>2. ReadPos(s) = obj_payload_len - s.remaining
    BY <2>1 DEF ReadPos
  <2> QED
    BY <1>1, <1>3, <1>5, <2>1, <2>2, BoundsAssumption
<1> HIDE DEF u, q, p
<1>10. u.out.payload = q /\ u.out.header = location
  BY <1>1, <1>2
<1> QED
  BY <1>1, <1>2, <1>7, <1>8, <1>9, <1>10 DEF Follows, u

LEMMA PayloadOutcomesFollow ==
    ASSUME TypeOK, InOrder, location # NoLocation,
           NEW s \in SubscriberInfo, Follows(s), Counted(s), ~NeedHeader(s),
           NEW u \in PayloadOutcomes(s)
    PROVE  Follows(u) /\ (subgroup_canceled => u.remaining = s.remaining)
<1>1. CASE u = s
  BY <1>1
<1>2. ASSUME Unsent(s), PayloadFault(s) = "no",
             NEW n \in 0..Len(Buffered) - ReadPos(s), u = Given(s, n)
      PROVE  Follows(u) /\ ~subgroup_canceled
  <2>1. n \in Nat /\ n <= Len(Buffered) - ReadPos(s)
    <3>1. ReadPos(s) \in Int /\ Len(Buffered) \in Nat
      BY BufferType, BoundsAssumption DEF ReadPos, SubscriberInfo
    <3> QED
      BY <3>1
  <2> QED
    BY <1>2, <2>1, PayloadFollows, UnsentFollows
<1> QED
  BY <1>1, <1>2, PayloadCases

\* The turn of a subscriber: it follows still, and has nothing left of a canceled object.
LEMMA OutcomeFollows ==
    ASSUME Inv, InOrder, NEW c \in DOMAIN subscribers, NEW u \in Outcomes(c)
    PROVE  Follows(u) /\ (subgroup_canceled => u.remaining = 0)
<1> DEFINE s == Served(c)
<1>1. /\ TypeOK /\ s \in SubscriberInfo /\ Counted(s) /\ Follows(s)
      /\ subgroup_canceled => s.remaining = 0
      /\ location # NoLocation /\ NeedHeader(s) => s.remaining = 0
  BY ServedTyped, ServedFollows DEF Inv
<1> HIDE DEF s
<1>2. CASE location # NoLocation /\ ~NeedHeader(s) /\ u \in PayloadOutcomes(s)
  BY <1>1, <1>2, PayloadOutcomesFollow
<1>3. CASE location # NoLocation /\ NeedHeader(s) /\ u \in HeaderBlocked(s)
  BY <1>1, <1>3, HeaderFollows
<1>4. CASE /\ location # NoLocation /\ NeedHeader(s) /\ HeaderFault(s) = "no"
           /\ u \in PayloadOutcomes(HeaderSent(s))
  <2> DEFINE h == HeaderSent(s)
  <2>1. h \in SubscriberInfo /\ Counted(h)
    BY <1>1, <1>4, HeaderTyped
  <2>2. ~subgroup_canceled
    <3>1. Length # 0
      BY <1>4 DEF HeaderFault
    <3> QED
      BY <3>1 DEF Length
  <2>3. Follows(h)
    BY <1>1, <1>4, <2>2, SentFollows
  <2>4. ~NeedHeader(h)
    <3>1. h.location = location /\ location \in AnyLocation
      BY <1>1 DEF HeaderSent, TypeOK
    <3> QED
      BY <3>1, LocationOrder DEF NeedHeader
  <2> HIDE DEF h
  <2>5. u \in PayloadOutcomes(h)
    BY <1>4 DEF h
  <2> QED
    BY <1>1, <1>4, <2>1, <2>2, <2>3, <2>4, <2>5, PayloadOutcomesFollow
<1> QED
  BY <1>1, <1>2, <1>3, <1>4, OutcomeCases DEF s

\* While the locations increase, the header of an object of size 0 is the only thing
\* that can go wrong in a turn.
LEMMA OnlyEmptyFaults ==
    ASSUME Inv, InOrder, NEW c \in DOMAIN subscribers, NEW why \in Faults(c)
    PROVE  why = "empty object"
<1> DEFINE s == Served(c)
<1>1. /\ TypeOK /\ InOrder /\ s \in SubscriberInfo /\ Counted(s) /\ Follows(s)
      /\ subgroup_canceled => s.remaining = 0
      /\ location # NoLocation /\ NeedHeader(s) => s.remaining = 0
  BY ServedTyped, ServedFollows DEF Inv
<1>2. /\ location # NoLocation
      /\ \/ ~NeedHeader(s) /\ why = PayloadFault(s) /\ why # "no"
         \/ NeedHeader(s) /\ why = HeaderFault(s) /\ why # "no"
  BY DEF Faults
<1> HIDE DEF s
<1>3. /\ location \in AnyLocation /\ s.location \in AnyLocation
      /\ location.group \in Int /\ location.object \in Int /\ location.object >= 0
      /\ location.group >= 0
      /\ s.location.group \in Int /\ s.location.object \in Int
      /\ s.out.group \in Int /\ s.out.remaining \in Nat /\ s.remaining \in Nat
      /\ s.out.header \in AnyLocation
      /\ s.out.header.object \in Int
  <2>1. location \in AnyLocation
    BY <1>1 DEF TypeOK
  <2>2. /\ s.location \in AnyLocation /\ s.remaining \in 0..MaxSize /\ s.out \in OutStream
    BY <1>1 DEF SubscriberInfo
  <2>3. /\ s.out.header \in AnyLocation /\ s.out.group \in -1..MaxGroup
        /\ s.out.remaining \in 0..MaxSize
    BY <2>2 DEF OutStream
  <2>4. \A l \in AnyLocation :
            /\ l.group \in Int /\ l.object \in Int
            /\ l # NoLocation => l.group >= 0 /\ l.object >= 0
    BY LocationType
  <2> QED
    BY <1>2, <2>1, <2>2, <2>3, <2>4, BoundsAssumption
<1>4. CASE NeedHeader(s) /\ why = HeaderFault(s)
  <2>1. ~(location.group < s.out.group)
    BY <1>1, <1>3 DEF Follows
  <2>2. s.out.remaining = 0
    BY <1>1, <1>2, <1>4 DEF Counted
  <2>3. ASSUME location.group = s.out.group, location.object <= s.out.header.object
        PROVE  FALSE
    <3>1. CASE s.out.header = NoLocation
      BY <1>3, <2>3, <3>1 DEF NoLocation
    <3>2. CASE s.out.header # NoLocation
      <4>1. s.out.header = s.location /\ s.out.group = s.location.group
        BY <1>1, <3>2 DEF Follows
      <4> QED
        BY <1>3, <1>4, <2>3, <4>1 DEF NeedHeader, Before
    <3> QED
      BY <3>1, <3>2
  <2> QED
    BY <1>2, <1>4, <2>1, <2>2, <2>3 DEF HeaderFault
<1>5. CASE ~NeedHeader(s) /\ why = PayloadFault(s) /\ why # "no"
  <2>1. Length \in Nat /\ Len(Buffered) \in Nat
    BY <1>1, BufferType, BoundsAssumption
  <2>2. ~(ReadPos(s) < 0)
    <3>1. CASE s.remaining = 0
      BY <1>3, <2>1, <3>1 DEF ReadPos
    <3>2. CASE s.remaining # 0
      <4>1. s.location = location
        BY <1>1, <1>3, <1>5, LocationOrder DEF Follows, NeedHeader
      <4>2. /\ Len(s.out.payload) + s.remaining = obj_payload_len
            /\ Len(s.out.payload) \in Nat
        BY <1>1, <3>2, <4>1 DEF Follows, SubscriberInfo, OutStream
      <4>3. Length = obj_payload_len
        BY <1>1, <3>2 DEF Length
      <4> QED
        BY <1>3, <2>1, <4>2, <4>3 DEF ReadPos
    <3> QED
      BY <3>1, <3>2
  <2>3. Unsent(s) => s.out.group # -1 /\ Len(Buffered) - ReadPos(s) <= s.out.remaining
    BY <1>1, <1>2, <1>5, UnsentFollows
  <2>4. Unsent(s) => ~(Len(Buffered) - ReadPos(s) > s.out.remaining)
    <3>1. ReadPos(s) \in Int
      BY <1>3, <2>1 DEF ReadPos
    <3> QED
      BY <1>3, <2>1, <2>3, <3>1
  <2> QED
    BY <1>5, <2>2, <2>3, <2>4 DEF PayloadFault
<1> QED
  BY <1>2, <1>4, <1>5

(***************************************************************************)
(* The invariant holds at first, and every action preserves it.            *)
(***************************************************************************)

LEMMA NoSubscribers ==
    /\ DOMAIN << >> = {}
    /\ << >> \in [DOMAIN << >> -> SubscriberInfo]
<1>1. << >> \in Seq(SubscriberInfo) /\ Len(<< >>) = 0
  OBVIOUS
<1>2. << >> \in [1..0 -> SubscriberInfo] /\ DOMAIN << >> = 1..0
  BY <1>1, LenProperties
<1> QED
  BY <1>2

LEMMA InitInv ==
    Init => Inv
<1> SUFFICES ASSUME Init PROVE Inv
  OBVIOUS
<1>1. DOMAIN subscribers = {}
  BY DEF Init
<1>2. TypeOK
  <2>1. subscribers \in [DOMAIN subscribers -> SubscriberInfo]
    BY NoSubscribers DEF Init
  <2>2. /\ served \subseteq DOMAIN subscribers
        /\ DOMAIN subscribers \subseteq Subscriber
    BY <1>1 DEF Init
  <2>3. obj_buf \in Seq(AnyUnit) /\ Len(obj_buf) = 0
    BY DEF Init
  <2>4. /\ publisher \in BOOLEAN /\ publishers \in 1..MaxPublisher
        /\ given \subseteq Location /\ upstream \in 0..MaxSize
        /\ location \in AnyLocation /\ obj_payload_len \in 0..MaxSize
        /\ Len(obj_buf) <= obj_payload_len
    BY <2>3, BoundsAssumption DEF Init, AnyLocation
  <2>5. /\ subgroup_canceled \in BOOLEAN /\ step \in {"idle", "loop", "read"}
        /\ panicked \in PanicReason
    BY DEF Init, PanicReason
  <2> QED
    BY <2>1, <2>2, <2>3, <2>4, <2>5 DEF TypeOK
<1>3. Fits /\ TurnsOver /\ SendsLegal
  BY DEF Init, Fits, TurnsOver, SendsLegal
<1>4. InOrder
  BY <1>1 DEF Init, InOrder
<1> QED
  BY <1>1, <1>2, <1>3, <1>4 DEF Inv

\* A subscriber that joins has nothing yet.
LEMMA JoinInv ==
    ASSUME Inv, NEW c \in Subscriber, Join(c)
    PROVE  Inv'
<1>1. NewSubscriber = [location |-> NoLocation, remaining |-> 0, out |-> NoOutStream]
  BY DEF NewSubscriber
<1>2. NewSubscriber \in SubscriberInfo /\ Counted(NewSubscriber)
  <2>1. 0 \in 0..MaxSize /\ -1 \in -1..MaxGroup /\ NoLocation \in AnyLocation
    BY BoundsAssumption DEF AnyLocation
  <2>2. NoOutStream \in OutStream /\ NoOutStream.remaining = 0
    BY <2>1, NewStreams
  <2> QED
    BY <1>1, <2>1, <2>2 DEF SubscriberInfo, Counted
<1>3. /\ DOMAIN subscribers' = DOMAIN subscribers \cup {c}
      /\ \A d \in DOMAIN subscribers' :
             subscribers'[d] = IF d = c THEN NewSubscriber ELSE subscribers[d]
  BY DEF Join
<1>4. TypeOK'
  <2>1. subscribers' \in [DOMAIN subscribers' -> SubscriberInfo]
    BY <1>2 DEF Inv, TypeOK, Join
  <2> QED
    BY <1>3, <2>1 DEF Inv, TypeOK, Join, bufferVars, publisherVars
<1>5. \A d \in DOMAIN subscribers' : Counted(subscribers'[d])
  BY <1>2, <1>3 DEF Inv
<1>6. (Fits /\ TurnsOver /\ SendsLegal)'
  BY DEF Inv, Join, bufferVars, publisherVars, Fits, TurnsOver, SendsLegal, Ordered
<1>7. InOrder => InOrder'
  <2>1. Follows(NewSubscriber)
    <3>1. /\ NoOutStream.header = NoLocation /\ NoOutStream.payload = << >>
          /\ NoOutStream.group = -1
      BY DEF NoOutStream
    <3>2. location \in AnyLocation /\ NoLocation \in AnyLocation
      BY DEF Inv, TypeOK, AnyLocation
    <3>3. -1 <= location.group
      BY <3>2, LocationType, BoundsAssumption
    <3>4. ~Before(location, NoLocation)
      BY <3>2, LocationType DEF Before
    <3> QED
      BY <1>1, <1>2, <3>1, <3>3, <3>4, EmptyFollows DEF Inv
  <2>3. UNCHANGED <<location, obj_payload_len>>
    BY DEF Join, bufferVars
  <2>5. served' = served /\ served \subseteq DOMAIN subscribers /\ c \notin served
    BY DEF Join, Inv, TypeOK
  <2>6. InOrder => (\A d \in DOMAIN subscribers : Follows(subscribers[d]))'
    <3>1. SUFFICES ASSUME InOrder, NEW d \in DOMAIN subscribers'
                   PROVE  Follows(subscribers[d])'
      OBVIOUS
    <3>2. Follows(subscribers'[d])
      BY <1>3, <2>1, <3>1 DEF InOrder
    <3> QED
      BY <2>3, <3>2 DEF Follows
  <2> QED
    BY <1>3, <2>5, <2>6 DEF InOrder, Join, bufferVars, publisherVars
<1> QED
  BY <1>4, <1>5, <1>6, <1>7 DEF Inv, Ordered, Join, publisherVars

LEMMA LeaveInv ==
    ASSUME Inv, NEW c \in Subscriber, Leave(c)
    PROVE  Inv'
<1>1. /\ DOMAIN subscribers' = DOMAIN subscribers \ {c}
      /\ \A d \in DOMAIN subscribers' :
             d \in DOMAIN subscribers /\ subscribers'[d] = subscribers[d]
  BY DEF Leave
<1>2. served = {} /\ served' = {}
  BY DEF Leave, Idle, Inv, TurnsOver
<1>3. TypeOK'
  <2>1. subscribers' \in [DOMAIN subscribers' -> SubscriberInfo]
    BY DEF Inv, TypeOK, Leave
  <2> QED
    BY <1>1, <1>2, <2>1 DEF Inv, TypeOK, Leave, bufferVars, publisherVars
<1>4. \A d \in DOMAIN subscribers' : Counted(subscribers'[d])
  BY <1>1 DEF Inv
<1>5. (Fits /\ TurnsOver /\ SendsLegal)'
  BY DEF Inv, Leave, bufferVars, publisherVars, Fits, TurnsOver, SendsLegal, Ordered
<1>6. InOrder => InOrder'
  <2>1. InOrder => \A d \in DOMAIN subscribers' : Follows(subscribers'[d])
    BY <1>1 DEF InOrder
  <2>2. InOrder => (\A d \in DOMAIN subscribers : Follows(subscribers[d]))'
    BY <2>1 DEF Follows, Leave, bufferVars
  <2> QED
    BY <1>2, <2>2 DEF InOrder, Leave, bufferVars, publisherVars
<1> QED
  BY <1>3, <1>4, <1>5, <1>6 DEF Inv, Ordered, Leave, publisherVars

\* The publisher is lost or finished: its subscribers are gone, the buffer stays.
LEMMA DropPublisherInv ==
    ASSUME Inv, step # "loop", DropPublisher, step' \in {step, "idle"}
    PROVE  Inv'
<1>1. subscribers' = << >> /\ DOMAIN subscribers' = {}
  BY NoSubscribers DEF DropPublisher
<1>2. served' = {} /\ ~subgroup_canceled' /\ step' \in {"idle", "read"}
  BY DEF DropPublisher, bufferVars, Inv, TurnsOver, TypeOK
<1>3. TypeOK'
  <2>1. subscribers' \in [DOMAIN subscribers' -> SubscriberInfo]
    BY <1>1, NoSubscribers
  <2>2. /\ upstream' \in 0..MaxSize /\ publisher' \in BOOLEAN
        /\ served' \subseteq DOMAIN subscribers' /\ DOMAIN subscribers' \subseteq Subscriber
    <3>1. upstream' \in 0..MaxSize
      BY BoundsAssumption DEF DropPublisher
    <3>2. publisher' \in BOOLEAN
      BY DEF DropPublisher
    <3>3. served' \subseteq DOMAIN subscribers' /\ DOMAIN subscribers' \subseteq Subscriber
      BY <1>1, <1>2
    <3> QED
      BY <3>1, <3>2, <3>3
  <2> QED
    BY <1>2, <2>1, <2>2 DEF Inv, TypeOK, DropPublisher, bufferVars
<1>4. (Fits /\ TurnsOver /\ SendsLegal)'
  BY <1>2 DEF Inv, DropPublisher, bufferVars, Fits, TurnsOver, SendsLegal, Ordered
<1>5. InOrder => InOrder'
  BY <1>1, <1>2 DEF InOrder, DropPublisher, bufferVars
<1> QED
  BY <1>1, <1>3, <1>4, <1>5 DEF Inv, Ordered, DropPublisher

\* After another publisher has come, nothing is said of what is sent.
LEMMA PublisherBackInv ==
    ASSUME Inv, PublisherBack
    PROVE  Inv'
<1>1. publishers' = publishers + 1 /\ publishers \in Nat /\ publishers >= 1
  BY BoundsAssumption DEF PublisherBack, Inv, TypeOK
<1>2. ~Ordered'
  BY <1>1 DEF Ordered
<1>3. publishers' \in 1..MaxPublisher
  BY <1>1, BoundsAssumption DEF PublisherBack
<1>4. TypeOK'
  BY <1>3 DEF Inv, TypeOK, PublisherBack, bufferVars
<1>5. (Fits /\ TurnsOver)' /\ \A c \in DOMAIN subscribers' : Counted(subscribers'[c])
  BY DEF Inv, PublisherBack, bufferVars, Fits, TurnsOver
<1> QED
  BY <1>2, <1>4, <1>5 DEF Inv, SendsLegal

\* The turn of a subscriber; after the last one the buffer of a canceled object is empty.
LEMMA ForwardInv ==
    ASSUME Inv, NEW c \in Subscriber, Forward(c)
    PROVE  Inv'
<1>1. PICK u \in Outcomes(c) : subscribers' = [subscribers EXCEPT ![c] = u]
  BY DEF Forward
<1>2. c \in DOMAIN subscribers /\ TypeOK /\ Counted(subscribers[c])
  BY DEF Forward, Turn, Inv
<1>3. u \in SubscriberInfo /\ Counted(u)
  BY <1>2, OutcomeTyped
<1>4. /\ DOMAIN subscribers' = DOMAIN subscribers
      /\ subscribers'[c] = u
      /\ \A d \in DOMAIN subscribers : d # c => subscribers'[d] = subscribers[d]
      /\ subscribers' \in [DOMAIN subscribers' -> SubscriberInfo]
  BY <1>1, <1>2, <1>3 DEF TypeOK
<1>5. /\ UNCHANGED <<publisher, publishers, given, upstream, location, panicked>>
      /\ \/ /\ served \cup {c} = DOMAIN subscribers
            /\ obj_payload_len' = Length /\ obj_buf' = Buffered
            /\ subgroup_canceled' = FALSE /\ served' = {} /\ step' = "read"
         \/ /\ served' = served \cup {c} /\ step' = "loop"
            /\ UNCHANGED <<obj_payload_len, obj_buf, subgroup_canceled>>
  BY DEF Forward, publisherVars
<1>6. TypeOK'
  <2>1. /\ Length \in 0..MaxSize /\ Buffered \in Seq(AnyUnit)
        /\ Len(Buffered) <= Length
    BY <1>2, BufferType
  <2>2. /\ obj_payload_len' \in 0..MaxSize /\ obj_buf' \in Seq(AnyUnit)
        /\ Len(obj_buf') <= obj_payload_len'
        /\ subgroup_canceled' \in BOOLEAN /\ step' \in {"idle", "loop", "read"}
        /\ served' \subseteq DOMAIN subscribers'
    BY <1>2, <1>4, <1>5, <2>1 DEF TypeOK
  <2> QED
    BY <1>2, <1>4, <1>5, <2>2 DEF TypeOK
<1>7. \A d \in DOMAIN subscribers' : Counted(subscribers'[d])
  BY <1>3, <1>4 DEF Inv
<1>8. (Fits /\ TurnsOver /\ SendsLegal)'
  <2>1. CASE subgroup_canceled
    BY <1>5, <2>1 DEF Inv, Fits, TurnsOver, SendsLegal, Ordered, Length
  <2>2. CASE ~subgroup_canceled
    <3>1. obj_payload_len' = obj_payload_len /\ obj_buf' = obj_buf /\ ~subgroup_canceled'
      BY <1>5, <2>2 DEF Length, Buffered
    <3> QED
      BY <1>5, <3>1 DEF Inv, Fits, TurnsOver, SendsLegal, Ordered
  <2> QED
    BY <2>1, <2>2
<1>9. ASSUME InOrder PROVE InOrder'
  <2>1. Follows(u) /\ (subgroup_canceled => u.remaining = 0)
    BY <1>2, <1>9, OutcomeFollows
  <2>2. \A d \in DOMAIN subscribers' : Follows(subscribers'[d])
    BY <1>4, <1>9, <2>1 DEF InOrder
  <2>3. subgroup_canceled => \A d \in served \cup {c} : subscribers'[d].remaining = 0
    BY <1>2, <1>4, <1>9, <2>1 DEF InOrder, TypeOK
  <2>4. CASE UNCHANGED <<obj_payload_len, obj_buf, subgroup_canceled>>
    <3>1. (\A d \in DOMAIN subscribers : Follows(subscribers[d]))'
      BY <1>5, <2>2, <2>4 DEF Follows
    <3>2. subgroup_canceled' => \A d \in served' : subscribers'[d].remaining = 0
      BY <1>5, <2>3, <2>4
    <3> QED
      BY <1>5, <1>9, <2>4, <3>1, <3>2 DEF InOrder
  <2>5. CASE /\ subgroup_canceled /\ served \cup {c} = DOMAIN subscribers
             /\ obj_payload_len' = Length /\ obj_buf' = Buffered
             /\ subgroup_canceled' = FALSE
    <3>1. \A d \in DOMAIN subscribers' : subscribers'[d].remaining = 0
      BY <1>4, <2>3, <2>5
    <3>2. (\A d \in DOMAIN subscribers : Follows(subscribers[d]))'
      BY <1>5, <2>2, <3>1 DEF Follows
    <3>3. obj_buf' = << >>
      BY <2>5 DEF Buffered
    <3>4. \A i \in DOMAIN obj_buf' : FALSE
      BY <3>3, NoSubscribers
    <3> QED
      BY <1>5, <1>9, <2>5, <3>2, <3>4 DEF InOrder
  <2>6. ~subgroup_canceled /\ subgroup_canceled' = FALSE
            => subgroup_canceled' = subgroup_canceled
    BY <1>2 DEF TypeOK
  <2> QED
    BY <1>5, <2>4, <2>5, <2>6 DEF Length, Buffered
<1> QED
  BY <1>5, <1>6, <1>7, <1>8, <1>9 DEF Inv, Ordered

\* An assertion that fails ends the relay; in order, it is one that is allowed for.
LEMMA ForwardFaultInv ==
    ASSUME Inv, NEW c \in Subscriber, ForwardFault(c)
    PROVE  Inv'
<1>1. PICK why \in Faults(c) : Panic(why)
  BY DEF ForwardFault
<1>2. c \in DOMAIN subscribers
  BY DEF ForwardFault, Turn
<1>3. why \in PanicReason
  <2>1. \A s : HeaderFault(s) \in PanicReason
    BY DEF HeaderFault, PanicReason
  <2>2. \A s : PayloadFault(s) \in PanicReason
    BY DEF PayloadFault, PanicReason
  <2> QED
    BY <2>1, <2>2 DEF Faults
<1>4. TypeOK'
  BY <1>1, <1>3 DEF Inv, TypeOK, Panic, bufferVars, publisherVars
<1>5. (Fits /\ TurnsOver)' /\ \A d \in DOMAIN subscribers' : Counted(subscribers'[d])
  BY <1>1 DEF Inv, Panic, bufferVars, publisherVars, Fits, TurnsOver
<1>6. InOrder => InOrder'
  BY <1>1 DEF Panic, bufferVars, publisherVars, InOrder, Follows
<1>7. Ordered' = Ordered
  BY <1>1 DEF Panic, publisherVars, Ordered
<1>8. SendsLegal'
  <2>1. Ordered' => panicked' = "empty object"
    BY <1>1, <1>2, <1>7, OnlyEmptyFaults DEF Inv, Panic
  <2> QED
    BY <2>1 DEF SendsLegal
<1> QED
  BY <1>4, <1>5, <1>6, <1>7, <1>8 DEF Inv

\* The payload read is that of the object, and goes on where the buffer ends.
LEMMA ReadPayloadInv ==
    ASSUME Inv, NEW n \in 1..MaxSize, ReadPayload(n)
    PROVE  Inv'
<1> DEFINE more == [i \in 1..n |-> Unit(location, Len(obj_buf) + i)]
<1>1. /\ location # NoLocation /\ location \in Location
      /\ upstream + Len(obj_buf) = obj_payload_len
      /\ Len(obj_buf) \in Nat /\ upstream \in Nat /\ n \in Nat \ {0}
      /\ obj_payload_len \in 0..MaxSize /\ n <= upstream
  <2>1. /\ Len(obj_buf) \in Nat /\ upstream \in Nat /\ n \in Nat \ {0}
        /\ obj_payload_len \in 0..MaxSize /\ n <= upstream /\ location \in AnyLocation
        /\ Len(obj_buf) < obj_payload_len
    BY BoundsAssumption DEF Inv, TypeOK, ReadPayload, MidObject
  <2>2. location # NoLocation /\ upstream + Len(obj_buf) = obj_payload_len
    BY <2>1, BoundsAssumption DEF Inv, Fits
  <2> QED
    BY <2>1, <2>2 DEF AnyLocation
<1>2. more \in Seq(AnyUnit) /\ Len(more) = n
  <2>1. \A i \in 1..n : Unit(location, Len(obj_buf) + i) \in AnyUnit
    <3>1. TAKE i \in 1..n
    <3>2. Len(obj_buf) + i \in 1..MaxSize
      BY <1>1, BoundsAssumption
    <3> QED
      BY <1>1, <3>2 DEF Unit, AnyUnit
  <2> QED
    BY <1>1, <2>1
<1>3. obj_buf \in Seq(AnyUnit) /\ obj_buf' = obj_buf \o more
  BY DEF Inv, TypeOK, ReadPayload
<1>4. /\ obj_buf' \in Seq(AnyUnit) /\ Len(obj_buf') = Len(obj_buf) + n
      /\ \A i \in 1..Len(obj_buf) : obj_buf'[i] = obj_buf[i]
      /\ \A i \in 1..n : obj_buf'[Len(obj_buf) + i] = more[i]
  <2> HIDE DEF more
  <2>1. \A a \in Seq(AnyUnit), b \in Seq(AnyUnit) :
            /\ a \o b \in Seq(AnyUnit) /\ Len(a \o b) = Len(a) + Len(b)
            /\ \A i \in 1..Len(a) : (a \o b)[i] = a[i]
            /\ \A i \in 1..Len(b) : (a \o b)[Len(a) + i] = b[i]
    BY ConcatProperties
  <2> QED
    BY <1>2, <1>3, <2>1, Zenon
<1>5. upstream' = upstream - n /\ step' = "loop"
      /\ UNCHANGED <<publisher, publishers, given, subscribers, served, location,
                     obj_payload_len, subgroup_canceled, panicked>>
  BY DEF ReadPayload
<1>6. TypeOK'
  <2>1. upstream' \in 0..MaxSize /\ Len(obj_buf') <= obj_payload_len'
    BY <1>1, <1>4, <1>5, BoundsAssumption
  <2> QED
    BY <1>4, <1>5, <2>1 DEF Inv, TypeOK
<1>7. (Fits /\ TurnsOver /\ SendsLegal)' /\ \A c \in DOMAIN subscribers' : Counted(subscribers'[c])
  <2>1. Fits'
    <3>1. upstream' # 0 => upstream' + Len(obj_buf') = obj_payload_len'
      BY <1>1, <1>4, <1>5
    <3>2. ~subgroup_canceled /\ location' # NoLocation
      BY <1>1, <1>5 DEF Inv, TurnsOver, ReadPayload, AtRead
    <3> QED
      BY <1>5, <3>1, <3>2 DEF Fits
  <2> QED
    BY <1>5, <2>1 DEF Inv, TurnsOver, SendsLegal, Ordered
<1>8. InOrder => InOrder'
  <2>1. ASSUME InOrder, NEW i \in DOMAIN obj_buf'
        PROVE  obj_buf'[i] = Unit(location, i)
    <3>1. i \in 1..Len(obj_buf) + n
      BY <1>4
    <3>2. CASE i \in 1..Len(obj_buf)
      BY <1>3, <1>4, <2>1, <3>2 DEF InOrder
    <3>3. CASE i \notin 1..Len(obj_buf)
      <4> DEFINE j == i - Len(obj_buf)
      <4>1. j \in 1..n /\ i = Len(obj_buf) + j
        BY <1>1, <3>1, <3>3
      <4>2. more[j] = Unit(location, i)
        BY <4>1
      <4> HIDE DEF j, more
      <4> QED
        BY <1>4, <4>1, <4>2
    <3> QED
      BY <3>2, <3>3
  <2>2. InOrder => (\A c \in DOMAIN subscribers : Follows(subscribers[c]))'
    BY <1>5 DEF InOrder, Follows
  <2> QED
    BY <1>5, <2>1, <2>2 DEF InOrder
<1> QED
  BY <1>5, <1>6, <1>7, <1>8 DEF Inv, Ordered

LEMMA ReadPayloadFinInv ==
    ASSUME Inv, ReadPayloadFin
    PROVE  Inv'
<1>1. upstream' \in 0..MaxSize /\ upstream' = 0
  BY BoundsAssumption DEF ReadPayloadFin
<1>2. served = {} /\ served' = {}
  BY DEF Inv, TurnsOver, ReadPayloadFin, AtRead
<1>3. TypeOK'
  BY <1>1 DEF Inv, TypeOK, ReadPayloadFin
<1>4. (Fits /\ TurnsOver /\ SendsLegal)' /\ \A c \in DOMAIN subscribers' : Counted(subscribers'[c])
  BY <1>1 DEF Inv, ReadPayloadFin, Fits, TurnsOver, SendsLegal, Ordered
<1>5. InOrder => InOrder'
  BY <1>2 DEF InOrder, Follows, ReadPayloadFin
<1> QED
  BY <1>3, <1>4, <1>5 DEF Inv, Ordered, ReadPayloadFin

LEMMA ReadPayloadFaultInv ==
    ASSUME Inv, ReadPayloadFault
    PROVE  Inv'
<1>1. Panic("payload read outside an object")
  BY DEF ReadPayloadFault
<1>2. TypeOK'
  BY <1>1 DEF Inv, TypeOK, Panic, bufferVars, publisherVars, PanicReason
<1>3. (Fits /\ TurnsOver)' /\ \A d \in DOMAIN subscribers' : Counted(subscribers'[d])
  BY <1>1 DEF Inv, Panic, bufferVars, publisherVars, Fits, TurnsOver
<1>4. InOrder => InOrder'
  BY <1>1 DEF Panic, bufferVars, publisherVars, InOrder, Follows
<1>5. Ordered' = Ordered /\ SendsLegal'
  BY <1>1 DEF Panic, publisherVars, Ordered, SendsLegal
<1> QED
  BY <1>2, <1>3, <1>4, <1>5 DEF Inv

\* The header of a later object: every subscriber is behind it.
LEMMA ReadHeaderInv ==
    ASSUME Inv, NEW l \in Location, NEW size \in 1..MaxSize, ReadHeader(l, size)
    PROVE  Inv'
<1>1. /\ location' = l /\ obj_payload_len' = size /\ obj_buf' = << >> /\ upstream' = size
      /\ l \in given' /\ given' \subseteq given \cup {l} /\ step' = "loop"
      /\ UNCHANGED <<publisher, publishers, subscribers, served, subgroup_canceled, panicked>>
  BY DEF ReadHeader
<1>2. served = {} /\ ~subgroup_canceled
  BY DEF Inv, TurnsOver, ReadHeader, AtRead
<1>3. l \in AnyLocation /\ l # NoLocation
  BY DEF AnyLocation, Location, NoLocation
<1>4. /\ obj_buf' \in Seq(AnyUnit) /\ Len(obj_buf') = 0 /\ size \in 0..MaxSize
      /\ \A i \in DOMAIN obj_buf' : FALSE
  BY <1>1, NoSubscribers, BoundsAssumption
<1>5. TypeOK'
  <2>1. Len(obj_buf') <= obj_payload_len' /\ given' \subseteq Location
    BY <1>1, <1>4, BoundsAssumption DEF Inv, TypeOK
  <2> QED
    BY <1>1, <1>3, <1>4, <2>1 DEF Inv, TypeOK
<1>6. (Fits /\ TurnsOver /\ SendsLegal)' /\ \A c \in DOMAIN subscribers' : Counted(subscribers'[c])
  <2>1. Fits'
    BY <1>1, <1>2, <1>3, <1>4, BoundsAssumption DEF Fits
  <2> QED
    BY <1>1, <2>1 DEF Inv, TurnsOver, SendsLegal, Ordered
<1>7. ASSUME Ordered, InOrder PROVE InOrder'
  <2>1. Before(location, l)
    <3>1. location \in AnyLocation
      BY DEF Inv, TypeOK
    <3>2. CASE location = NoLocation
      BY <1>3, <3>1, <3>2, LocationType DEF Before
    <3>3. CASE location # NoLocation
      BY <1>7, <3>3 DEF InOrder, Ordered, ReadHeader
    <3> QED
      BY <3>2, <3>3
  <2>2. ASSUME NEW c \in DOMAIN subscribers
        PROVE  Follows(subscribers[c])'
    <3> DEFINE s == subscribers[c]
    <3>1. Follows(s) /\ s \in SubscriberInfo /\ location \in AnyLocation
      BY <1>7 DEF InOrder, Inv, TypeOK
    <3>2. s.location \in AnyLocation /\ ~Before(location, s.location)
      BY <3>1 DEF SubscriberInfo, Follows
    <3>3. Before(s.location, l)
      BY <1>3, <2>1, <3>1, <3>2, LocationOrder
    <3>4. ~Before(l, s.location) /\ s.location # l
      BY <1>3, <3>2, <3>3, LocationOrder
    <3>5. s.out.group <= l.group
      <4>1. location.group <= l.group
        BY <1>3, <2>1, <3>1, LocationOrder
      <4>2. /\ s.out.group \in Int /\ location.group \in Int /\ l.group \in Int
            /\ s.out.group <= location.group
        BY <1>3, <3>1, LocationType, BoundsAssumption
        DEF SubscriberInfo, OutStream, Follows
      <4> QED
        BY <4>1, <4>2
    <3> HIDE DEF s
    <3>6. /\ s.out.header # NoLocation => /\ s.out.header = s.location
                                          /\ s.out.group = s.location.group
          /\ s.remaining # 0 => s.out.header = s.location
          /\ \A i \in DOMAIN s.out.payload : s.out.payload[i] = Unit(s.out.header, i)
      BY <3>1 DEF Follows
    <3> QED
      BY <1>1, <3>4, <3>5, <3>6 DEF Follows, s
  <2>3. (\A c \in DOMAIN subscribers : Follows(subscribers[c]))'
    BY <1>1, <2>2
  <2> QED
    BY <1>1, <1>2, <1>4, <2>3 DEF InOrder
<1> QED
  BY <1>1, <1>5, <1>6, <1>7 DEF Inv, Ordered

LEMMA ReadNothingInv ==
    ASSUME Inv, ReadNothing
    PROVE  Inv'
<1>1. TypeOK'
  BY DEF Inv, TypeOK, ReadNothing, bufferVars, publisherVars
<1>2. (Fits /\ TurnsOver /\ SendsLegal)' /\ \A c \in DOMAIN subscribers' : Counted(subscribers'[c])
  BY DEF Inv, ReadNothing, AtRead, bufferVars, publisherVars, Fits, TurnsOver,
         SendsLegal, Ordered
<1>3. InOrder => InOrder'
  BY DEF InOrder, Follows, ReadNothing, bufferVars, publisherVars
<1> QED
  BY <1>1, <1>2, <1>3 DEF Inv, Ordered, ReadNothing, publisherVars

LEMMA StutterInv ==
    ASSUME Inv, UNCHANGED vars
    PROVE  Inv'
<1>1. TypeOK'
  BY DEF Inv, TypeOK, vars, bufferVars, publisherVars
<1>2. (Fits /\ TurnsOver /\ SendsLegal)' /\ \A c \in DOMAIN subscribers' : Counted(subscribers'[c])
  BY DEF Inv, vars, bufferVars, publisherVars, Fits, TurnsOver, SendsLegal, Ordered
<1>3. InOrder => InOrder'
  BY DEF InOrder, Follows, vars, bufferVars, publisherVars
<1> QED
  BY <1>1, <1>2, <1>3 DEF Inv, Ordered, vars, publisherVars

LEMMA StepInv ==
    ASSUME Inv, [Next]_vars
    PROVE  Inv'
<1>1. CASE \E c \in Subscriber : Join(c) \/ Leave(c)
  BY <1>1, JoinInv, LeaveInv
<1>2. CASE PublisherLost
  BY <1>2, DropPublisherInv DEF PublisherLost, Idle
<1>3. CASE PublisherBack
  BY <1>3, PublisherBackInv
<1>4. CASE \E c \in Subscriber : Forward(c) \/ ForwardFault(c)
  BY <1>4, ForwardInv, ForwardFaultInv
<1>5. CASE Read
  <2>1. CASE ReadFin
    BY <2>1, DropPublisherInv DEF ReadFin, AtRead
  <2> QED
    BY <1>5, <2>1, ReadPayloadInv, ReadPayloadFinInv, ReadPayloadFaultInv, ReadHeaderInv,
       ReadNothingInv DEF Read
<1>6. CASE UNCHANGED vars
  BY <1>6, StutterInv
<1> QED
  BY <1>1, <1>2, <1>3, <1>4, <1>5, <1>6 DEF Next

THEOREM RelayInvariant ==
    Spec => []Inv
<1> QED
  BY InitInv, StepInv, PTL DEF Spec

(***************************************************************************)
(* What it gives.                                                          *)
(***************************************************************************)

\* Every variable has its type, for every number of subscribers, locations and sizes.
THEOREM RelayTypes ==
    Spec => []TypeOK
<1>1. Inv => TypeOK
  BY DEF Inv
<1> QED
  BY <1>1, RelayInvariant, PTL

\* The relay's count of what a subscriber is still to be sent is always that of the
\* stream: nothing that is reset, skipped or canceled makes them differ.
THEOREM CountsAlwaysAgree ==
    Spec => []RemainingAgrees
<1>1. Inv => RemainingAgrees
  BY DEF Inv, Counted, RemainingAgrees
<1> QED
  BY <1>1, RelayInvariant, PTL

\* While the locations increase, no subscriber, however slow, makes the relay fail
\* the framing assertions of the OutStream.
THEOREM SendsAlwaysLegal ==
    Spec => []SendsLegal
<1>1. Inv => SendsLegal
  BY DEF Inv
<1> QED
  BY <1>1, RelayInvariant, PTL

\* While they do, each stream carries the payload of the object whose header it has.
THEOREM PayloadAlwaysInOrder ==
    Spec => []PayloadInOrder
<1>1. Inv => PayloadInOrder
  BY DEF Inv, InOrder, Follows, PayloadInOrder, PayloadOfHeader
<1> QED
  BY <1>1, RelayInvariant, PTL

\* While they do, no stream is left open for the rest of a canceled object.
THEOREM NeverStranded ==
    Spec => []NoObjectStranded
<1>1. ASSUME Inv PROVE NoObjectStranded
  <2>1. SUFFICES ASSUME Ordered, NEW c \in DOMAIN subscribers,
                        subscribers[c].remaining # 0,
                        ~Before(subscribers[c].location, location)
                 PROVE  /\ subscribers[c].location = location
                        /\ subscribers[c].remaining <= obj_payload_len
    BY DEF NoObjectStranded
  <2> DEFINE s == subscribers[c]
  <2>2. Follows(s) /\ s \in SubscriberInfo /\ location \in AnyLocation
    BY <1>1, <2>1 DEF Inv, InOrder, TypeOK
  <2>3. s.location = location
    BY <2>1, <2>2, LocationOrder DEF Follows, SubscriberInfo
  <2>4. /\ Len(s.out.payload) + s.remaining = obj_payload_len
        /\ Len(s.out.payload) \in Nat /\ s.remaining \in Nat
    BY <2>1, <2>2, <2>3, BoundsAssumption DEF Follows, SubscriberInfo, OutStream
  <2> QED
    BY <2>3, <2>4
<1> QED
  BY <1>1, RelayInvariant, PTL
=============================================================================
