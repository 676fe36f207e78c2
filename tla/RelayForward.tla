---------------------------- MODULE RelayForward ----------------------------
(***************************************************************************)
(* Phase 5 of the relay's loop (moq_relay/src/main.rs): how the objects of *)
(* one track go from its publisher to the subscribers the relay has        *)
(* accepted.  The relay buffers one object, and each subscriber follows at *)
(* the pace at which QUIC takes its data.                                  *)
(*                                                                         *)
(* A subscriber is here from the moment it is accepted (phase 4.5).  The   *)
(* publisher's session gives object headers and payload as MoqTrack        *)
(* describes it; `out' is the subscriber's current OutStream.  The phases  *)
(* before run between two calls of phase 5, in step "idle".                *)
(***************************************************************************)
EXTENDS Integers, Sequences

CONSTANTS
    Subscriber,     \* connections that subscribe to the track
    MaxGroup,       \* bound of the model: greatest group
    MaxObject,      \* bound of the model: greatest object id in a group
    MaxSize,        \* bound of the model: units of payload of an object
    MaxPublisher,   \* bound of the model: publishers of the track, one after the other
    StreamsInOrder  \* whether the publisher's streams reach the relay in their order

ASSUME BoundsAssumption ==
    /\ MaxGroup \in Nat
    /\ MaxObject \in Nat
    /\ MaxSize \in Nat \ {0}
    /\ MaxPublisher \in Nat \ {0}

ASSUME OrderAssumption ==
    StreamsInOrder \in BOOLEAN

VARIABLES
    publisher,      \* whether the track has a publisher that has accepted
    publishers,     \* how many it has had
    given,          \* locations this publisher has given; in order, the last one
    upstream,       \* payload of its current object that is still to be read
    subscribers,    \* accepted connection -> SubscriberInfo, with its OutStream
    location,       \* Subscription: the object being buffered
    obj_payload_len,
    obj_buf,        \* the payload read so far: write_pos is its length
    subgroup_canceled,
    served,         \* subscribers that had their turn in this iteration of the loop
    step,           \* "idle" between two calls, or the step of the loop that is next
    panicked        \* "no", or the assertion that ended the relay

bufferVars == <<location, obj_payload_len, obj_buf, subgroup_canceled>>
publisherVars == <<publisher, publishers, given, upstream>>
vars == <<publisherVars, subscribers, served, bufferVars, step, panicked>>

-----------------------------------------------------------------------------
Location == [group : 0..MaxGroup, object : 0..MaxObject]

\* No object yet: before every location.
NoLocation == [group |-> -1, object |-> -1]

Before(a, b) ==
    \/ a.group < b.group
    \/ a.group = b.group /\ a.object < b.object

\* A unit of payload is known by the object it belongs to and its place in it.
Unit(l, i) == [location |-> l, position |-> i]

\* The OutStream of a subscriber: its group, the location in its last header (the
\* next object has a greater id), the payload sent and how much is still to send.
NoOutStream == [group |-> -1, header |-> NoLocation, payload |-> << >>, remaining |-> 0]
NewOutStream(group) == [NoOutStream EXCEPT !.group = group]

NewSubscriber == [location |-> NoLocation, remaining |-> 0, out |-> NoOutStream]

Init ==
    /\ publisher = TRUE
    /\ publishers = 1
    /\ given = {}
    /\ upstream = 0
    /\ subscribers = << >>
    /\ served = {}
    /\ location = NoLocation
    /\ obj_payload_len = 0
    /\ obj_buf = << >>
    /\ subgroup_canceled = FALSE
    /\ step = "idle"
    /\ panicked = "no"

-----------------------------------------------------------------------------
(* Between two calls.                                                      *)

Idle == step = "idle" /\ panicked = "no"

\* Phases 1 and 4.5 of a new subscriber, whose publisher has accepted.
Join(c) ==
    /\ Idle
    /\ publisher
    /\ c \notin DOMAIN subscribers
    /\ subscribers' = [d \in DOMAIN subscribers \cup {c} |->
                          IF d = c THEN NewSubscriber ELSE subscribers[d]]
    /\ UNCHANGED <<publisherVars, served, bufferVars, step, panicked>>

\* Phase 0 of a subscriber whose connection has closed.
Leave(c) ==
    /\ Idle
    /\ c \in DOMAIN subscribers
    /\ subscribers' = [d \in DOMAIN subscribers \ {c} |-> subscribers[d]]
    /\ UNCHANGED <<publisherVars, served, bufferVars, step, panicked>>

\* Its subscribers are sent PUBLISH_DONE and removed, in phase 4.6 of this call
\* or of the next one.  The buffer stays as it is.
DropPublisher ==
    /\ publisher' = FALSE
    /\ subscribers' = << >>
    /\ upstream' = 0
    /\ UNCHANGED <<publishers, given, served, bufferVars, panicked>>

\* Phase 0 of the publisher's connection.
PublisherLost ==
    /\ Idle
    /\ publisher
    /\ DropPublisher
    /\ UNCHANGED step

\* Phases 3 and 4: another publisher of the namespace has accepted.
PublisherBack ==
    /\ Idle
    /\ ~publisher
    /\ publishers < MaxPublisher
    /\ publisher' = TRUE
    /\ publishers' = publishers + 1
    /\ given' = {}
    /\ UNCHANGED <<upstream, subscribers, served, bufferVars, step, panicked>>

-----------------------------------------------------------------------------
(* Steps 1 and 2: what becomes of one subscriber.                          *)

\* Variant: the count is reset and the stream is not.
CountReset(s) == [s EXCEPT !.remaining = 0]

\* reset_current_track_stream(), and the count with it.
Reset(s) == [s EXCEPT !.out = NoOutStream, !.remaining = 0]

\* Variant: a canceled object is waited for.
StillExpected(s) == s

\* Step 1: the rest of a canceled object will never come.
Canceled(s) ==
    IF subgroup_canceled /\ s.location = location /\ s.remaining # 0
    THEN Reset(s) ELSE s

\* Variant: write_pos is not cleared with the length.
StillBuffered == obj_buf

\* The buffer as step 1 leaves it.
Length == IF subgroup_canceled THEN 0 ELSE obj_payload_len
Buffered == IF subgroup_canceled THEN << >> ELSE obj_buf

\* Variant: a subscriber that has had an object is never given another one.
NeverStarted(s) == s.location = NoLocation

NeedHeader(s) == Before(s.location, location)

\* Variant: the stream of an unfinished object is used for the next one.
WithoutReset(s) == s

\* A subscriber that is to get a header it is behind on gives up what it has left.
Skipped(s) == IF s.remaining # 0 THEN Reset(s) ELSE s

\* send_obj_hdr_with() has room for the header, on the stream of its group.
HeaderSent(s) ==
    [location |-> location, remaining |-> Length,
     out |-> [group |-> location.group, header |-> location, payload |-> << >>,
              remaining |-> Length]]

\* It has not: no stream can be opened, or there is one but its headers do not fit.
HeaderBlocked(s) ==
    LET new == s.out.group # location.group
        stream == IF new THEN NewOutStream(location.group) ELSE s.out IN
    (IF new THEN {[s EXCEPT !.out = NoOutStream]} ELSE {})
    \cup (IF Length # 0 THEN {[s EXCEPT !.out = stream]} ELSE {})

\* Which assertion send_obj_hdr_with() fails, if any.
HeaderFault(s) ==
    IF location.group < s.out.group THEN "group order"
    ELSE IF s.out.remaining # 0 THEN "unfinished payload"
    ELSE IF Length = 0 THEN "empty object"
    ELSE IF location.group = s.out.group /\ location.object <= s.out.header.object
         THEN "object order"
    ELSE "no"

\* Variant: what was sent already is sent again.
FromStart(s) == 0

ReadPos(s) == Length - s.remaining

\* Units that an OutStream takes.
Extended(out, units) ==
    [group |-> out.group, header |-> out.header, payload |-> out.payload \o units,
     remaining |-> out.remaining - Len(units)]

\* What a subscriber has after the next n units from read_pos on.
Given(s, n) ==
    [s EXCEPT !.remaining = @ - n,
              !.out = Extended(s.out, SubSeq(Buffered, ReadPos(s) + 1, ReadPos(s) + n))]

\* obj_buf[read_pos..write_pos], none of it or as much as QUIC takes.
PayloadSent(s) == {Given(s, n) : n \in 0..Len(Buffered) - ReadPos(s)}

\* Whether there is anything to send.  A subtraction that overflows wraps around in
\* a release build: read_pos is then past write_pos.
Unsent(s) == ReadPos(s) \in 0..Len(Buffered) - 1

PayloadFault(s) ==
    IF ReadPos(s) < 0 THEN "subtraction overflow"
    ELSE IF Unsent(s) /\ s.out.group = -1 THEN "no stream"
    ELSE IF Unsent(s) /\ Len(Buffered) - ReadPos(s) > s.out.remaining THEN "exceeded payload"
    ELSE "no"

PayloadOutcomes(s) ==
    IF ~Unsent(s) THEN {s}
    ELSE IF PayloadFault(s) = "no" THEN PayloadSent(s)
    ELSE {}

\* A subscriber as step 2 takes it up.
Served(c) ==
    LET s == Canceled(subscribers[c]) IN
    IF location # NoLocation /\ NeedHeader(s) THEN Skipped(s) ELSE s

Outcomes(c) ==
    LET s == Served(c) IN
    IF location = NoLocation THEN {s}
    ELSE IF ~NeedHeader(s) THEN PayloadOutcomes(s)
    ELSE IF HeaderFault(s) = "no" THEN HeaderBlocked(s) \cup PayloadOutcomes(HeaderSent(s))
    ELSE IF HeaderFault(s) = "empty object" THEN HeaderBlocked(s)
    ELSE {}

Faults(c) ==
    LET s == Served(c) IN
    IF location = NoLocation THEN {}
    ELSE IF ~NeedHeader(s) THEN {PayloadFault(s)} \ {"no"}
    ELSE {HeaderFault(s)} \ {"no"}

AtLoop == step \in {"idle", "loop"} /\ publisher /\ panicked = "no"

\* The subscribers are a vector: each has its turn.
Turn(c) ==
    LET left == DOMAIN subscribers \ served IN
    c \in left /\ c = CHOOSE d \in left : TRUE

\* The buffer of a canceled object is cleared before the first; here, after the last.
Forward(c) ==
    /\ AtLoop
    /\ Turn(c)
    /\ \E s \in Outcomes(c) : subscribers' = [subscribers EXCEPT ![c] = s]
    /\ IF served \cup {c} = DOMAIN subscribers
       THEN /\ obj_payload_len' = Length
            /\ obj_buf' = Buffered
            /\ subgroup_canceled' = FALSE
            /\ served' = {}
            /\ step' = "read"
       ELSE /\ served' = served \cup {c}
            /\ step' = "loop"
            /\ UNCHANGED <<obj_payload_len, obj_buf, subgroup_canceled>>
    /\ UNCHANGED <<publisherVars, location, panicked>>

Panic(why) ==
    /\ panicked' = why
    /\ UNCHANGED <<publisherVars, subscribers, served, bufferVars, step>>

ForwardFault(c) ==
    /\ AtLoop
    /\ Turn(c)
    /\ \E why \in Faults(c) : Panic(why)

-----------------------------------------------------------------------------
(* Step 3: more payload, or the next object header.                        *)

AtRead == step = "read" /\ panicked = "no"
MidObject == Len(obj_buf) < obj_payload_len

\* read_obj_pld() gives n units.
ReadPayload(n) ==
    /\ AtRead
    /\ MidObject
    /\ n <= upstream
    /\ obj_buf' = obj_buf \o [i \in 1..n |-> Unit(location, Len(obj_buf) + i)]
    /\ upstream' = upstream - n
    /\ step' = "loop"
    /\ UNCHANGED <<publisher, publishers, given, subscribers, served, location,
                   obj_payload_len, subgroup_canceled, panicked>>

\* The publisher has reset the stream of the object.
ReadPayloadFin ==
    /\ AtRead
    /\ MidObject
    /\ upstream > 0
    /\ upstream' = 0
    /\ subgroup_canceled' = TRUE
    /\ step' = "loop"
    /\ UNCHANGED <<publisher, publishers, given, subscribers, served, location,
                   obj_payload_len, obj_buf, panicked>>

\* No header has been read on the stream that is current: its publisher is a new
\* one, or a late stream comes before that of the object.
ReadPayloadFault ==
    /\ AtRead
    /\ MidObject
    /\ upstream = 0 \/ ~StreamsInOrder
    /\ Panic("payload read outside an object")

ReadHeader(l, size) ==
    /\ AtRead
    /\ ~MidObject
    /\ l \notin given
    /\ StreamsInOrder => \A g \in given : Before(g, l)
    /\ given' = IF StreamsInOrder THEN {l} ELSE given \cup {l}
    /\ location' = l
    /\ obj_payload_len' = size
    /\ obj_buf' = << >>
    /\ upstream' = size
    /\ step' = "loop"
    /\ UNCHANGED <<publisher, publishers, subscribers, served, subgroup_canceled, panicked>>

\* Done, whatever is asked for: the loop ends.
ReadNothing ==
    /\ AtRead
    /\ step' = "idle"
    /\ UNCHANGED <<publisherVars, subscribers, served, bufferVars, panicked>>

\* The track is finished.
ReadFin ==
    /\ AtRead
    /\ ~MidObject
    /\ DropPublisher
    /\ step' = "idle"

Read ==
    \/ \E n \in 1..MaxSize : ReadPayload(n)
    \/ ReadPayloadFin
    \/ ReadPayloadFault
    \/ \E l \in Location, size \in 1..MaxSize : ReadHeader(l, size)
    \/ ReadNothing
    \/ ReadFin

-----------------------------------------------------------------------------
Next ==
    \/ \E c \in Subscriber : Join(c) \/ Leave(c)
    \/ PublisherLost
    \/ PublisherBack
    \/ \E c \in Subscriber : Forward(c) \/ ForwardFault(c)
    \/ Read

Spec == Init /\ [][Next]_vars

\* A subscriber that has all that the relay has of the current object.
UpToDate(s) ==
    /\ ~Before(s.location, location)
    /\ Length - s.remaining >= Len(Buffered)

\* QUIC takes all that there is to send to c.
Serve(c) == Forward(c) /\ UpToDate(subscribers'[c])

\* The relay's loop runs after every packet and timer, and a subscriber that
\* reads gets capacity again and again, whatever the other ones do: for all that
\* there is to send, or to get to an assertion that fails.
FairSpec ==
    /\ Spec
    /\ WF_vars(\E c \in Subscriber : Forward(c))
    /\ WF_vars(Read)
    /\ \A c \in Subscriber : SF_vars(Serve(c) \/ ForwardFault(c))

-----------------------------------------------------------------------------
(* Properties.                                                             *)

AnyLocation == Location \cup {NoLocation}
AnyUnit == [location : Location, position : 1..MaxSize]

OutStream ==
    [group : -1..MaxGroup, header : AnyLocation, payload : Seq(AnyUnit),
     remaining : 0..MaxSize]
SubscriberInfo == [location : AnyLocation, remaining : 0..MaxSize, out : OutStream]

PanicReason ==
    {"no", "group order", "unfinished payload", "empty object", "object order",
     "subtraction overflow", "no stream", "exceeded payload", "payload read outside an object"}

\* Every variable has its type, and no more is buffered than the object has.
TypeOK ==
    /\ publisher \in BOOLEAN
    /\ publishers \in 1..MaxPublisher
    /\ given \subseteq Location
    /\ upstream \in 0..MaxSize
    /\ served \subseteq DOMAIN subscribers
    /\ DOMAIN subscribers \subseteq Subscriber
    /\ subscribers \in [DOMAIN subscribers -> SubscriberInfo]
    /\ location \in AnyLocation
    /\ obj_payload_len \in 0..MaxSize
    /\ obj_buf \in Seq(AnyUnit)
    /\ Len(obj_buf) <= obj_payload_len
    /\ subgroup_canceled \in BOOLEAN
    /\ step \in {"idle", "loop", "read"}
    /\ panicked \in PanicReason

\* What the relay counts for a subscriber is what the OutStream counts: the
\* framing of the stream is never broken, whatever was reset or skipped.
RemainingAgrees ==
    \A c \in DOMAIN subscribers : subscribers[c].remaining = subscribers[c].out.remaining

\* The locations the relay reads have only increased so far.
Ordered == StreamsInOrder /\ publishers = 1

\* The assertions and unimplemented!() arms of the OutStream that a subscriber's
\* pace could reach are not reached while the publisher's streams keep their order.
SendsLegal ==
    Ordered => panicked \notin {"group order", "unfinished payload", "object order",
                                "no stream", "exceeded payload", "subtraction overflow"}

\* "retains its remaining count and catches up on later post_handle_recvs calls":
\* the payload on a stream is that of the object whose header came before it.
PayloadOfHeader ==
    \A c \in DOMAIN subscribers :
        LET out == subscribers[c].out IN
        \A i \in DOMAIN out.payload : out.payload[i] = Unit(out.header, i)

\* It is while the locations increase.
PayloadInOrder == Ordered => PayloadOfHeader

\* While the locations increase, an object is open at a subscriber only as long
\* as the relay has it to send, or has newer ones for which it will be given up: no
\* stream waits for the rest of a canceled one.
NoObjectStranded ==
    Ordered => \A c \in DOMAIN subscribers :
        subscribers[c].remaining # 0 =>
            \/ /\ subscribers[c].location = location
               /\ subscribers[c].remaining <= obj_payload_len
            \/ Before(subscribers[c].location, location)

Behind(c) == c \in DOMAIN subscribers /\ ~UpToDate(subscribers[c])

\* "A subscriber that cannot receive right now ... catches up": one that gets
\* capacity is not left behind for good, whatever becomes of the others.
CatchesUp ==
    \A c \in Subscriber :
        Behind(c) ~> ~Behind(c) \/ ~Ordered \/ panicked # "no"

\* "Those subscribers ... appear "done" with this canceled object and will receive
\* the next header normally": no other one is sent a header of an object of size 0.
CanceledNotSent == panicked # "empty object"
=============================================================================
